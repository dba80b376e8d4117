--------------------------- MODULE EmitterProofs ---------------------------
(***************************************************************************)
(* Proofs about Emitter, for literals, pools, codes and nestings of every  *)
(* size: without the rewrites in any program, with them as long as no call *)
(* has a last argument that is a literal or folded to one.                 *)
(***************************************************************************)
EXTENDS Emitter, WellFoundedInduction, SequenceTheorems, TLAPS

(* Induction over the naturals, as a fact about a set of them. *)
LEMMA Everywhere ==
  ASSUME NEW S \in SUBSET Nat, 0 \in S, \A n \in S : n + 1 \in S
  PROVE  S = Nat
  <1> DEFINE R == OpToRel(<, Nat)
  <1>1. IsWellFoundedOn(R, Nat)
    BY NatLessThanWellFounded
  <1>2. \A x, y \in Nat : x < y => <<x, y>> \in R
    BY Zenon DEF OpToRel
  <1> HIDE DEF R
  <1>3. SUFFICES ASSUME Nat \ S # {} PROVE FALSE
    OBVIOUS
  <1>4. PICK x \in Nat \ S : \A y \in Nat \ S : <<y, x>> \notin R
    BY <1>1, <1>3, WFMin
  <1>5. \A y \in Nat \ S : ~ (y < x)
    BY <1>2, <1>4, Zenon
  <1>6. x - 1 \in Nat /\ x - 1 < x
    BY <1>4
  <1>7. QED
    BY <1>4, <1>5, <1>6

-----------------------------------------------------------------------------
(* Seen counts the bytes of the first runs. *)
SeenUpTo(runs, n, g) == g = [m \in 0 .. n |-> IF m = 0 THEN 0 ELSE g[m - 1] + runs[m].count]

LEMMA SeenExists ==
  ASSUME NEW runs, NEW n \in Nat
  PROVE  \E g : SeenUpTo(runs, n, g)
  <1> DEFINE S == {m \in Nat : \E g : SeenUpTo(runs, m, g)}
  <1>1. SeenUpTo(runs, 0, [m \in 0 .. 0 |-> 0])
    BY DEF SeenUpTo
  <1>2. ASSUME NEW m \in Nat, NEW g, SeenUpTo(runs, m, g)
        PROVE  \E h : SeenUpTo(runs, m + 1, h)
    <2> DEFINE h == [l \in 0 .. m + 1 |-> IF l <= m THEN g[l] ELSE g[m] + runs[m + 1].count]
    <2>1. \A l \in 0 .. m : g[l] = IF l = 0 THEN 0 ELSE g[l - 1] + runs[l].count
      BY <1>2 DEF SeenUpTo
    <2>2. \A l \in 0 .. m + 1 : h[l] = IF l = 0 THEN 0 ELSE h[l - 1] + runs[l].count
      BY <2>1
    <2>3. SeenUpTo(runs, m + 1, h)
      BY <2>2 DEF SeenUpTo
    <2>4. QED
      BY <2>3
  <1>3. S = Nat
    <2>1. 0 \in S
      BY <1>1
    <2>2. \A m \in S : m + 1 \in S
      BY <1>2
    <2> HIDE DEF S
    <2>3. S \subseteq Nat
      BY DEF S
    <2>4. QED
      BY <2>1, <2>2, <2>3, Everywhere
  <1>4. QED
    BY <1>3

LEMMA SeenUnique ==
  ASSUME NEW runs, NEW n \in Nat, NEW g, NEW h, SeenUpTo(runs, n, g), SeenUpTo(runs, n, h)
  PROVE  g = h
  <1> DEFINE S == {m \in Nat : m <= n => g[m] = h[m]}
  <1>1. \A m \in 0 .. n : /\ g[m] = IF m = 0 THEN 0 ELSE g[m - 1] + runs[m].count
                          /\ h[m] = IF m = 0 THEN 0 ELSE h[m - 1] + runs[m].count
    BY DEF SeenUpTo
  <1>2. S = Nat
    <2>1. 0 \in S
      BY <1>1
    <2>2. ASSUME NEW m \in S PROVE m + 1 \in S
      BY <1>1
    <2> HIDE DEF S
    <2>3. S \subseteq Nat
      BY DEF S
    <2>4. QED
      BY <2>1, <2>2, <2>3, Everywhere
  <1>3. \A m \in 0 .. n : g[m] = h[m]
    BY <1>2
  <1>4. g = [m \in 0 .. n |-> g[m]] /\ h = [m \in 0 .. n |-> h[m]]
    BY DEF SeenUpTo
  <1>5. [m \in 0 .. n |-> g[m]] = [m \in 0 .. n |-> h[m]]
    BY <1>3
  <1>6. QED
    BY <1>4, <1>5, Zenon

LEMMA SeenIs ==
  ASSUME NEW runs, NEW n \in Nat, NEW g, SeenUpTo(runs, n, g)
  PROVE  Seen(runs, n) = g[n]
  <1>1. SeenUpTo(runs, n, CHOOSE f : SeenUpTo(runs, n, f))
    OBVIOUS
  <1>2. (CHOOSE f : SeenUpTo(runs, n, f)) = g
    BY <1>1, SeenUnique
  <1>3. Seen(runs, n) = (CHOOSE f : SeenUpTo(runs, n, f))[n]
    BY DEF Seen, SeenUpTo
  <1>4. QED
    BY <1>2, <1>3

LEMMA SeenNext ==
  ASSUME NEW runs
  PROVE  /\ Seen(runs, 0) = 0
         /\ \A n \in Nat : Seen(runs, n + 1) = Seen(runs, n) + runs[n + 1].count
  <1>1. Seen(runs, 0) = 0
    <2>1. SeenUpTo(runs, 0, [m \in 0 .. 0 |-> 0])
      BY DEF SeenUpTo
    <2>2. QED
      BY <2>1, SeenIs
  <1>2. ASSUME NEW n \in Nat
        PROVE  Seen(runs, n + 1) = Seen(runs, n) + runs[n + 1].count
    <2>1. PICK g : SeenUpTo(runs, n + 1, g)
      BY SeenExists
    <2> DEFINE h == [m \in 0 .. n |-> g[m]]
    <2>2. \A m \in 0 .. n + 1 : g[m] = IF m = 0 THEN 0 ELSE g[m - 1] + runs[m].count
      BY <2>1 DEF SeenUpTo
    <2>3. SeenUpTo(runs, n, h)
      BY <2>2 DEF SeenUpTo
    <2>4. Seen(runs, n) = h[n] /\ Seen(runs, n + 1) = g[n + 1]
      BY <2>1, <2>3, SeenIs
    <2>5. QED
      BY <2>2, <2>4
  <1>3. QED
    BY <1>1, <1>2

Total(runs) == Seen(runs, Len(runs))

LEMMA SeenLocal ==
  ASSUME NEW q, NEW r, NEW n \in Nat, \A m \in 1 .. n : q[m].count = r[m].count
  PROVE  Seen(q, n) = Seen(r, n)
  <1> DEFINE S == {m \in Nat : m <= n => Seen(q, m) = Seen(r, m)}
  <1>1. 0 \in S
    BY SeenNext
  <1>2. ASSUME NEW m \in S PROVE m + 1 \in S
    <2>1. m + 1 <= n => q[m + 1].count = r[m + 1].count
      OBVIOUS
    <2>2. /\ Seen(q, m + 1) = Seen(q, m) + q[m + 1].count
          /\ Seen(r, m + 1) = Seen(r, m) + r[m + 1].count
      BY SeenNext
    <2>3. QED
      BY <2>1, <2>2
  <1> HIDE DEF S
  <1>3. S \subseteq Nat
    BY DEF S
  <1>4. S = Nat
    BY <1>1, <1>2, <1>3, Everywhere
  <1>5. QED
    BY <1>4 DEF S

LEMMA RunAt ==
  ASSUME NEW runs \in Runs
  PROVE  /\ Len(runs) \in Nat /\ DOMAIN runs = 1 .. Len(runs)
         /\ \A n \in 1 .. Len(runs) : runs[n].line \in Nat /\ runs[n].count \in Nat
  <1> DEFINE R == [line : Nat, count : Nat]
  <1>1. runs \in Seq(R)
    BY DEF Runs
  <1>2. \A r \in R : r.line \in Nat /\ r.count \in Nat
    OBVIOUS
  <1> HIDE DEF R
  <1>3. \A n \in 1 .. Len(runs) : runs[n] \in R
    BY <1>1
  <1>4. QED
    BY <1>1, <1>2, <1>3

LEMMA SeenGrows ==
  ASSUME NEW runs \in Runs
  PROVE  /\ \A n \in 0 .. Len(runs) : Seen(runs, n) \in Nat
         /\ \A n \in 0 .. Len(runs) : \A m \in 0 .. n : Seen(runs, m) <= Seen(runs, n)
  <1> DEFINE S == {n \in Nat : n <= Len(runs) =>
                     /\ Seen(runs, n) \in Nat
                     /\ \A m \in 0 .. n : Seen(runs, m) \in Nat
                                        /\ Seen(runs, m) <= Seen(runs, n)}
  <1>1. 0 \in S
    BY SeenNext
  <1>2. ASSUME NEW n \in S PROVE n + 1 \in S
    <2>1. SUFFICES ASSUME n + 1 <= Len(runs)
                   PROVE  /\ Seen(runs, n + 1) \in Nat
                          /\ \A m \in 0 .. n + 1 : /\ Seen(runs, m) \in Nat
                                                  /\ Seen(runs, m) <= Seen(runs, n + 1)
      OBVIOUS
    <2>2. Seen(runs, n + 1) = Seen(runs, n) + runs[n + 1].count
      BY SeenNext
    <2>3. runs[n + 1].count \in Nat
      BY <2>1, RunAt
    <2>4. /\ Seen(runs, n) \in Nat
          /\ \A m \in 0 .. n : Seen(runs, m) \in Nat /\ Seen(runs, m) <= Seen(runs, n)
      BY <2>1
    <2>5. ASSUME NEW m \in 0 .. n + 1
          PROVE  Seen(runs, m) \in Nat /\ Seen(runs, m) <= Seen(runs, n + 1)
      <3>1. CASE m = n + 1
        BY <3>1, <2>2, <2>3, <2>4
      <3>2. CASE m \in 0 .. n
        <4>1. Seen(runs, m) <= Seen(runs, n) /\ Seen(runs, m) \in Nat
          BY <3>2, <2>4
        <4>2. QED
          BY <4>1, <2>2, <2>3, <2>4
      <3>3. QED
        BY <3>1, <3>2
    <2>6. QED
      BY <2>2, <2>3, <2>4, <2>5
  <1> HIDE DEF S
  <1>3. S \subseteq Nat
    BY DEF S
  <1>4. S = Nat
    BY <1>1, <1>2, <1>3, Everywhere
  <1>5. QED
    BY <1>4 DEF S

(* The offset is in the n-th run. *)
InRun(runs, n, offset) ==
  n \in 1 .. Len(runs) /\ Seen(runs, n - 1) <= offset /\ offset < Seen(runs, n)

LEMMA LineAtIs ==
  ASSUME NEW runs \in Runs, NEW n, NEW offset \in Nat, InRun(runs, n, offset)
  PROVE  LineAt(runs, offset) = runs[n].line
  <1> DEFINE past == {m \in DOMAIN runs : offset < Seen(runs, m)}
  <1>1. DOMAIN runs = 1 .. Len(runs) /\ n \in 1 .. Len(runs)
    BY DEF Runs, InRun
  <1>2. n \in past
    BY <1>1 DEF InRun
  <1>3. ASSUME NEW m \in past PROVE n <= m
    <2>1. SUFFICES ASSUME m <= n - 1 PROVE FALSE
      BY <1>1
    <2>2. Seen(runs, m) <= Seen(runs, n - 1)
      BY <2>1, <1>1, SeenGrows
    <2>3. Seen(runs, m) \in Nat /\ Seen(runs, n - 1) \in Nat
      BY <2>1, <1>1, SeenGrows
    <2>4. QED
      BY <2>2, <2>3 DEF InRun
  <1>4. (CHOOSE m \in past : \A l \in past : m <= l) = n
    BY <1>1, <1>2, <1>3
  <1>5. QED
    BY <1>2, <1>4 DEF LineAt

LEMMA IsInRun ==
  ASSUME NEW runs \in Runs, NEW offset \in Nat, offset < Total(runs)
  PROVE  \E n : InRun(runs, n, offset)
  <1> DEFINE S == {n \in Nat : n <= Len(runs) =>
                     (offset < Seen(runs, n) => \E m : InRun(runs, m, offset))}
  <1>1. 0 \in S
    BY SeenNext
  <1>2. ASSUME NEW n \in S PROVE n + 1 \in S
    <2>1. SUFFICES ASSUME n + 1 <= Len(runs), offset < Seen(runs, n + 1),
                          ~ (offset < Seen(runs, n))
                   PROVE  \E m : InRun(runs, m, offset)
      OBVIOUS
    <2>2. Seen(runs, n) \in Nat /\ (n + 1) - 1 = n /\ n + 1 \in 1 .. Len(runs)
      BY <2>1, SeenGrows DEF Runs
    <2>3. Seen(runs, (n + 1) - 1) <= offset
      BY <2>1, <2>2
    <2>4. InRun(runs, n + 1, offset)
      BY <2>1, <2>2, <2>3 DEF InRun
    <2>5. QED
      BY <2>4
  <1> HIDE DEF S
  <1>3. S \subseteq Nat
    BY DEF S
  <1>4. S = Nat
    BY <1>1, <1>2, <1>3, Everywhere
  <1>5. Len(runs) \in S
    BY <1>4 DEF Runs
  <1>6. QED
    BY <1>5 DEF S, Total, Runs

(* Where the runs of q are those of r, but for the length of the last,     *)
(* both tables give the same lines.                                        *)
LEMMA SameLine ==
  ASSUME NEW q \in Runs, NEW r \in Runs, NEW n, NEW offset \in Nat,
         InRun(r, n, offset), n <= Len(q), offset < Seen(q, n),
         \A m \in 1 .. n - 1 : q[m].count = r[m].count, q[n].line = r[n].line
  PROVE  LineAt(q, offset) = LineAt(r, offset)
  <1>1. n \in 1 .. Len(r) /\ n \in 1 .. Len(q) /\ n - 1 \in Nat
    BY DEF InRun, Runs
  <1>2. Seen(q, n - 1) = Seen(r, n - 1)
    BY <1>1, SeenLocal
  <1>3. InRun(q, n, offset)
    BY <1>1, <1>2 DEF InRun
  <1>4. QED
    BY <1>3, LineAtIs

(* All the lines of r below the offset `end` are lines of q. *)
KeepsLines(q, r, end) == \A o \in Nat : o < end => LineAt(q, o) = LineAt(r, o)

LEMMA Counted ==
  ASSUME NEW runs \in Runs, runs # <<>>
  PROVE  /\ Len(runs) \in Nat \ {0} /\ LastRun(runs).count \in Nat
         /\ Seen(runs, Len(runs) - 1) \in Nat
         /\ Total(runs) = Seen(runs, Len(runs) - 1) + LastRun(runs).count
  <1>1. Len(runs) \in Nat \ {0}
    BY DEF Runs
  <1>2. PICK n \in Nat : n + 1 = Len(runs) /\ n = Len(runs) - 1
    BY <1>1
  <1>3. Seen(runs, n + 1) = Seen(runs, n) + runs[n + 1].count
    BY SeenNext
  <1>4. QED
    BY <1>1, <1>2, <1>3, RunAt, SeenGrows DEF Total, LastRun

LEMMA TotalTyped ==
  ASSUME NEW runs \in Runs
  PROVE  Total(runs) \in Nat
  BY SeenGrows, RunAt DEF Total

(* Of two tables that differ in the last run only, and there in the count  *)
LEMMA OnlyLastDiffers ==
  ASSUME NEW r \in Runs, NEW q \in Runs, NEW n \in Nat, Len(r) = n + 1, Len(q) = n + 1,
         \A m \in 1 .. n : q[m] = r[m], q[n + 1].line = r[n + 1].line
  PROVE  /\ Seen(q, n) = Seen(r, n)
         /\ KeepsLines(q, r, IF Total(q) <= Total(r) THEN Total(q) ELSE Total(r))
  <1>1. \A l \in 0 .. n : Seen(q, l) = Seen(r, l)
    BY SeenLocal
  <1>2. ASSUME NEW o \in Nat, o < Total(q), o < Total(r)
        PROVE  LineAt(q, o) = LineAt(r, o)
    <2>1. PICK m : InRun(r, m, o)
      BY <1>2, IsInRun
    <2>2. m \in 1 .. n + 1 /\ o < Seen(r, m)
      BY <2>1 DEF InRun
    <2>3. o < Seen(q, m)
      <3>1. CASE m = n + 1
        BY <3>1, <1>2 DEF Total
      <3>2. CASE m # n + 1
        BY <3>2, <2>2, <1>1
      <3>3. QED
        BY <3>1, <3>2
    <2>4. q[m].line = r[m].line /\ m <= Len(q)
      BY <2>2
    <2>5. \A l \in 1 .. m - 1 : q[l].count = r[l].count
      BY <2>2
    <2>6. QED
      BY <2>1, <2>3, <2>4, <2>5, SameLine
  <1>3. Total(q) \in Nat /\ Total(r) \in Nat
    BY TotalTyped
  <1>4. KeepsLines(q, r, IF Total(q) <= Total(r) THEN Total(q) ELSE Total(r))
    <2>1. CASE Total(q) <= Total(r)
      <3>1. \A o \in Nat : o < Total(q) => LineAt(q, o) = LineAt(r, o)
        BY <2>1, <1>2, <1>3
      <3>2. QED
        BY <3>1, <2>1 DEF KeepsLines
    <2>2. CASE ~(Total(q) <= Total(r))
      <3>1. \A o \in Nat : o < Total(r) => LineAt(q, o) = LineAt(r, o)
        BY <2>2, <1>2, <1>3
      <3>2. QED
        BY <3>1, <2>2 DEF KeepsLines
    <2>3. QED
      BY <2>1, <2>2
  <1>5. QED
    BY <1>1, <1>4

LEMMA Recounted ==
  ASSUME NEW r \in Runs, r # <<>>, NEW count \in Nat,
         NEW q, q = [r EXCEPT ![Len(r)].count = count]
  PROVE  /\ q \in Runs /\ Len(q) = Len(r)
         /\ Seen(q, Len(r) - 1) = Seen(r, Len(r) - 1)
         /\ Total(q) = Seen(r, Len(r) - 1) + count
         /\ LastRun(q).line = LastRun(r).line
         /\ KeepsLines(q, r, IF Total(q) <= Total(r) THEN Total(q) ELSE Total(r))
  <1>1. PICK n \in Nat : Len(r) = n + 1 /\ Len(r) - 1 = n
    <2>1. Len(r) \in Nat \ {0}
      BY Counted
    <2>2. QED
      BY <2>1
  <1>2. DOMAIN r = 1 .. n + 1 /\ q = [r EXCEPT ![n + 1] = [r[n + 1] EXCEPT !.count = count]]
    BY <1>1, RunAt
  <1>3. r[n + 1] \in [line : Nat, count : Nat]
    <2> DEFINE R == [line : Nat, count : Nat]
    <2>1. r \in Seq(R)
      BY DEF Runs
    <2> HIDE DEF R
    <2>2. r[n + 1] \in R
      BY <1>1, <2>1
    <2>3. QED
      BY <2>2 DEF R
  <1>4. [r[n + 1] EXCEPT !.count = count] \in [line : Nat, count : Nat]
    BY <1>3
  <1>5. q \in Runs /\ Len(q) = n + 1
    BY <1>1, <1>2, <1>4 DEF Runs
  <1>6. q[n + 1].line = r[n + 1].line /\ q[n + 1].count = count
    BY <1>2, <1>3
  <1>7. \A m \in 1 .. n : q[m] = r[m]
    BY <1>2
  <1>8. /\ Seen(q, n) = Seen(r, n)
        /\ KeepsLines(q, r, IF Total(q) <= Total(r) THEN Total(q) ELSE Total(r))
    BY <1>1, <1>5, <1>6, <1>7, OnlyLastDiffers
  <1>9. Total(q) = Seen(q, n) + q[n + 1].count
    BY <1>5, SeenNext DEF Total
  <1>10. QED
    BY <1>1, <1>5, <1>6, <1>8, <1>9 DEF LastRun

(* A table and the one that begins with it *)
LEMMA Longer ==
  ASSUME NEW r \in Runs, NEW q \in Runs, Len(r) <= Len(q),
         \A m \in 1 .. Len(r) : q[m] = r[m]
  PROVE  KeepsLines(q, r, Total(r)) /\ Seen(q, Len(r)) = Total(r)
  <1>1. Seen(q, Len(r)) = Total(r)
    BY SeenLocal, RunAt DEF Total
  <1>2. ASSUME NEW o \in Nat, o < Total(r)
        PROVE  LineAt(q, o) = LineAt(r, o)
    <2>1. PICK m : InRun(r, m, o)
      BY <1>2, IsInRun
    <2>2. m \in 1 .. Len(r) /\ o < Seen(r, m) /\ Len(r) \in Nat /\ Len(q) \in Nat
      BY <2>1, RunAt DEF InRun
    <2>3. Seen(q, m) = Seen(r, m)
      BY <2>2, SeenLocal
    <2>4. m <= Len(q) /\ \A l \in 1 .. m - 1 : q[l].count = r[l].count
      BY <2>2
    <2>5. QED
      BY <2>1, <2>2, <2>3, <2>4, SameLine
  <1>3. QED
    BY <1>1, <1>2 DEF KeepsLines

(* What Chunk::write adds to the table *)
LEMMA WrittenLines ==
  ASSUME NEW runs \in Runs, NEW count \in Nat \ {0}, NEW l \in Nat
  PROVE  /\ Written(runs, count, l) \in Runs
         /\ Total(Written(runs, count, l)) = Total(runs) + count
         /\ KeepsLines(Written(runs, count, l), runs, Total(runs))
         /\ \A o \in Nat : Total(runs) <= o /\ o < Total(runs) + count =>
              LineAt(Written(runs, count, l), o) = l
  <1> DEFINE w == Written(runs, count, l)
  <1>1. Total(runs) \in Nat
    BY TotalTyped
  <1>2. CASE runs # <<>> /\ LastRun(runs).line = l
    <2>1. Len(runs) \in Nat \ {0} /\ LastRun(runs).count \in Nat /\ Seen(runs, Len(runs) - 1) \in Nat
          /\ Total(runs) = Seen(runs, Len(runs) - 1) + LastRun(runs).count
      BY <1>2, Counted
    <2>2. PICK c \in Nat : c = LastRun(runs).count + count
      BY <2>1
    <2>3. w = [runs EXCEPT ![Len(runs)].count = c]
      BY <1>2, <2>2 DEF Written, LastRun
    <2>4. /\ w \in Runs
          /\ Total(w) = Seen(runs, Len(runs) - 1) + c
          /\ LastRun(w).line = LastRun(runs).line
          /\ KeepsLines(w, runs, IF Total(w) <= Total(runs) THEN Total(w) ELSE Total(runs))
      BY <1>2, <2>3, Recounted
    <2>5. Total(w) = Total(runs) + count /\ ~(Total(w) <= Total(runs))
      BY <2>1, <2>2, <2>4
    <2>6. Len(w) = Len(runs) /\ Seen(w, Len(runs) - 1) = Seen(runs, Len(runs) - 1)
      BY <1>2, <2>3, Recounted
    <2>7. ASSUME NEW o \in Nat, Total(runs) <= o, o < Total(runs) + count
          PROVE  LineAt(w, o) = l
      <3>2. Seen(w, Len(w) - 1) <= o
        BY <2>4, <2>6, <2>7, <2>1
      <3>3. o < Seen(w, Len(w))
        BY <2>5, <2>7 DEF Total
      <3>4. InRun(w, Len(w), o)
        BY <3>2, <3>3, <2>1, <2>6 DEF InRun
      <3>5. QED
        BY <3>4, <2>4, <1>2, LineAtIs DEF LastRun
    <2>8. QED
      BY <2>4, <2>5, <2>7
  <1>3. CASE ~(runs # <<>> /\ LastRun(runs).line = l)
    <2>1. w = Append(runs, [line |-> l, count |-> count])
      BY <1>3 DEF Written
    <2>2. [line |-> l, count |-> count] \in [line : Nat, count : Nat]
      OBVIOUS
    <2>3. w \in Runs /\ Len(w) = Len(runs) + 1 /\ w # <<>>
      BY <2>1, <2>2 DEF Runs
    <2>4. Len(runs) \in Nat
      BY RunAt
    <2>5. \A m \in 1 .. Len(runs) : w[m] = runs[m]
      BY <2>1, <2>4 DEF Runs
    <2>6. KeepsLines(w, runs, Total(runs)) /\ Seen(w, Len(runs)) = Total(runs)
      BY <2>3, <2>4, <2>5, Longer
    <2>7. LastRun(w) = [line |-> l, count |-> count]
      BY <2>1, <2>3 DEF LastRun, Runs
    <2>8. Total(w) = Total(runs) + count
      BY <2>3, <2>4, <2>6, <2>7, Counted
    <2>9. ASSUME NEW o \in Nat, Total(runs) <= o, o < Total(runs) + count
          PROVE  LineAt(w, o) = l
      <3>1. InRun(w, Len(w), o)
        BY <2>3, <2>4, <2>6, <2>8, <2>9 DEF InRun, Total
      <3>2. QED
        BY <3>1, <2>3, <2>7, LineAtIs DEF LastRun
    <2>10. QED
      BY <2>3, <2>6, <2>8, <2>9
  <1>4. QED
    BY <1>2, <1>3
-----------------------------------------------------------------------------
(* The rounds of Chunk::rewind: s is what is left to do of taking back d   *)
(* bytes from the table r, in the n-th round.                              *)
Rewinding(r, d, n, s) ==
  /\ s.runs \in Runs /\ s.toRemove \in Nat
  /\ s.toRemove <= Total(s.runs)
  /\ Total(s.runs) - s.toRemove = Total(r) - d
  /\ KeepsLines(s.runs, r, Total(r) - d)
  /\ s.toRemove = 0 \/ Len(s.runs) <= Len(r) - n

LEMMA DroppedRun ==
  ASSUME NEW runs \in Runs, runs # <<>>
  PROVE  /\ DropRun(runs) \in Runs /\ Len(DropRun(runs)) = Len(runs) - 1
         /\ Total(runs) = Total(DropRun(runs)) + LastRun(runs).count
         /\ KeepsLines(DropRun(runs), runs, Total(DropRun(runs)))
  <1> DEFINE w == DropRun(runs)
  <1>1. Len(runs) \in Nat \ {0}
    BY Counted
  <1>2. w \in Runs /\ Len(w) = Len(runs) - 1 /\ \A m \in 1 .. Len(w) : runs[m] = w[m]
    <2> DEFINE R == [line : Nat, count : Nat]
    <2>1. runs \in Seq(R) /\ w = SubSeq(runs, 1, Len(runs) - 1)
      BY DEF Runs, DropRun
    <2> HIDE DEF R, w
    <2>2. PICK n \in Nat : Len(runs) = n + 1 /\ n = Len(runs) - 1
      BY <1>1
    <2>3. w = SubSeq(runs, 1, n)
      BY <2>1, <2>2
    <2>4. Len(w) = n /\ \A m \in 1 .. n : w[m] = runs[m]
      BY <2>1, <2>2, <2>3
    <2>5. w \in Seq(R)
      BY <2>1, <2>2, <2>3
    <2>6. QED
      BY <2>2, <2>4, <2>5 DEF R, Runs
  <1> HIDE DEF w
  <1>3. KeepsLines(runs, w, Total(w)) /\ Seen(runs, Len(w)) = Total(w)
    BY <1>1, <1>2, Longer
  <1>4. Total(runs) = Total(w) + LastRun(runs).count
    BY <1>2, <1>3, Counted
  <1>5. KeepsLines(w, runs, Total(w))
    BY <1>3 DEF KeepsLines
  <1>6. QED
    BY <1>2, <1>4, <1>5 DEF w

LEMMA OneRound ==
  ASSUME NEW r \in Runs, NEW d \in Nat, d <= Total(r), NEW n \in Nat, NEW s,
         Rewinding(r, d, n, s)
  PROVE  Rewinding(r, d, n + 1, Unwritten(s))
  <1> DEFINE q == s.runs
             t == s.toRemove
             left == Total(r) - d
  <1>1. /\ q \in Runs /\ t \in Nat /\ t <= Total(q) /\ Total(q) - t = left
        /\ KeepsLines(q, r, left) /\ Total(q) \in Nat /\ left \in Nat
        /\ t = 0 \/ Len(q) <= Len(r) - n
    BY TotalTyped DEF Rewinding
  <1>2. t \in Nat /\ Total(q) \in Nat /\ left \in Nat /\ Total(q) - t = left
    BY <1>1
  <1> HIDE DEF left
  <1>3. CASE t = 0 \/ q = <<>>
    <2>1. t = 0
      <3>1. CASE q = <<>>
        <4>1. Total(q) = 0
          BY <3>1, SeenNext DEF Total
        <4>2. QED
          BY <4>1, <1>1
      <3>2. QED
        BY <3>1, <1>3
    <2>2. Unwritten(s) = s
      BY <1>3 DEF Unwritten
    <2>3. QED
      BY <2>1, <2>2 DEF Rewinding
  <1>4. CASE t # 0 /\ q # <<>> /\ LastRun(q).count > t
    <2>1. /\ Len(q) \in Nat \ {0} /\ LastRun(q).count \in Nat
          /\ Seen(q, Len(q) - 1) \in Nat
          /\ Total(q) = Seen(q, Len(q) - 1) + LastRun(q).count
      BY <1>1, <1>4, Counted
    <2>2. PICK c \in Nat : c = LastRun(q).count - t
      BY <1>1, <1>4, <2>1
    <2>3. PICK w : w = [q EXCEPT ![Len(q)].count = c]
      OBVIOUS
    <2>4. Unwritten(s) = [runs |-> w, toRemove |-> 0]
      BY <1>4, <2>2, <2>3 DEF Unwritten, LastRun
    <2>5. /\ w \in Runs /\ Total(w) = Seen(q, Len(q) - 1) + c
          /\ KeepsLines(w, q, IF Total(w) <= Total(q) THEN Total(w) ELSE Total(q))
      BY <1>1, <1>4, <2>3, Recounted
    <2>6. Total(w) = left
      <3>1. Total(w) = Seen(q, Len(q) - 1) + c
        BY <2>5
      <3>2. PICK k \in Nat, seen \in Nat : k = LastRun(q).count /\ seen = Seen(q, Len(q) - 1)
        BY <2>1
      <3>3. Total(q) = seen + k /\ c = k - t /\ Total(w) = seen + c
        BY <2>1, <2>2, <3>1, <3>2
      <3>4. QED
        BY <1>2, <3>3
    <2>7. KeepsLines(w, r, left)
      BY <1>1, <2>5, <2>6 DEF KeepsLines
    <2>8. PICK z : z = Unwritten(s)
      OBVIOUS
    <2>9. z.runs = w /\ z.toRemove = 0
      BY <2>4, <2>8
    <2>10. 0 <= Total(w) /\ Total(w) - 0 = left
      BY <1>1, <2>6
    <2>11. Rewinding(r, d, n + 1, z)
      BY <2>5, <2>7, <2>9, <2>10 DEF Rewinding, left
    <2>12. QED
      BY <2>8, <2>11
  <1>5. CASE t # 0 /\ q # <<>> /\ ~(LastRun(q).count > t)
    <2>1. LastRun(q).count \in Nat /\ Len(q) \in Nat /\ Len(r) \in Nat
      BY <1>1, <1>5, Counted, RunAt
    <2>2. PICK w : w = DropRun(q)
      OBVIOUS
    <2>3. Unwritten(s) = [runs |-> w, toRemove |-> t - LastRun(q).count]
      BY <1>5, <2>2 DEF Unwritten
    <2>4. /\ w \in Runs /\ Len(w) = Len(q) - 1
          /\ Total(q) = Total(w) + LastRun(q).count
          /\ KeepsLines(w, q, Total(w)) /\ Total(w) \in Nat
      BY <1>1, <1>5, <2>2, DroppedRun, TotalTyped
    <2>5. left <= Total(w) /\ t - LastRun(q).count \in Nat
      <3>1. Total(q) = Total(w) + LastRun(q).count /\ Total(w) \in Nat
        BY <2>4
      <3>2. ~(LastRun(q).count > t)
        BY <1>5
      <3>3. PICK k \in Nat : k = LastRun(q).count
        BY <2>1
      <3>4. Total(q) = Total(w) + k /\ ~(k > t)
        BY <3>1, <3>2, <3>3
      <3>5. left <= Total(w) /\ t - k \in Nat
        BY <1>2, <3>1, <3>4
      <3>6. QED
        BY <3>3, <3>5
    <2>6. KeepsLines(w, r, left)
      BY <1>1, <2>4, <2>5 DEF KeepsLines
    <2>7. Len(w) <= Len(r) - (n + 1)
      BY <1>1, <1>5, <2>1, <2>4
    <2>8. PICK z : z = Unwritten(s)
      OBVIOUS
    <2>9. z.runs = w /\ z.toRemove = t - LastRun(q).count
      BY <2>3, <2>8
    <2>10. z.toRemove <= Total(w) /\ Total(w) - z.toRemove = left
      <3>1. Total(q) = Total(w) + LastRun(q).count /\ Total(w) \in Nat
        BY <2>4
      <3>2. QED
        BY <1>2, <2>1, <2>9, <3>1
    <2>11. Rewinding(r, d, n + 1, z)
      BY <2>4, <2>5, <2>6, <2>7, <2>9, <2>10 DEF Rewinding, left
    <2>12. QED
      BY <2>8, <2>11
  <1>6. QED
    BY <1>3, <1>4, <1>5

Rounds(r, d, n, g) ==
  g = [m \in 0 .. n |-> IF m = 0 THEN [runs |-> r, toRemove |-> d] ELSE Unwritten(g[m - 1])]

LEMMA RoundsExist ==
  ASSUME NEW r, NEW d, NEW n \in Nat
  PROVE  \E g : Rounds(r, d, n, g)
  <1> DEFINE S == {m \in Nat : \E g : Rounds(r, d, m, g)}
  <1>1. Rounds(r, d, 0, [m \in 0 .. 0 |-> [runs |-> r, toRemove |-> d]])
    BY DEF Rounds
  <1>2. ASSUME NEW m \in Nat, NEW g, Rounds(r, d, m, g)
        PROVE  \E h : Rounds(r, d, m + 1, h)
    <2> DEFINE h == [l \in 0 .. m + 1 |-> IF l <= m THEN g[l] ELSE Unwritten(g[m])]
    <2>1. \A l \in 0 .. m :
            g[l] = IF l = 0 THEN [runs |-> r, toRemove |-> d] ELSE Unwritten(g[l - 1])
      BY <1>2 DEF Rounds
    <2>2. \A l \in 0 .. m + 1 :
            h[l] = IF l = 0 THEN [runs |-> r, toRemove |-> d] ELSE Unwritten(h[l - 1])
      BY <2>1
    <2>3. Rounds(r, d, m + 1, h)
      BY <2>2 DEF Rounds
    <2>4. QED
      BY <2>3
  <1>3. 0 \in S /\ \A m \in S : m + 1 \in S
    BY <1>1, <1>2
  <1> HIDE DEF S
  <1>4. S \subseteq Nat
    BY DEF S
  <1>5. S = Nat
    BY <1>3, <1>4, Everywhere
  <1>6. QED
    BY <1>5 DEF S

(* What Chunk::rewind leaves of the table *)
LEMMA RewoundLines ==
  ASSUME NEW r \in Runs, NEW d \in Nat, d <= Total(r)
  PROVE  /\ Rewound(r, d) \in Runs
         /\ Total(Rewound(r, d)) = Total(r) - d
         /\ KeepsLines(Rewound(r, d), r, Total(r) - d)
  <1>1. Len(r) \in Nat /\ Total(r) \in Nat
    BY RunAt, TotalTyped
  <1>2. PICK g : Rounds(r, d, Len(r), g) /\ Rewound(r, d) = g[Len(r)].runs
    <2>1. Rounds(r, d, Len(r), CHOOSE g : Rounds(r, d, Len(r), g))
      BY <1>1, RoundsExist
    <2>2. Rewound(r, d) = (CHOOSE g : Rounds(r, d, Len(r), g))[Len(r)].runs
      BY DEF Rewound, Rounds
    <2>3. QED
      BY <2>1, <2>2
  <1>3. \A m \in 0 .. Len(r) :
          g[m] = IF m = 0 THEN [runs |-> r, toRemove |-> d] ELSE Unwritten(g[m - 1])
    BY <1>2 DEF Rounds
  <1> DEFINE S == {n \in Nat : n <= Len(r) => Rewinding(r, d, n, g[n])}
  <1>4. 0 \in S
    <2>1. g[0] = [runs |-> r, toRemove |-> d]
      BY <1>1, <1>3
    <2>2. Rewinding(r, d, 0, g[0])
      BY <1>1, <2>1 DEF Rewinding, KeepsLines
    <2>3. QED
      BY <2>2
  <1>5. ASSUME NEW n \in S PROVE n + 1 \in S
    <2>1. SUFFICES ASSUME n + 1 <= Len(r) PROVE Rewinding(r, d, n + 1, g[n + 1])
      OBVIOUS
    <2>2. g[n + 1] = Unwritten(g[n])
      BY <1>3, <2>1, n + 1 \in 0 .. Len(r), n + 1 # 0, (n + 1) - 1 = n
    <2>3. Rewinding(r, d, n, g[n]) /\ n \in Nat
      BY <2>1
    <2>4. QED
      BY <2>2, <2>3, OneRound
  <1> HIDE DEF S
  <1>6. S \subseteq Nat
    BY DEF S
  <1>7. S = Nat
    BY <1>4, <1>5, <1>6, Everywhere
  <1>8. Rewinding(r, d, Len(r), g[Len(r)])
    BY <1>1, <1>7 DEF S
  <1> DEFINE w == g[Len(r)]
  <1>9. /\ w.runs \in Runs /\ w.toRemove \in Nat /\ w.toRemove <= Total(w.runs)
        /\ Total(w.runs) - w.toRemove = Total(r) - d
        /\ KeepsLines(w.runs, r, Total(r) - d)
        /\ w.toRemove = 0 \/ Len(w.runs) <= 0
    BY <1>1, <1>8 DEF Rewinding
  <1>10. w.toRemove = 0
    <2>1. CASE Len(w.runs) <= 0
      <3>1. Len(w.runs) = 0
        BY <2>1, <1>9, RunAt
      <3>2. Total(w.runs) = 0
        BY <3>1, SeenNext DEF Total
      <3>3. QED
        BY <1>9, <3>2
    <2>2. QED
      BY <2>1, <1>9
  <1>11. QED
    BY <1>1, <1>2, <1>9, <1>10, TotalTyped
-----------------------------------------------------------------------------
(* Offset counts the bytes before an instruction. *)
OffsetsUpTo(c, n, g) ==
  g = [j \in 1 .. n |-> IF j = 1 THEN 0 ELSE g[j - 1] + Width(c[j - 1].op)]

LEMMA OffsetsExist ==
  ASSUME NEW c, NEW n \in Nat
  PROVE  \E g : OffsetsUpTo(c, n, g)
  <1> DEFINE S == {m \in Nat : \E g : OffsetsUpTo(c, m, g)}
  <1>1. OffsetsUpTo(c, 0, [j \in 1 .. 0 |-> 0])
    BY DEF OffsetsUpTo
  <1>2. ASSUME NEW m \in Nat, NEW g, OffsetsUpTo(c, m, g)
        PROVE  \E h : OffsetsUpTo(c, m + 1, h)
    <2> DEFINE h == [j \in 1 .. m + 1 |->
                       IF j <= m THEN g[j]
                       ELSE IF m = 0 THEN 0 ELSE g[m] + Width(c[m].op)]
    <2>1. \A j \in 1 .. m : g[j] = IF j = 1 THEN 0 ELSE g[j - 1] + Width(c[j - 1].op)
      BY <1>2 DEF OffsetsUpTo
    <2>2. \A j \in 1 .. m + 1 : h[j] = IF j = 1 THEN 0 ELSE h[j - 1] + Width(c[j - 1].op)
      BY <2>1
    <2>3. OffsetsUpTo(c, m + 1, h)
      BY <2>2 DEF OffsetsUpTo
    <2>4. QED
      BY <2>3
  <1>3. 0 \in S /\ \A m \in S : m + 1 \in S
    BY <1>1, <1>2
  <1> HIDE DEF S
  <1>4. S \subseteq Nat
    BY DEF S
  <1>5. S = Nat
    BY <1>3, <1>4, Everywhere
  <1>6. QED
    BY <1>5 DEF S

LEMMA OffsetsUnique ==
  ASSUME NEW c, NEW n \in Nat, NEW g, NEW h, OffsetsUpTo(c, n, g), OffsetsUpTo(c, n, h)
  PROVE  g = h
  <1> DEFINE S == {m \in Nat : m \in 1 .. n => g[m] = h[m]}
  <1>1. \A j \in 1 .. n : /\ g[j] = IF j = 1 THEN 0 ELSE g[j - 1] + Width(c[j - 1].op)
                          /\ h[j] = IF j = 1 THEN 0 ELSE h[j - 1] + Width(c[j - 1].op)
    BY DEF OffsetsUpTo
  <1>2. 0 \in S /\ \A m \in S : m + 1 \in S
    BY <1>1
  <1> HIDE DEF S
  <1>3. S \subseteq Nat
    BY DEF S
  <1>4. S = Nat
    BY <1>2, <1>3, Everywhere
  <1>5. \A m \in 1 .. n : g[m] = h[m]
    BY <1>4 DEF S
  <1>6. g = [m \in 1 .. n |-> g[m]] /\ h = [m \in 1 .. n |-> h[m]]
    BY DEF OffsetsUpTo
  <1>7. [m \in 1 .. n |-> g[m]] = [m \in 1 .. n |-> h[m]]
    BY <1>5
  <1>8. QED
    BY <1>6, <1>7, Zenon

LEMMA OffsetIs ==
  ASSUME NEW c, NEW n \in Nat, NEW g, OffsetsUpTo(c, n, g)
  PROVE  Offset(c, n) = g[n]
  <1>1. OffsetsUpTo(c, n, CHOOSE f : OffsetsUpTo(c, n, f))
    OBVIOUS
  <1>2. (CHOOSE f : OffsetsUpTo(c, n, f)) = g
    BY <1>1, OffsetsUnique
  <1>3. Offset(c, n) = (CHOOSE f : OffsetsUpTo(c, n, f))[n]
    BY DEF Offset, OffsetsUpTo
  <1>4. QED
    BY <1>2, <1>3

LEMMA OffsetNext ==
  ASSUME NEW c
  PROVE  /\ Offset(c, 1) = 0
         /\ \A n \in Nat \ {0} : Offset(c, n + 1) = Offset(c, n) + Width(c[n].op)
  <1>1. Offset(c, 1) = 0
    <2>1. OffsetsUpTo(c, 1, [j \in 1 .. 1 |-> 0])
      BY DEF OffsetsUpTo
    <2>2. QED
      BY <2>1, OffsetIs
  <1>2. ASSUME NEW n \in Nat \ {0}
        PROVE  Offset(c, n + 1) = Offset(c, n) + Width(c[n].op)
    <2>1. PICK g : OffsetsUpTo(c, n + 1, g)
      BY OffsetsExist
    <2> DEFINE h == [m \in 1 .. n |-> g[m]]
    <2>2. \A j \in 1 .. n + 1 : g[j] = IF j = 1 THEN 0 ELSE g[j - 1] + Width(c[j - 1].op)
      BY <2>1 DEF OffsetsUpTo
    <2>3. OffsetsUpTo(c, n, h)
      BY <2>2 DEF OffsetsUpTo
    <2>4. Offset(c, n) = h[n] /\ Offset(c, n + 1) = g[n + 1]
      BY <2>1, <2>3, OffsetIs
    <2>5. QED
      BY <2>2, <2>4
  <1>3. QED
    BY <1>1, <1>2

LEMMA WidthTyped == ASSUME NEW op PROVE Width(op) \in Nat \ {0}
  BY DEF Width

LEMMA OffsetLocal ==
  ASSUME NEW c, NEW d, NEW n \in Nat, \A m \in 1 .. n : c[m].op = d[m].op
  PROVE  \A m \in 1 .. n + 1 : Offset(c, m) = Offset(d, m)
  <1> DEFINE S == {m \in Nat : m \in 1 .. n + 1 => Offset(c, m) = Offset(d, m)}
  <1>1. 0 \in S
    OBVIOUS
  <1>2. ASSUME NEW m \in S PROVE m + 1 \in S
    <2>1. CASE m = 0
      BY <2>1, OffsetNext
    <2>2. CASE m # 0
      BY <2>2, OffsetNext
    <2>3. QED
      BY <2>1, <2>2
  <1> HIDE DEF S
  <1>3. S \subseteq Nat
    BY DEF S
  <1>4. S = Nat
    BY <1>1, <1>2, <1>3, Everywhere
  <1>5. QED
    BY <1>4 DEF S

LEMMA OffsetGrows ==
  ASSUME NEW c
  PROVE  \A n \in Nat \ {0} : /\ Offset(c, n) \in Nat
                              /\ \A m \in 1 .. n : Offset(c, m) <= Offset(c, n)
  <1> DEFINE S == {n \in Nat : n # 0 =>
                     /\ Offset(c, n) \in Nat
                     /\ \A m \in 1 .. n : Offset(c, m) \in Nat /\ Offset(c, m) <= Offset(c, n)}
  <1>1. 0 \in S
    OBVIOUS
  <1>2. ASSUME NEW n \in S PROVE n + 1 \in S
    <2>1. CASE n = 0
      BY <2>1, OffsetNext
    <2>2. CASE n # 0
      <3>1. Offset(c, n + 1) = Offset(c, n) + Width(c[n].op) /\ Width(c[n].op) \in Nat
        BY <2>2, OffsetNext, WidthTyped
      <3>2. QED
        BY <2>2, <3>1
    <2>3. QED
      BY <2>1, <2>2
  <1> HIDE DEF S
  <1>3. S \subseteq Nat
    BY DEF S
  <1>4. S = Nat
    BY <1>1, <1>2, <1>3, Everywhere
  <1>5. QED
    BY <1>4 DEF S
-----------------------------------------------------------------------------
(* The table gives each byte of the code c the line of its instruction. *)
LinesOf(c, runs, of) ==
  /\ runs \in Runs
  /\ Total(runs) = Offset(c, Len(c) + 1)
  /\ \A i \in 1 .. Len(c) : \A byte \in Offset(c, i) .. Offset(c, i + 1) - 1 :
       LineAt(runs, byte) = of[i]

(* The first n instructions of two codes, with the lines they are from *)
BeginAlike(c, of, d, by, n) == \A i \in 1 .. n : d[i].op = c[i].op /\ by[i] = of[i]

LinesUpTo(n, d, new, by) ==
  \A i \in 1 .. n : \A byte \in Offset(d, i) .. Offset(d, i + 1) - 1 : LineAt(new, byte) = by[i]

LEMMA LinesKept ==
  ASSUME NEW c, NEW d, NEW runs, NEW new \in Runs, NEW of, NEW by, NEW n \in Nat, n <= Len(c),
         NEW m, m = n + 1, Len(c) \in Nat, LinesOf(c, runs, of),
         KeepsLines(new, runs, Offset(c, m)), BeginAlike(c, of, d, by, n)
  PROVE  Offset(d, m) = Offset(c, m) /\ LinesUpTo(n, d, new, by)
  <1>1. \A i \in 1 .. m : Offset(d, i) = Offset(c, i)
    <2>1. \A i \in 1 .. n : d[i].op = c[i].op
      BY DEF BeginAlike
    <2>2. QED
      BY <2>1, OffsetLocal
  <1>2. ASSUME NEW i \in 1 .. n, NEW byte \in Offset(d, i) .. Offset(d, i + 1) - 1
        PROVE  LineAt(new, byte) = by[i]
    <2>1. Offset(d, i) = Offset(c, i) /\ Offset(d, i + 1) = Offset(c, i + 1)
      BY <1>1
    <2>2. Offset(c, i) \in Nat /\ Offset(c, m) \in Nat /\ Offset(c, i + 1) \in Nat
          /\ Offset(c, i + 1) <= Offset(c, m)
      BY OffsetGrows
    <2>3. byte \in Nat /\ byte < Offset(c, m) /\ byte \in Offset(c, i) .. Offset(c, i + 1) - 1
      BY <1>2, <2>1, <2>2
    <2>4. LineAt(new, byte) = LineAt(runs, byte)
      BY <2>3 DEF KeepsLines
    <2>5. i \in 1 .. Len(c) /\ of[i] = by[i]
      BY <1>2 DEF BeginAlike
    <2>6. LineAt(runs, byte) = of[i]
      BY <2>3, <2>5 DEF LinesOf
    <2>7. QED
      BY <2>4, <2>5, <2>6
  <1>3. QED
    BY <1>1, <1>2 DEF LinesUpTo

(* emitByte for the bytes of an instruction *)
LEMMA LinesAppended ==
  ASSUME NEW S, NEW c \in Seq(S), NEW T, NEW of \in Seq(T), Len(of) = Len(c),
         NEW runs, LinesOf(c, runs, of), NEW x, NEW l \in Nat
  PROVE  LinesOf(Append(c, x), Written(runs, Width(x.op), l), Append(of, l))
  <1>1. PICK n \in Nat : n = Len(c)
    OBVIOUS
  <1>2. PICK d : d = Append(c, x)
    OBVIOUS
  <1>3. PICK by : by = Append(of, l)
    OBVIOUS
  <1>4. PICK new : new = Written(runs, Width(x.op), l)
    OBVIOUS
  <1>5. Len(d) = n + 1 /\ d[n + 1] = x /\ \A i \in 1 .. n : d[i] = c[i]
    BY <1>1, <1>2
  <1>6. by[n + 1] = l /\ \A i \in 1 .. n : by[i] = of[i]
    BY <1>1, <1>3
  <1>7. Width(x.op) \in Nat \ {0} /\ runs \in Runs /\ Total(runs) = Offset(c, n + 1)
    BY <1>1, WidthTyped DEF LinesOf
  <1>8. /\ new \in Runs /\ Total(new) = Total(runs) + Width(x.op)
        /\ KeepsLines(new, runs, Total(runs))
        /\ \A o \in Nat : Total(runs) <= o /\ o < Total(runs) + Width(x.op) => LineAt(new, o) = l
    BY <1>4, <1>7, WrittenLines
  <1>9. /\ Offset(d, n + 1) = Offset(c, n + 1)
        /\ \A i \in 1 .. n : \A byte \in Offset(d, i) .. Offset(d, i + 1) - 1 :
             LineAt(new, byte) = by[i]
    <2>1. KeepsLines(new, runs, Offset(c, n + 1))
      BY <1>7, <1>8
    <2>2. PICK m : m = n + 1
      OBVIOUS
    <2>3. BeginAlike(c, of, d, by, n)
      BY <1>5, <1>6 DEF BeginAlike
    <2>4. KeepsLines(new, runs, Offset(c, m))
      BY <2>1, <2>2
    <2>5. Offset(d, m) = Offset(c, m) /\ LinesUpTo(n, d, new, by)
      <3>1. n <= Len(c) /\ Len(c) \in Nat /\ new \in Runs
        BY <1>1, <1>8
      <3>2. QED
        BY <3>1, <2>2, <2>3, <2>4, LinesKept
    <2>6. QED
      BY <2>2, <2>5 DEF LinesUpTo
  <1>10. Offset(d, (n + 1) + 1) = Offset(d, n + 1) + Width(x.op)
    <2>1. PICK m \in Nat \ {0} : m = n + 1
      OBVIOUS
    <2>2. Offset(d, m + 1) = Offset(d, m) + Width(d[m].op)
      BY OffsetNext
    <2>3. QED
      BY <2>1, <2>2, <1>5
  <1>11. \A byte \in Offset(d, n + 1) .. Offset(d, (n + 1) + 1) - 1 : LineAt(new, byte) = by[n + 1]
    <2>1. Offset(c, n + 1) \in Nat
      BY OffsetGrows
    <2>2. QED
      BY <2>1, <1>6, <1>7, <1>8, <1>9, <1>10
  <1>12. \A i \in 1 .. n + 1 : \A byte \in Offset(d, i) .. Offset(d, i + 1) - 1 :
           LineAt(new, byte) = by[i]
    <2>1. \A i \in 1 .. n + 1 : i \in 1 .. n \/ i = n + 1
      OBVIOUS
    <2>2. QED
      BY <2>1, <1>9, <1>11
  <1>13. LinesOf(d, new, by)
    BY <1>5, <1>7, <1>8, <1>9, <1>10, <1>12 DEF LinesOf
  <1>14. QED
    BY <1>2, <1>3, <1>4, <1>13

(* Chunk::rewind to the n-th instruction *)
LEMMA LinesRewound ==
  ASSUME NEW S, NEW c \in Seq(S), NEW T, NEW of \in Seq(T), Len(of) = Len(c),
         NEW runs, LinesOf(c, runs, of), NEW n \in 0 .. Len(c)
  PROVE  LinesOf(SubSeq(c, 1, n), Rewound(runs, Offset(c, Len(c) + 1) - Offset(c, n + 1)),
                 SubSeq(of, 1, n))
  <1>1. PICK m \in Nat : m = Len(c) /\ n \in Nat /\ n <= m
    OBVIOUS
  <1>2. PICK d : d = SubSeq(c, 1, n)
    OBVIOUS
  <1>3. PICK by : by = SubSeq(of, 1, n)
    OBVIOUS
  <1>4. PICK dropped : dropped = Offset(c, Len(c) + 1) - Offset(c, n + 1)
    OBVIOUS
  <1>5. PICK new : new = Rewound(runs, dropped)
    OBVIOUS
  <1>6. Len(d) = n /\ \A i \in 1 .. n : d[i] = c[i]
    BY <1>1, <1>2
  <1>7. \A i \in 1 .. n : by[i] = of[i]
    BY <1>1, <1>3
  <1>8. /\ Offset(c, m + 1) \in Nat /\ Offset(c, n + 1) \in Nat
        /\ Offset(c, n + 1) <= Offset(c, m + 1)
    BY <1>1, OffsetGrows
  <1>9. runs \in Runs /\ Total(runs) = Offset(c, m + 1)
    BY <1>1 DEF LinesOf
  <1>10. dropped \in Nat /\ dropped <= Total(runs) /\ Total(runs) - dropped = Offset(c, n + 1)
    BY <1>1, <1>4, <1>8, <1>9
  <1>11. /\ new \in Runs /\ Total(new) = Offset(c, n + 1)
         /\ KeepsLines(new, runs, Offset(c, n + 1))
    BY <1>5, <1>9, <1>10, RewoundLines
  <1>12. /\ Offset(d, n + 1) = Offset(c, n + 1)
         /\ \A i \in 1 .. n : \A byte \in Offset(d, i) .. Offset(d, i + 1) - 1 :
              LineAt(new, byte) = by[i]
    <2>1. PICK l : l = n + 1
      OBVIOUS
    <2>2. BeginAlike(c, of, d, by, n)
      BY <1>6, <1>7 DEF BeginAlike
    <2>3. KeepsLines(new, runs, Offset(c, l))
      BY <1>11, <2>1
    <2>4. Offset(d, l) = Offset(c, l) /\ LinesUpTo(n, d, new, by)
      <3>1. n <= Len(c) /\ Len(c) \in Nat /\ new \in Runs /\ n \in Nat
        BY <1>1, <1>11
      <3>2. QED
        BY <3>1, <2>1, <2>2, <2>3, LinesKept
    <2>5. QED
      BY <2>1, <2>4 DEF LinesUpTo
  <1>13. LinesOf(d, new, by)
    BY <1>6, <1>11, <1>12 DEF LinesOf
  <1>14. QED
    BY <1>2, <1>3, <1>4, <1>5, <1>13

(* A jump that is patched has the bytes it had. *)
LEMMA LinesPatched ==
  ASSUME NEW c, NEW d, Len(c) \in Nat, Len(d) = Len(c),
         \A i \in 1 .. Len(c) : d[i].op = c[i].op,
         NEW runs, NEW of, LinesOf(c, runs, of)
  PROVE  LinesOf(d, runs, of)
  <1>1. PICK n \in Nat : n = Len(c)
    OBVIOUS
  <1>2. \A i \in 1 .. n + 1 : Offset(d, i) = Offset(c, i)
    BY <1>1, OffsetLocal
  <1>3. QED
    BY <1>1, <1>2 DEF LinesOf
-----------------------------------------------------------------------------
(* What is known of a stack of terms: that it is a sequence. *)
IsStack(s) == \E S : s \in Seq(S)

LEMMA Appended ==
  ASSUME NEW s, IsStack(s), NEW x
  PROVE  /\ IsStack(Append(s, x)) /\ Len(s) \in Nat
         /\ Len(Append(s, x)) = Len(s) + 1
         /\ LastOf(Append(s, x)) = x
         /\ Len(s) # 0 => Append(s, x)[Len(s)] = LastOf(s)
         /\ Dropping(Append(s, x), 1) = s
  <1>1. PICK S : s \in Seq(S)
    BY DEF IsStack
  <1>2. PICK n \in Nat : n = Len(s)
    BY <1>1
  <1>3. s \in Seq(S \cup {x})
    BY <1>1
  <1>4. Append(s, x) \in Seq(S \cup {x}) /\ Len(Append(s, x)) = n + 1
    BY <1>2, <1>3
  <1>5. Append(s, x)[n + 1] = x /\ \A i \in 1 .. n : Append(s, x)[i] = s[i]
    BY <1>2, <1>3
  <1>6. n # 0 => Append(s, x)[n] = s[n]
    <2>1. n # 0 => n \in 1 .. n
      BY <1>2
    <2>2. QED
      BY <1>5, <2>1
  <1>7. SubSeq(Append(s, x), 1, n) = s
    BY <1>2, <1>3, <1>4, <1>5
  <1>8. QED
    BY <1>2, <1>4, <1>5, <1>6, <1>7 DEF IsStack, LastOf, Dropping

LEMMA Dropped ==
  ASSUME NEW s, IsStack(s), NEW n \in Nat
  PROVE  /\ IsStack(Dropping(s, n))
         /\ n <= Len(s) => Len(Dropping(s, n)) = Len(s) - n
         /\ n = Len(s) => Dropping(s, n) = <<>>
  <1>1. PICK S : s \in Seq(S)
    BY DEF IsStack
  <1>2. PICK m \in Nat : m = Len(s)
    BY <1>1
  <1>3. CASE n <= m
    <2>1. PICK l \in Nat : l = Len(s) - n
      <3>1. m - n \in Nat
        BY <1>2, <1>3
      <3>2. QED
        BY <1>2, <3>1
    <2>2. SubSeq(s, 1, l) \in Seq(S) /\ Len(SubSeq(s, 1, l)) = l
      BY <1>1, <1>2, <2>1
    <2>3. Dropping(s, n) = SubSeq(s, 1, l)
      BY <2>1 DEF Dropping
    <2>4. n = m => SubSeq(s, 1, l) = <<>>
      BY <1>2, <2>1, <2>2
    <2>5. QED
      BY <1>2, <2>1, <2>2, <2>3, <2>4 DEF IsStack
  <1>4. CASE ~(n <= m)
    <2>1. Dropping(s, n) = <<>>
      BY <1>1, <1>2, <1>4 DEF Dropping
    <2>2. <<>> \in Seq(S)
      OBVIOUS
    <2>3. QED
      BY <1>2, <1>4, <2>1, <2>2 DEF IsStack
  <1>5. QED
    BY <1>3, <1>4

LEMMA EmptyStack == IsStack(<<>>)
  BY <<>> \in Seq({}) DEF IsStack
-----------------------------------------------------------------------------
(* The VM after the first n instructions of the code c *)
Start == [stack |-> <<>>, target |-> 0, jump |-> 0]

StatesUpTo(c, k, b, n, g) ==
  g = [i \in 0 .. n |-> IF i = 0 THEN Start ELSE Step(c, k, i, b, g[i - 1])]

State(c, k, b, n) == (CHOOSE g : StatesUpTo(c, k, b, n, g))[n]

LEMMA StatesExist ==
  ASSUME NEW c, NEW k, NEW b, NEW n \in Nat
  PROVE  \E g : StatesUpTo(c, k, b, n, g)
  <1> DEFINE S == {m \in Nat : \E g : StatesUpTo(c, k, b, m, g)}
  <1>1. StatesUpTo(c, k, b, 0, [m \in 0 .. 0 |-> Start])
    BY DEF StatesUpTo
  <1>2. ASSUME NEW m \in Nat, NEW g, StatesUpTo(c, k, b, m, g)
        PROVE  \E h : StatesUpTo(c, k, b, m + 1, h)
    <2> DEFINE h == [i \in 0 .. m + 1 |-> IF i <= m THEN g[i] ELSE Step(c, k, m + 1, b, g[m])]
    <2>1. \A i \in 0 .. m : g[i] = IF i = 0 THEN Start ELSE Step(c, k, i, b, g[i - 1])
      BY <1>2 DEF StatesUpTo
    <2>2. \A i \in 0 .. m + 1 : h[i] = IF i = 0 THEN Start ELSE Step(c, k, i, b, h[i - 1])
      BY <2>1
    <2>3. StatesUpTo(c, k, b, m + 1, h)
      BY <2>2 DEF StatesUpTo
    <2>4. QED
      BY <2>3
  <1>3. 0 \in S /\ \A m \in S : m + 1 \in S
    BY <1>1, <1>2
  <1> HIDE DEF S
  <1>4. S \subseteq Nat
    BY DEF S
  <1>5. S = Nat
    BY <1>3, <1>4, Everywhere
  <1>6. QED
    BY <1>5 DEF S

LEMMA StatesUnique ==
  ASSUME NEW c, NEW k, NEW b, NEW n \in Nat, NEW g, NEW h,
         StatesUpTo(c, k, b, n, g), StatesUpTo(c, k, b, n, h)
  PROVE  g = h
  <1> DEFINE S == {m \in Nat : m <= n => g[m] = h[m]}
  <1>1. \A i \in 0 .. n : /\ g[i] = IF i = 0 THEN Start ELSE Step(c, k, i, b, g[i - 1])
                          /\ h[i] = IF i = 0 THEN Start ELSE Step(c, k, i, b, h[i - 1])
    BY DEF StatesUpTo
  <1>2. 0 \in S /\ \A m \in S : m + 1 \in S
    BY <1>1
  <1> HIDE DEF S
  <1>3. S \subseteq Nat
    BY DEF S
  <1>4. S = Nat
    BY <1>2, <1>3, Everywhere
  <1>5. \A m \in 0 .. n : g[m] = h[m]
    BY <1>4 DEF S
  <1>6. g = [m \in 0 .. n |-> g[m]] /\ h = [m \in 0 .. n |-> h[m]]
    BY DEF StatesUpTo
  <1>7. [m \in 0 .. n |-> g[m]] = [m \in 0 .. n |-> h[m]]
    BY <1>5
  <1>8. QED
    BY <1>6, <1>7, Zenon

LEMMA StateIs ==
  ASSUME NEW c, NEW k, NEW b, NEW n \in Nat, NEW g, StatesUpTo(c, k, b, n, g)
  PROVE  State(c, k, b, n) = g[n]
  <1>1. StatesUpTo(c, k, b, n, CHOOSE f : StatesUpTo(c, k, b, n, f))
    OBVIOUS
  <1>2. (CHOOSE f : StatesUpTo(c, k, b, n, f)) = g
    BY <1>1, StatesUnique
  <1>3. QED
    BY <1>2 DEF State

LEMMA StateNext ==
  ASSUME NEW c, NEW k, NEW b
  PROVE  /\ State(c, k, b, 0) = Start
         /\ \A n \in Nat : State(c, k, b, n + 1) = Step(c, k, n + 1, b, State(c, k, b, n))
  <1>1. State(c, k, b, 0) = Start
    <2>1. StatesUpTo(c, k, b, 0, [i \in 0 .. 0 |-> Start])
      BY DEF StatesUpTo
    <2>2. QED
      BY <2>1, StateIs
  <1>2. ASSUME NEW n \in Nat
        PROVE  State(c, k, b, n + 1) = Step(c, k, n + 1, b, State(c, k, b, n))
    <2>1. PICK g : StatesUpTo(c, k, b, n + 1, g)
      BY StatesExist
    <2> DEFINE h == [m \in 0 .. n |-> g[m]]
    <2>2. \A i \in 0 .. n + 1 : g[i] = IF i = 0 THEN Start ELSE Step(c, k, i, b, g[i - 1])
      BY <2>1 DEF StatesUpTo
    <2>3. StatesUpTo(c, k, b, n, h)
      BY <2>2 DEF StatesUpTo
    <2>4. State(c, k, b, n) = h[n] /\ State(c, k, b, n + 1) = g[n + 1]
      BY <2>1, <2>3, StateIs
    <2>5. QED
      BY <2>2, <2>4
  <1>3. QED
    BY <1>1, <1>2

LEMMA ExecutionIs ==
  ASSUME NEW c, NEW k, NEW b, Len(c) \in Nat
  PROVE  Execution(c, k, b) = State(c, k, b, Len(c))
  <1> DEFINE n == Len(c)
             Next(i, was) == CHOOSE next \in {Step(c, k, i, b, last) : last \in {was}} : TRUE
             Runs1(g) == g = [i \in 0 .. n |-> IF i = 0 THEN Start ELSE Next(i, g[i - 1])]
  <1>1. \A i, was : Next(i, was) = Step(c, k, i, b, was)
    OBVIOUS
  <1>2. Execution(c, k, b) = (CHOOSE g : Runs1(g))[n]
    BY DEF Execution, Start
  <1> HIDE DEF Next
  <1>3. PICK g : StatesUpTo(c, k, b, n, g)
    BY StatesExist
  <1>4. Runs1(g)
    BY <1>1, <1>3 DEF StatesUpTo
  <1>5. \A h : Runs1(h) => StatesUpTo(c, k, b, n, h)
    BY <1>1 DEF StatesUpTo
  <1> HIDE DEF Runs1, n
  <1>6. Runs1(CHOOSE h : Runs1(h))
    BY <1>4
  <1>7. StatesUpTo(c, k, b, n, CHOOSE h : Runs1(h))
    BY <1>5, <1>6
  <1>8. (CHOOSE h : Runs1(h))[n] = State(c, k, b, n)
    BY <1>7, StateIs DEF n
  <1>9. QED
    BY <1>2, <1>8 DEF n

VMState(stack, target, jump) == [stack |-> stack, target |-> target, jump |-> jump]

IsState(s) ==
  /\ s = VMState(s.stack, s.target, s.jump)
  /\ IsStack(s.stack) /\ s.target \in Nat /\ s.jump \in Nat

Executes(s, i) == s.jump = 0 /\ ~(i < s.target)

Opcodes == {"Constant", "AddConst", "GetLocal", "JumpIfFalse", "Jump", "PopN"} \cup Operators

LEMMA InstructionTyped ==
  ASSUME NEW x \in Instruction
  PROVE  x.op \in Opcodes /\ x.arg \in Nat
  BY DEF Instruction, Opcodes

LEMMA InstrIs ==
  ASSUME NEW op, NEW arg
  PROVE  Instr(op, arg).op = op /\ Instr(op, arg).arg = arg
  BY DEF Instr

(* What the instruction x does to a stack, if it is no jump *)
Effect(x, k, s) ==
  IF x.op = "Constant" THEN Append(s, k[x.arg])
  ELSE IF x.op = "GetLocal" THEN Append(s, X)
  ELSE IF x.op = "AddConst"
       THEN Append(Dropping(s, 1), IF IsNumber(k[x.arg]) THEN Result("Add", LastOf(s), k[x.arg])
                                   ELSE Failure)
  ELSE IF x.op = "PopN" THEN Dropping(s, x.arg)
  ELSE After(x.op, s)

JumpOps == {"JumpIfFalse", "Jump"}

LEMMA StepSkips ==
  ASSUME NEW c, NEW k, NEW i, NEW b, NEW s, s.jump # 0 \/ i < s.target
  PROVE  Step(c, k, i, b, s) = s
  BY DEF Step

LEMMA Put ==
  ASSUME NEW s, IsState(s), NEW v
  PROVE  /\ [s EXCEPT !.stack = v] = VMState(v, s.target, s.jump)
         /\ [s EXCEPT !.target = v] = VMState(s.stack, v, s.jump)
         /\ [s EXCEPT !.jump = v] = VMState(s.stack, s.target, v)
  BY DEF IsState, VMState

LEMMA StepDoes ==
  ASSUME NEW c, NEW k, NEW i, NEW b, NEW s, IsState(s), Executes(s, i),
         c[i].op \in Opcodes \ JumpOps
  PROVE  Step(c, k, i, b, s) = VMState(Effect(c[i], k, s.stack), s.target, s.jump)
  <1>1. s.jump = 0 /\ ~(i < s.target)
    BY DEF Executes
  <1>2. \A v : [s EXCEPT !.stack = v] = VMState(v, s.target, s.jump)
    BY Put
  <1>3. CASE c[i].op = "Constant"
    BY <1>1, <1>2, <1>3 DEF Step, Effect
  <1>4. CASE c[i].op = "GetLocal"
    BY <1>1, <1>2, <1>4 DEF Step, Effect
  <1>5. CASE c[i].op = "AddConst"
    BY <1>1, <1>2, <1>5 DEF Step, Effect
  <1>6. CASE c[i].op = "PopN"
    BY <1>1, <1>2, <1>6 DEF Step, Effect
  <1>7. CASE c[i].op \in Operators
    BY <1>1, <1>2, <1>7 DEF Step, Effect, Operators, Arithmetic
  <1>8. QED
    BY <1>3, <1>4, <1>5, <1>6, <1>7 DEF Opcodes, JumpOps

LEMMA StepJumps ==
  ASSUME NEW c, NEW k, NEW i, NEW b, NEW s, IsState(s), Executes(s, i)
  PROVE  /\ c[i].op = "Jump" => Step(c, k, i, b, s) = VMState(s.stack, s.target, i)
         /\ c[i].op = "JumpIfFalse" =>
              Step(c, k, i, b, s) =
                IF ~IsFalsy(LastOf(s.stack), b) THEN s
                ELSE IF c[i].arg = Unpatched THEN VMState(s.stack, s.target, i)
                ELSE VMState(s.stack, c[i].arg, s.jump)
  <1>1. s.jump = 0 /\ ~(i < s.target)
    BY DEF Executes
  <1>2. ASSUME c[i].op = "Jump"
        PROVE  Step(c, k, i, b, s) = VMState(s.stack, s.target, i)
    BY <1>1, <1>2, Put DEF Step
  <1>3. ASSUME c[i].op = "JumpIfFalse"
        PROVE  Step(c, k, i, b, s) =
                 IF ~IsFalsy(LastOf(s.stack), b) THEN s
                 ELSE IF c[i].arg = Unpatched THEN VMState(s.stack, s.target, i)
                 ELSE VMState(s.stack, c[i].arg, s.jump)
    BY <1>1, <1>3, Put DEF Step
  <1>4. QED
    BY <1>2, <1>3

LEMMA VMStateIs ==
  ASSUME NEW v, NEW t, NEW j
  PROVE  /\ VMState(v, t, j).stack = v /\ VMState(v, t, j).target = t /\ VMState(v, t, j).jump = j
         /\ IsStack(v) /\ t \in Nat /\ j \in Nat => IsState(VMState(v, t, j))
  BY DEF VMState, IsState

LEMMA EffectIsStack ==
  ASSUME NEW x, x.op \in Opcodes \ JumpOps, x.arg \in Nat, NEW k, NEW s, IsStack(s)
  PROVE  IsStack(Effect(x, k, s))
  <1>1. \A n \in Nat : IsStack(Dropping(s, n))
    BY Dropped
  <1>2. \A n \in Nat : \A v : IsStack(Append(Dropping(s, n), v))
    BY <1>1, Appended
  <1>3. \A v : IsStack(Append(s, v))
    BY Appended
  <1>4. x.op \in Operators => IsStack(After(x.op, s))
    BY <1>1, <1>2 DEF After, Operators, Arithmetic
  <1>5. QED
    BY <1>1, <1>2, <1>3, <1>4 DEF Effect, Opcodes, JumpOps, Operators, Arithmetic

IsCode(c, n) == \A i \in 1 .. n : c[i].op \in Opcodes /\ c[i].arg \in Nat

StateOf(c, n, s) ==
  /\ IsState(s)
  /\ s.jump \in 0 .. n
  /\ s.jump # 0 => \/ c[s.jump].op = "Jump"
                   \/ c[s.jump].op = "JumpIfFalse" /\ c[s.jump].arg = Unpatched
  /\ s.target # 0 => \E i \in 1 .. n : c[i].op = "JumpIfFalse" /\ c[i].arg = s.target

LEMMA StepTyped ==
  ASSUME NEW c, NEW k, NEW b, NEW n \in Nat, NEW i, i = n + 1, IsCode(c, i), NEW s, StateOf(c, n, s)
  PROVE  StateOf(c, i, Step(c, k, i, b, s))
  <1>1. IsState(s) /\ s.jump \in Nat /\ i \in Nat \ {0} /\ c[i].op \in Opcodes /\ c[i].arg \in Nat
    BY DEF StateOf, IsCode
  <1>2. StateOf(c, i, s)
    BY DEF StateOf
  <1>3. CASE ~Executes(s, i)
    <2>1. Step(c, k, i, b, s) = s
      BY <1>3, StepSkips DEF Executes
    <2>2. QED
      BY <1>2, <2>1
  <1>4. CASE Executes(s, i) /\ c[i].op \in Opcodes \ JumpOps
    <2>1. PICK v : v = Effect(c[i], k, s.stack) /\ IsStack(v)
      BY <1>1, <1>4, EffectIsStack DEF IsState
    <2>2. Step(c, k, i, b, s) = VMState(v, s.target, s.jump)
      BY <1>1, <1>4, <2>1, StepDoes
    <2>3. QED
      BY <1>1, <1>2, <2>1, <2>2, VMStateIs DEF StateOf, IsState
  <1>5. CASE Executes(s, i) /\ c[i].op = "Jump"
    <2>1. Step(c, k, i, b, s) = VMState(s.stack, s.target, i)
      BY <1>1, <1>5, StepJumps
    <2>2. QED
      BY <1>1, <1>2, <1>5, <2>1, VMStateIs DEF StateOf, IsState
  <1>6. CASE Executes(s, i) /\ c[i].op = "JumpIfFalse"
    <2>1. Step(c, k, i, b, s) =
            IF ~IsFalsy(LastOf(s.stack), b) THEN s
            ELSE IF c[i].arg = Unpatched THEN VMState(s.stack, s.target, i)
            ELSE VMState(s.stack, c[i].arg, s.jump)
      BY <1>1, <1>6, StepJumps
    <2>2. StateOf(c, i, VMState(s.stack, c[i].arg, s.jump))
      BY <1>1, <1>2, <1>6, VMStateIs DEF StateOf, IsState
    <2>3. c[i].arg = Unpatched => StateOf(c, i, VMState(s.stack, s.target, i))
      BY <1>1, <1>2, <1>6, VMStateIs DEF StateOf, IsState
    <2>4. QED
      BY <1>2, <2>1, <2>2, <2>3
  <1>7. QED
    BY <1>1, <1>3, <1>4, <1>5, <1>6 DEF JumpOps

LEMMA StateTyped ==
  ASSUME NEW c, NEW k, NEW b, NEW n \in Nat, IsCode(c, n)
  PROVE  StateOf(c, n, State(c, k, b, n))
  <1> DEFINE S == {m \in Nat : m <= n => StateOf(c, m, State(c, k, b, m))}
  <1>1. 0 \in S
    <2>1. State(c, k, b, 0) = VMState(<<>>, 0, 0)
      BY StateNext DEF Start, VMState
    <2>2. StateOf(c, 0, VMState(<<>>, 0, 0))
      BY VMStateIs, EmptyStack DEF StateOf
    <2>3. QED
      BY <2>1, <2>2
  <1>2. ASSUME NEW m \in S PROVE m + 1 \in S
    <2>1. PICK i : i = m + 1
      OBVIOUS
    <2>2. SUFFICES ASSUME i <= n PROVE StateOf(c, i, State(c, k, b, i))
      BY <2>1
    <2>3. m \in Nat /\ StateOf(c, m, State(c, k, b, m)) /\ IsCode(c, i)
      BY <2>1, <2>2 DEF IsCode
    <2>4. State(c, k, b, i) = Step(c, k, i, b, State(c, k, b, m))
      BY <2>1, <2>3, StateNext
    <2>5. QED
      BY <2>1, <2>3, <2>4, StepTyped
  <1> HIDE DEF S
  <1>3. S \subseteq Nat
    BY DEF S
  <1>4. S = Nat
    BY <1>1, <1>2, <1>3, Everywhere
  <1>5. QED
    BY <1>4 DEF S

(* What the first n instructions do depends on them and on the constants   *)
(* they load.                                                              *)
Loads == {"Constant", "AddConst"}

SamePrefix(c, k, d, l, n) ==
  \A i \in 1 .. n : d[i] = c[i] /\ (c[i].op \in Loads => l[c[i].arg] = k[c[i].arg])

LEMMA StatePrefix ==
  ASSUME NEW c, NEW k, NEW d, NEW l, NEW b, NEW n \in Nat, SamePrefix(c, k, d, l, n)
  PROVE  State(d, l, b, n) = State(c, k, b, n)
  <1> DEFINE S == {m \in Nat : m <= n => State(d, l, b, m) = State(c, k, b, m)}
  <1>1. 0 \in S
    BY StateNext
  <1>2. ASSUME NEW m \in S PROVE m + 1 \in S
    <2>1. SUFFICES ASSUME m + 1 <= n
                   PROVE  State(d, l, b, m + 1) = State(c, k, b, m + 1)
      OBVIOUS
    <2>2. PICK i : i = m + 1 /\ i \in 1 .. n
      BY <2>1
    <2>3. d[i] = c[i] /\ (c[i].op \in Loads => l[c[i].arg] = k[c[i].arg])
      BY <2>2 DEF SamePrefix
    <2>4. PICK s : s = State(c, k, b, m) /\ s = State(d, l, b, m)
      BY <2>1
    <2>5. Step(d, l, i, b, s) = Step(c, k, i, b, s)
      BY <2>3 DEF Step, Loads
    <2>6. m \in Nat
      OBVIOUS
    <2>7. State(d, l, b, m + 1) = Step(d, l, m + 1, b, State(d, l, b, m))
      BY <2>6, StateNext
    <2>8. State(c, k, b, m + 1) = Step(c, k, m + 1, b, State(c, k, b, m))
      BY <2>6, StateNext
    <2>9. QED
      BY <2>2, <2>4, <2>5, <2>7, <2>8
  <1> HIDE DEF S
  <1>3. S \subseteq Nat
    BY DEF S
  <1>4. S = Nat
    BY <1>1, <1>2, <1>3, Everywhere
  <1>5. QED
    BY <1>4 DEF S

(* A jump that is patched to lead behind the code: what was skipped to     *)
(* there goes on.                                                          *)
Landed(s, jump, end) == IF s.jump = jump THEN VMState(s.stack, end, 0) ELSE s

LEMMA StatePatched ==
  ASSUME NEW c, NEW k, NEW d, NEW b, NEW n \in Nat, IsCode(c, n), NEW jump \in 1 .. n,
         c[jump] = Instr("JumpIfFalse", Unpatched), NEW end, end = n + 1,
         d[jump] = Instr("JumpIfFalse", end), \A i \in 1 .. n : i # jump => d[i] = c[i]
  PROVE  State(d, k, b, n) = Landed(State(c, k, b, n), jump, end)
  <1> DEFINE S == {m \in Nat : m <= n => State(d, k, b, m) = Landed(State(c, k, b, m), jump, end)}
  <1>1. 0 \in S
    <2>1. State(c, k, b, 0) = VMState(<<>>, 0, 0) /\ State(d, k, b, 0) = VMState(<<>>, 0, 0)
      BY StateNext DEF Start, VMState
    <2>2. QED
      BY <2>1, VMStateIs DEF Landed
  <1>2. ASSUME NEW m \in S PROVE m + 1 \in S
    <2>1. PICK i : i = m + 1
      OBVIOUS
    <2>2. SUFFICES ASSUME i <= n
                   PROVE  State(d, k, b, i) = Landed(State(c, k, b, i), jump, end)
      BY <2>1
    <2>3. m \in Nat /\ m <= n /\ i \in 1 .. n /\ IsCode(c, m)
      BY <2>1, <2>2 DEF IsCode
    <2>4. PICK s : s = State(c, k, b, m)
      OBVIOUS
    <2>5. State(d, k, b, m) = Landed(s, jump, end)
      BY <2>3, <2>4
    <2>6. StateOf(c, m, s) /\ IsState(s)
      BY <2>3, <2>4, StateTyped DEF StateOf
    <2>7. /\ State(c, k, b, i) = Step(c, k, i, b, s)
          /\ State(d, k, b, i) = Step(d, k, i, b, Landed(s, jump, end))
      BY <2>1, <2>3, <2>4, <2>5, StateNext
    <2>8. CASE s.jump = jump
      <3>1. Landed(s, jump, end).target = end /\ i < end
        BY <2>2, <2>3, <2>8, VMStateIs DEF Landed
      <3>2. Step(d, k, i, b, Landed(s, jump, end)) = Landed(s, jump, end)
        BY <3>1, StepSkips
      <3>3. Step(c, k, i, b, s) = s
        BY <2>8, StepSkips
      <3>4. QED
        BY <2>7, <3>2, <3>3
    <2>9. CASE s.jump # jump /\ i # jump
      <3>1. Landed(s, jump, end) = s /\ d[i] = c[i]
        BY <2>3, <2>9 DEF Landed
      <3>2. Step(d, k, i, b, s) = Step(c, k, i, b, s)
        BY <3>1 DEF Step
      <3>3. Step(c, k, i, b, s).jump # jump
        <4>1. CASE ~Executes(s, i)
          BY <4>1, <2>9, StepSkips DEF Executes
        <4>2. CASE Executes(s, i) /\ c[i].op \in Opcodes \ JumpOps
          BY <4>2, <2>6, <2>9, StepDoes, VMStateIs
        <4>3. CASE Executes(s, i) /\ c[i].op \in JumpOps
          BY <4>3, <2>6, <2>9, StepJumps, VMStateIs DEF JumpOps
        <4>4. QED
          BY <2>3, <4>1, <4>2, <4>3 DEF IsCode
      <3>4. QED
        BY <2>7, <3>1, <3>2, <3>3 DEF Landed
    <2>10. CASE s.jump # jump /\ i = jump
      <3>1. Landed(s, jump, end) = s
        BY <2>10 DEF Landed
      <3>2. CASE ~Executes(s, i)
        <4>1. Step(d, k, i, b, s) = s /\ Step(c, k, i, b, s) = s
          BY <3>2, StepSkips DEF Executes
        <4>2. QED
          BY <2>7, <3>1, <4>1
      <3>3. CASE Executes(s, i)
        <4>1. /\ c[i].op = "JumpIfFalse" /\ c[i].arg = Unpatched
              /\ d[i].op = "JumpIfFalse" /\ d[i].arg = end /\ end # Unpatched
          BY <2>10, InstrIs DEF Unpatched
        <4>2. Step(c, k, i, b, s) = IF ~IsFalsy(LastOf(s.stack), b) THEN s
                                    ELSE VMState(s.stack, s.target, i)
          BY <2>6, <3>3, <4>1, StepJumps
        <4>3. Step(d, k, i, b, s) = IF ~IsFalsy(LastOf(s.stack), b) THEN s
                                    ELSE VMState(s.stack, end, s.jump)
          BY <2>6, <3>3, <4>1, StepJumps
        <4>4. s.jump = 0
          BY <3>3 DEF Executes
        <4>5. QED
          BY <2>7, <2>10, <3>1, <4>2, <4>3, <4>4, VMStateIs DEF Landed
      <3>4. QED
        BY <3>2, <3>3
    <2>11. QED
      BY <2>8, <2>9, <2>10
  <1> HIDE DEF S
  <1>3. S \subseteq Nat
    BY DEF S
  <1>4. S = Nat
    BY <1>1, <1>2, <1>3, Everywhere
  <1>5. QED
    BY <1>4 DEF S
-----------------------------------------------------------------------------
(* The pool: code loads constants in the order in which they were added,   *)
(* so what is taken off the end of the pool with the end of the code is    *)
(* used nowhere else.  Jumps lead to code that there is, or to its end.    *)
CodeInv ==
  /\ constants \in Seq({constants[i] : i \in DOMAIN constants})
  /\ \A i \in 1 .. Len(code) : code[i].op \in Loads => code[i].arg \in 1 .. Len(constants)
  /\ \A i, j \in 1 .. Len(code) :
       i < j /\ code[i].op \in Loads /\ code[j].op \in Loads => code[i].arg < code[j].arg
  /\ \A i \in 1 .. Len(code) : code[i].op = "JumpIfFalse" => code[i].arg <= Len(code) + 1

(* Where it is used, the window is the end of the code, and no jump leads  *)
(* into it.                                                                *)
Rewriting == Fold \/ SuperOps

WindowInv ==
  Rewriting /\ pendingConsts > 0 =>
    /\ Len(code) = constCodeStart + pendingConsts
    /\ code[constCodeStart + 1] = Instr("Constant", constIndex[0])
    /\ pendingConsts = 2 => code[constCodeStart + 2] = Instr("Constant", constIndex[1])
    /\ constIndex[pendingConsts - 1] = Len(constants)
    /\ \A i \in 1 .. constCodeStart :
         code[i].op = "JumpIfFalse" => code[i].arg <= constCodeStart + 1

(* Each `and` in progress has a jump of its own, which is to be patched.   *)
AndsInv ==
  /\ Len(ands) <= AndsMax
  /\ \A n \in 1 .. Len(ands) :
       ands[n].jump \in 1 .. Len(code) /\ code[ands[n].jump] = Instr("JumpIfFalse", Unpatched)
  /\ \A n, m \in 1 .. Len(ands) : ands[n].jump = ands[m].jump => n = m

(* The height of the stack where the code ends, and where an `and` whose   *)
(* left operand is falsy ends; a `break` does not come back.               *)
RunInv ==
  \A b \in BOOLEAN :
    /\ Run(b).jump = 0 => Len(Run(b).stack) = stackDepth
    /\ Run(b).jump # 0 =>
         \/ code[Run(b).jump].op = "Jump"
         \/ \E n \in 1 .. Len(ands) : ands[n].jump = Run(b).jump
                                      /\ Len(Run(b).stack) = ands[n].base + 1

LinesInv == lineOf \in Seq(Nat) /\ LinesOf(code, lines, lineOf)

EmitterInv ==
  EmitterTypeOK /\ CodeInv /\ WindowInv /\ AndsInv /\ RunInv /\ LinesInv
-----------------------------------------------------------------------------
(* One instruction more: what was executing has its effect. *)
Ran(s, stack) == IF s.jump = 0 THEN VMState(stack, s.target, 0) ELSE s

(* No jump leads further than to the next instruction. *)
Lands(c, n) == \A i \in 1 .. n : c[i].op = "JumpIfFalse" => c[i].arg <= n + 1

LEMMA RanOnce ==
  ASSUME NEW c, NEW k, NEW b, NEW n \in Nat, IsCode(c, n), Lands(c, n),
         NEW d, NEW l, SamePrefix(c, k, d, l, n), NEW m, m = n + 1,
         d[m].op \in Opcodes \ JumpOps
  PROVE  State(d, l, b, m) = Ran(State(c, k, b, n), Effect(d[m], l, State(c, k, b, n).stack))
  <1>1. PICK s : s = State(c, k, b, n) /\ s = State(d, l, b, n)
    BY StatePrefix
  <1>2. State(d, l, b, m) = Step(d, l, m, b, s)
    BY <1>1, StateNext
  <1>3. StateOf(c, n, s) /\ IsState(s)
    <2>1. StateOf(c, n, s)
      BY <1>1, StateTyped
    <2>2. QED
      BY <2>1 DEF StateOf
  <1>4. ~(m < s.target)
    <2>1. s.target = 0 \/ s.target <= n + 1
      BY <1>3 DEF StateOf, Lands
    <2>2. QED
      BY <1>3, <2>1 DEF IsState
  <1>5. CASE s.jump = 0
    BY <1>1, <1>2, <1>3, <1>4, <1>5, StepDoes DEF Executes, Ran
  <1>6. CASE s.jump # 0
    BY <1>1, <1>2, <1>6, StepSkips DEF Ran
  <1>7. QED
    BY <1>5, <1>6

(* The same for one that jumps. *)
LEMMA RanJump ==
  ASSUME NEW c, NEW k, NEW b, NEW n \in Nat, IsCode(c, n), Lands(c, n),
         NEW d, NEW l, SamePrefix(c, k, d, l, n), NEW m, m = n + 1,
         NEW s, s = State(c, k, b, n)
  PROVE  /\ d[m].op = "Jump" =>
              State(d, l, b, m) = IF s.jump = 0 THEN VMState(s.stack, s.target, m) ELSE s
         /\ d[m].op = "JumpIfFalse" /\ d[m].arg = Unpatched =>
              State(d, l, b, m) = IF s.jump = 0 /\ IsFalsy(LastOf(s.stack), b)
                                  THEN VMState(s.stack, s.target, m) ELSE s
  <1>1. s = State(d, l, b, n)
    BY StatePrefix
  <1>2. State(d, l, b, m) = Step(d, l, m, b, s)
    BY <1>1, StateNext
  <1>3. StateOf(c, n, s) /\ IsState(s)
    BY StateTyped DEF StateOf
  <1>4. ~(m < s.target)
    <2>1. s.target = 0 \/ s.target <= n + 1
      BY <1>3 DEF StateOf, Lands
    <2>2. QED
      BY <1>3, <2>1 DEF IsState
  <1>5. CASE s.jump = 0
    BY <1>2, <1>3, <1>4, <1>5, StepJumps DEF Executes
  <1>6. CASE s.jump # 0
    BY <1>2, <1>6, StepSkips
  <1>7. QED
    BY <1>5, <1>6

LEMMA RanIs ==
  ASSUME NEW s, NEW stack
  PROVE  /\ s.jump = 0 => Ran(s, stack) = VMState(stack, s.target, 0)
         /\ s.jump # 0 => Ran(s, stack) = s
         /\ s.jump = 0 => Ran(s, stack).stack = stack
         /\ Ran(s, stack).jump = s.jump /\ Ran(s, stack).target = s.target
  BY VMStateIs DEF Ran

(* What operators make of the operands on top of a stack *)
LEMMA Operated ==
  ASSUME NEW s, IsStack(s), NEW x, NEW y, NEW op \in Arithmetic
  PROVE  /\ Len(s) # 0 =>
              After(op, Append(s, y)) = Append(Dropping(s, 1), Result(op, LastOf(s), y))
         /\ After(op, Append(Append(s, x), y)) = Append(s, Result(op, x, y))
  <1> DEFINE t == Append(s, y)
             u == Append(Append(s, x), y)
  <1>1. PICK S : s \in Seq(S)
    BY DEF IsStack
  <1>2. PICK n \in Nat : n = Len(s)
    BY <1>1
  <1>3. Append(s, x) \in Seq(S \cup {x}) /\ Len(Append(s, x)) = n + 1
        /\ Append(s, x)[n + 1] = x /\ \A i \in 1 .. n : Append(s, x)[i] = s[i]
    BY <1>1, <1>2
  <1>4. /\ u \in Seq(S \cup {x, y}) /\ Len(u) = n + 2 /\ u[n + 2] = y
        /\ \A i \in 1 .. n + 1 : u[i] = Append(s, x)[i]
    BY <1>1, <1>2, <1>3
  <1>5. SubSeq(u, 1, n) = s
    BY <1>1, <1>2, <1>3, <1>4
  <1>6. After(op, u) = Append(SubSeq(u, 1, n), Result(op, u[n + 1], u[n + 2]))
    <2>1. Len(u) - 2 = n /\ Len(u) - 1 = n + 1 /\ Len(u) = n + 2
      BY <1>2, <1>4
    <2> HIDE DEF u
    <2>2. After(op, u) = Append(Dropping(u, 2), Result(op, u[Len(u) - 1], LastOf(u)))
      BY DEF After, Arithmetic
    <2>3. QED
      BY <2>1, <2>2 DEF Dropping, LastOf
  <1>7. u[n + 1] = x
    BY <1>2, <1>3, <1>4
  <1>8. ASSUME n # 0
        PROVE  After(op, t) = Append(Dropping(s, 1), Result(op, LastOf(s), y))
    <2>1. /\ t \in Seq(S \cup {y}) /\ Len(t) = n + 1 /\ t[n + 1] = y
          /\ \A i \in 1 .. n : t[i] = s[i]
      BY <1>1, <1>2
    <2>2. PICK l \in Nat : l = n - 1
      <3>1. n - 1 \in Nat
        BY <1>2, <1>8
      <3>2. QED
        BY <3>1
    <2>3. SubSeq(t, 1, l) = SubSeq(s, 1, l)
      BY <1>1, <1>2, <2>1, <2>2
    <2>4. After(op, t) = Append(SubSeq(t, 1, l), Result(op, t[n], t[n + 1]))
      <3>1. Len(t) - 2 = l /\ Len(t) - 1 = n /\ Len(t) = n + 1
        BY <1>2, <2>1, <2>2
      <3> HIDE DEF t
      <3>2. After(op, t) = Append(Dropping(t, 2), Result(op, t[Len(t) - 1], LastOf(t)))
        BY DEF After, Arithmetic
      <3>3. QED
        BY <3>1, <3>2 DEF Dropping, LastOf
    <2>5. t[n] = s[n]
      BY <1>2, <1>8, <2>1
    <2>6. QED
      BY <1>2, <2>1, <2>2, <2>3, <2>4, <2>5 DEF Dropping, LastOf
  <1>9. QED
    BY <1>2, <1>4, <1>5, <1>6, <1>7, <1>8
-----------------------------------------------------------------------------
LEMMA CodeTyped ==
  ASSUME EmitterInv
  PROVE  /\ Len(code) \in Nat /\ DOMAIN code = 1 .. Len(code)
         /\ \A i \in 1 .. Len(code) : code[i] \in Instruction
         /\ IsCode(code, Len(code)) /\ Lands(code, Len(code))
         /\ \A b \in BOOLEAN : Run(b) = State(code, constants, b, Len(code))
  <1>1. code \in Seq(Instruction)
    BY DEF EmitterInv, EmitterTypeOK
  <1>2. /\ Len(code) \in Nat /\ DOMAIN code = 1 .. Len(code)
        /\ \A i \in 1 .. Len(code) : code[i] \in Instruction
    BY <1>1
  <1>3. IsCode(code, Len(code))
    BY <1>2, InstructionTyped DEF IsCode
  <1>4. Lands(code, Len(code))
    BY DEF EmitterInv, CodeInv, Lands
  <1>5. \A b \in BOOLEAN : Run(b) = State(code, constants, b, Len(code))
    BY <1>2, ExecutionIs DEF Run
  <1>6. QED
    BY <1>2, <1>3, <1>4, <1>5

LEMMA RunTyped ==
  ASSUME EmitterInv, NEW b \in BOOLEAN
  PROVE  /\ IsState(Run(b)) /\ IsStack(Run(b).stack) /\ Len(Run(b).stack) \in Nat
         /\ Run(b).jump \in 0 .. Len(code)
         /\ Run(b).jump # 0 => code[Run(b).jump].op \in JumpOps
  <1>1. StateOf(code, Len(code), Run(b))
    BY CodeTyped, StateTyped
  <1>2. IsState(Run(b)) /\ IsStack(Run(b).stack)
    BY <1>1 DEF StateOf, IsState
  <1>3. Len(Run(b).stack) \in Nat
    BY <1>2, Appended
  <1>4. QED
    BY <1>1, <1>2, <1>3 DEF StateOf, JumpOps

(* Emitting one instruction: what is executing has its effect. *)
LEMMA EmittedRun ==
  ASSUME EmitterInv, NEW x \in Instruction, x.op \notin JumpOps, code' = Append(code, x),
         \A i \in 1 .. Len(constants) : constants'[i] = constants[i], NEW b \in BOOLEAN
  PROVE  Run(b)' = Ran(Run(b), Effect(x, constants', Run(b).stack))
  <1>1. PICK n \in Nat : n = Len(code)
    BY CodeTyped
  <1>2. PICK d : d = code'
    OBVIOUS
  <1>3. PICK l : l = constants'
    OBVIOUS
  <1>4. code \in Seq(Instruction)
    BY DEF EmitterInv, EmitterTypeOK
  <1>5. PICK m : m = n + 1
    OBVIOUS
  <1>6. Len(d) = m /\ d[m] = x /\ \A i \in 1 .. n : d[i] = code[i]
    BY <1>1, <1>2, <1>4, <1>5
  <1>7. SamePrefix(code, constants, d, l, n)
    <2>1. \A i \in 1 .. n : code[i].op \in Loads => code[i].arg \in 1 .. Len(constants)
      BY <1>1 DEF EmitterInv, CodeInv
    <2>2. QED
      BY <2>1, <1>3, <1>6 DEF SamePrefix
  <1>8. IsCode(code, n) /\ Lands(code, n) /\ Run(b) = State(code, constants, b, n)
    BY <1>1, CodeTyped
  <1>9. d[m].op \in Opcodes \ JumpOps
    BY <1>6, InstructionTyped
  <1>10. State(d, l, b, m) = Ran(Run(b), Effect(d[m], l, Run(b).stack))
    BY <1>1, <1>5, <1>7, <1>8, <1>9, RanOnce
  <1>11. Run(b)' = State(d, l, b, m)
    <2>1. Run(b)' = Execution(d, l, b)
      BY <1>2, <1>3 DEF Run
    <2>2. Len(d) \in Nat
      BY <1>1, <1>5, <1>6
    <2>3. QED
      BY <2>1, <2>2, <1>6, ExecutionIs
  <1>12. QED
    BY <1>3, <1>6, <1>10, <1>11

(* The run before the window *)
Before(b) == State(code, constants, b, constCodeStart)

LEMMA WindowRun ==
  ASSUME EmitterInv, Rewriting, pendingConsts \in {1, 2}, NEW b \in BOOLEAN
  PROVE  /\ IsState(Before(b)) /\ IsStack(Before(b).stack)
         /\ pendingConsts = 1 =>
              Run(b) = Ran(Before(b), Append(Before(b).stack, constants[constIndex[0]]))
         /\ pendingConsts = 2 =>
              Run(b) = Ran(Before(b), Append(Append(Before(b).stack, constants[constIndex[0]]),
                                             constants[constIndex[1]]))
  <1>1. PICK n \in Nat : n = constCodeStart
    BY DEF EmitterInv, EmitterTypeOK
  <1>2. /\ Len(code) = n + pendingConsts
        /\ code[n + 1] = Instr("Constant", constIndex[0])
        /\ pendingConsts = 2 => code[n + 2] = Instr("Constant", constIndex[1])
        /\ \A i \in 1 .. n : code[i].op = "JumpIfFalse" => code[i].arg <= n + 1
    BY <1>1 DEF EmitterInv, WindowInv
  <1>3. Lands(code, n)
    BY <1>2 DEF Lands
  <1>4. IsCode(code, n) /\ IsCode(code, n + 1)
    BY <1>1, <1>2, CodeTyped DEF IsCode
  <1>5. \A i \in Nat : SamePrefix(code, constants, code, constants, i)
    BY DEF SamePrefix
  <1>6. PICK p : p = Before(b) /\ p = State(code, constants, b, n)
    BY <1>1 DEF Before
  <1>7. StateOf(code, n, p) /\ IsState(p) /\ IsStack(p.stack)
    <2>1. StateOf(code, n, p)
      BY <1>1, <1>4, <1>6, StateTyped
    <2>2. QED
      BY <2>1 DEF StateOf, IsState
  <1>8. PICK m : m = n + 1
    OBVIOUS
  <1>9. PICK x : x = constants[constIndex[0]]
    OBVIOUS
  <1>10. code[m].op = "Constant" /\ code[m].arg = constIndex[0]
         /\ code[m].op \in Opcodes \ JumpOps
    BY <1>2, <1>8, InstrIs DEF Opcodes, JumpOps
  <1>11. State(code, constants, b, m) = Ran(p, Append(p.stack, x))
    <2>1. State(code, constants, b, m) = Ran(p, Effect(code[m], constants, p.stack))
      BY <1>1, <1>3, <1>4, <1>5, <1>6, <1>8, <1>10, RanOnce
    <2>2. Effect(code[m], constants, p.stack) = Append(p.stack, x)
      BY <1>9, <1>10 DEF Effect
    <2>3. QED
      BY <2>1, <2>2
  <1>12. Run(b) = State(code, constants, b, Len(code))
    BY CodeTyped
  <1>13. ASSUME pendingConsts = 2
         PROVE  Run(b) = Ran(p, Append(Append(p.stack, x), constants[constIndex[1]]))
    <2>1. PICK l : l = n + 2 /\ l = m + 1 /\ m \in Nat
      BY <1>1, <1>8
    <2>2. code[l].op = "Constant" /\ code[l].arg = constIndex[1]
          /\ code[l].op \in Opcodes \ JumpOps
      BY <1>2, <1>13, <2>1, InstrIs DEF Opcodes, JumpOps
    <2>3. Lands(code, m)
      <3>1. code[m].op # "JumpIfFalse"
        BY <1>10
      <3>2. \A i \in 1 .. m : code[i].op = "JumpIfFalse" => i \in 1 .. n /\ code[i].arg \in Nat
        BY <1>1, <1>4, <1>8, <3>1 DEF IsCode
      <3>3. QED
        BY <1>1, <1>2, <1>8, <3>2 DEF Lands
    <2>4. PICK q : q = State(code, constants, b, m) /\ q = Ran(p, Append(p.stack, x))
      BY <1>11
    <2>5. State(code, constants, b, l) = Ran(q, Effect(code[l], constants, q.stack))
      BY <1>4, <1>5, <1>8, <2>1, <2>2, <2>3, <2>4, RanOnce
    <2>6. Effect(code[l], constants, q.stack) = Append(q.stack, constants[constIndex[1]])
      BY <2>2 DEF Effect
    <2>7. Run(b) = Ran(q, Append(q.stack, constants[constIndex[1]]))
      BY <1>2, <1>12, <1>13, <2>1, <2>5, <2>6
    <2>8. CASE p.jump = 0
      BY <2>4, <2>7, <2>8, RanIs DEF Ran
    <2>9. CASE p.jump # 0
      BY <2>4, <2>7, <2>9, RanIs DEF Ran
    <2>10. QED
      BY <2>8, <2>9
  <1>14. ASSUME pendingConsts = 1
         PROVE  Run(b) = Ran(p, Append(p.stack, x))
    BY <1>2, <1>8, <1>11, <1>12, <1>14
  <1>15. QED
    BY <1>6, <1>7, <1>9, <1>13, <1>14

LEMMA AndTyped ==
  ASSUME EmitterInv
  PROVE  /\ Len(ands) \in Nat
         /\ \A n \in 1 .. Len(ands) : ands[n].jump \in Nat /\ ands[n].base \in Nat
  <1> DEFINE R == [jump : Nat, base : Nat]
  <1>1. ands \in Seq(R)
    BY DEF EmitterInv, EmitterTypeOK
  <1>2. \A r \in R : r.jump \in Nat /\ r.base \in Nat
    OBVIOUS
  <1> HIDE DEF R
  <1>3. QED
    BY <1>1, <1>2

LEMMA BaseTyped ==
  ASSUME EmitterInv
  PROVE  Base \in Nat
  <1>1. CASE ands = <<>>
    BY <1>1 DEF Base
  <1>2. CASE ands # <<>>
    <2>1. Len(ands) \in 1 .. Len(ands)
      <3>1. Len(ands) # 0
        BY <1>2 DEF EmitterInv, EmitterTypeOK
      <3>2. QED
        BY <3>1, AndTyped
    <2>2. QED
      BY <1>2, <2>1, AndTyped DEF Base
  <1>3. QED
    BY <1>1, <1>2

(* Emitting an instruction in place of the window *)
LEMMA RewoundRun ==
  ASSUME EmitterInv, Rewriting, pendingConsts \in {1, 2}, NEW x \in Instruction, x.op \notin JumpOps,
         code' = Append(SubSeq(code, 1, constCodeStart), x),
         \A i \in 1 .. Len(constants) : i < constIndex[0] => constants'[i] = constants[i],
         NEW b \in BOOLEAN
  PROVE  Run(b)' = Ran(Before(b), Effect(x, constants', Before(b).stack))
  <1>1. PICK n \in Nat : n = constCodeStart
    BY DEF EmitterInv, EmitterTypeOK
  <1>2. Len(code) = n + pendingConsts /\ code[n + 1] = Instr("Constant", constIndex[0])
    BY <1>1 DEF EmitterInv, WindowInv
  <1>3. \A i \in 1 .. n : code[i].op = "JumpIfFalse" => code[i].arg <= n + 1
    BY <1>1 DEF EmitterInv, WindowInv
  <1>4. PICK d : d = code'
    OBVIOUS
  <1>5. PICK l : l = constants'
    OBVIOUS
  <1>6. PICK m : m = n + 1
    OBVIOUS
  <1>7. code \in Seq(Instruction)
    BY DEF EmitterInv, EmitterTypeOK
  <1>8. Len(d) = m /\ d[m] = x /\ \A i \in 1 .. n : d[i] = code[i]
    <2>1. PICK w : w = SubSeq(code, 1, n)
      OBVIOUS
    <2>2. w \in Seq(Instruction) /\ Len(w) = n /\ \A i \in 1 .. n : w[i] = code[i]
      BY <1>1, <1>2, <1>7, <2>1
    <2>3. d = Append(w, x)
      BY <1>1, <1>4, <2>1
    <2>4. QED
      BY <1>1, <1>6, <2>2, <2>3
  <1>9. SamePrefix(code, constants, d, l, n)
    <2>1. code[n + 1].op \in Loads /\ code[n + 1].arg = constIndex[0]
      BY <1>2, InstrIs DEF Loads
    <2>2. ASSUME NEW i \in 1 .. n, code[i].op \in Loads
          PROVE  code[i].arg \in 1 .. Len(constants) /\ code[i].arg < constIndex[0]
      <3>1. i \in 1 .. Len(code) /\ n + 1 \in 1 .. Len(code) /\ i < n + 1
        BY <1>1, <1>2
      <3>2. QED
        BY <2>1, <2>2, <3>1 DEF EmitterInv, CodeInv
    <2>3. QED
      BY <2>2, <1>5, <1>8 DEF SamePrefix
  <1>10. IsCode(code, n) /\ Lands(code, n)
    BY <1>1, <1>2, <1>3, CodeTyped DEF IsCode, Lands
  <1>11. Before(b) = State(code, constants, b, n)
    BY <1>1 DEF Before
  <1>12. d[m].op \in Opcodes \ JumpOps
    BY <1>8, InstructionTyped
  <1>13. State(d, l, b, m) = Ran(Before(b), Effect(d[m], l, Before(b).stack))
    BY <1>1, <1>6, <1>9, <1>10, <1>11, <1>12, RanOnce
  <1>14. Run(b)' = State(d, l, b, m)
    <2>1. Run(b)' = Execution(d, l, b)
      BY <1>4, <1>5 DEF Run
    <2>2. Len(d) \in Nat
      BY <1>1, <1>6, <1>8
    <2>3. QED
      BY <2>1, <2>2, <1>8, ExecutionIs
  <1>15. QED
    BY <1>5, <1>8, <1>13, <1>14

LEMMA InstrTyped ==
  ASSUME NEW arg \in Nat
  PROVE  /\ \A op \in {"Constant", "AddConst", "JumpIfFalse", "Jump", "PopN"} :
              Instr(op, arg) \in Instruction
         /\ \A op \in {"GetLocal"} \cup Operators : Instr(op, 0) \in Instruction
  BY DEF Instr, Instruction

(* Folding computes what the VM would have computed. *)
LEMMA FoldRun ==
  ASSUME EmitterInv, NEW op \in Arithmetic, CanFold(op), FoldConstants(op), NEW b \in BOOLEAN
  PROVE  Run(b)' = Ran(Run(b), After(op, Run(b).stack))
  <1> DEFINE first == constants[constIndex[0]]
             second == constants[constIndex[1]]
             folded == Result(op, first, second)
             pool == IF constIndex[1] = Len(constants)
                     THEN SubSeq(constants, 1, Len(constants) - 1) ELSE constants
  <1>1. Rewriting /\ pendingConsts = 2 /\ constIndex[1] = Len(constants)
    BY DEF Rewriting, CanFold, EmitterInv, WindowInv
  <1>2. PICK S : constants \in Seq(S)
    BY DEF EmitterInv, CodeInv
  <1>3. PICK n : n \in Nat /\ n + 1 = Len(constants) /\ constIndex[0] <= n /\ constIndex[0] \in Nat
    <2>1. PICK l \in Nat : l = constCodeStart
      BY DEF EmitterInv, EmitterTypeOK
    <2>2. /\ Len(code) = l + 2
          /\ code[l + 1] = Instr("Constant", constIndex[0])
          /\ code[l + 2] = Instr("Constant", constIndex[1])
      BY <1>1, <2>1 DEF EmitterInv, WindowInv
    <2>3. /\ code[l + 1].op \in Loads /\ code[l + 1].arg = constIndex[0]
          /\ code[l + 2].op \in Loads /\ code[l + 2].arg = constIndex[1]
      BY <2>2, InstrIs DEF Loads
    <2>4. /\ constIndex[0] \in 1 .. Len(constants) /\ constIndex[1] \in 1 .. Len(constants)
          /\ constIndex[0] < constIndex[1]
      <3>1. l + 1 \in 1 .. Len(code) /\ l + 2 \in 1 .. Len(code) /\ l + 1 < l + 2
        BY <2>1, <2>2
      <3>2. QED
        BY <2>3, <3>1 DEF EmitterInv, CodeInv
    <2>5. Len(constants) - 1 \in Nat /\ constIndex[0] <= Len(constants) - 1
          /\ constIndex[0] \in Nat
      BY <1>1, <1>2, <2>4
    <2>6. (Len(constants) - 1) + 1 = Len(constants)
      BY <1>2
    <2>7. QED
      BY <2>5, <2>6
  <1>4. pool = SubSeq(constants, 1, n) /\ Len(pool) = n
        /\ \A i \in 1 .. n : pool[i] = constants[i]
    BY <1>1, <1>2, <1>3
  <1>5. /\ code' = Append(SubSeq(code, 1, constCodeStart), Instr("Constant", Len(pool) + 1))
        /\ constants' = Append(pool, folded)
    BY DEF FoldConstants, EmitFrom
  <1>6. pool \in Seq(S)
    BY <1>2, <1>3, <1>4
  <1> HIDE DEF pool
  <1>7. constants'[n + 1] = folded /\ \A i \in 1 .. n : constants'[i] = constants[i]
    BY <1>3, <1>4, <1>5, <1>6
  <1>8. PICK x \in Instruction : x = Instr("Constant", n + 1)
    BY <1>3, InstrTyped
  <1>9. x.op = "Constant" /\ x.arg = n + 1 /\ x.op \notin JumpOps
    BY <1>8, InstrIs DEF JumpOps
  <1>10. Run(b)' = Ran(Before(b), Effect(x, constants', Before(b).stack))
    <2>1. \A i \in 1 .. Len(constants) : i < constIndex[0] => constants'[i] = constants[i]
      BY <1>3, <1>7
    <2>2. code' = Append(SubSeq(code, 1, constCodeStart), x)
      BY <1>4, <1>5, <1>8
    <2>3. QED
      BY <1>1, <1>9, <2>1, <2>2, RewoundRun
  <1>11. PICK p : p = Before(b) /\ IsState(p) /\ IsStack(p.stack)
    BY <1>1, WindowRun
  <1>12. Run(b)' = Ran(p, Append(p.stack, folded))
    BY <1>7, <1>9, <1>10, <1>11 DEF Effect
  <1>13. PICK u : u = Append(Append(p.stack, first), second) /\ Run(b) = Ran(p, u)
    BY <1>1, <1>11, WindowRun
  <1>14. CASE p.jump = 0
    <2>1. Run(b).stack = u /\ Run(b).jump = 0 /\ Run(b).target = p.target
      <3>1. PICK r : r = Run(b)
        OBVIOUS
      <3>2. r = Ran(p, u)
        BY <3>1, <1>13
      <3>3. r = VMState(u, p.target, 0)
        BY <3>2, <1>14 DEF Ran
      <3>4. r.stack = u /\ r.jump = 0 /\ r.target = p.target
        BY <3>3, VMStateIs
      <3>5. QED
        BY <3>1, <3>4
    <2>2. After(op, Run(b).stack) = Append(p.stack, folded)
      BY <1>11, <1>13, <2>1, Operated
    <2>3. QED
      BY <1>12, <1>14, <2>1, <2>2 DEF Ran
  <1>15. CASE p.jump # 0
    BY <1>12, <1>13, <1>15, RanIs
  <1>16. QED
    BY <1>14, <1>15

(* AddConst does what Constant and Add would have done. *)
LEMMA FuseRun ==
  ASSUME EmitterInv, HasOperands(2), CanFuse("Add"), FuseAddConst, NEW b \in BOOLEAN
  PROVE  Run(b)' = Ran(Run(b), After("Add", Run(b).stack))
  <1> DEFINE value == constants[constIndex[0]]
  <1>1. Rewriting /\ pendingConsts = 1 /\ IsNumber(value)
    BY DEF Rewriting, CanFuse
  <1>2. constIndex[0] \in Nat
    BY DEF EmitterInv, EmitterTypeOK
  <1>3. PICK x \in Instruction : x = Instr("AddConst", constIndex[0])
    BY <1>2, InstrTyped
  <1>4. x.op = "AddConst" /\ x.arg = constIndex[0] /\ x.op \notin JumpOps
    BY <1>3, InstrIs DEF JumpOps
  <1>5. code' = Append(SubSeq(code, 1, constCodeStart), x) /\ constants' = constants
    BY <1>3 DEF FuseAddConst, EmitFrom
  <1>6. Run(b)' = Ran(Before(b), Effect(x, constants', Before(b).stack))
    BY <1>1, <1>4, <1>5, RewoundRun
  <1>7. PICK p : p = Before(b) /\ IsState(p) /\ IsStack(p.stack)
    BY <1>1, WindowRun
  <1>8. Run(b)' = Ran(p, Append(Dropping(p.stack, 1), Result("Add", LastOf(p.stack), value)))
    BY <1>1, <1>4, <1>5, <1>6, <1>7 DEF Effect
  <1>9. PICK u : u = Append(p.stack, value) /\ Run(b) = Ran(p, u)
    BY <1>1, <1>7, WindowRun
  <1>10. CASE p.jump = 0
    <2>1. Run(b).stack = u /\ Run(b).jump = 0 /\ Run(b).target = p.target
      <3>1. PICK r : r = Run(b)
        OBVIOUS
      <3>2. r = Ran(p, u)
        BY <3>1, <1>9
      <3>3. r = VMState(u, p.target, 0)
        BY <3>2, <1>10 DEF Ran
      <3>4. r.stack = u /\ r.jump = 0 /\ r.target = p.target
        BY <3>3, VMStateIs
      <3>5. QED
        BY <3>1, <3>4
    <2>2. Len(p.stack) # 0
      <3>1. Len(u) = stackDepth
        BY <2>1 DEF EmitterInv, RunInv
      <3>2. stackDepth >= 2
        BY BaseTyped DEF HasOperands, EmitterInv, EmitterTypeOK
      <3>3. Len(Append(p.stack, value)) = Len(p.stack) + 1 /\ Len(p.stack) \in Nat
        BY <1>7, Appended
      <3>4. QED
        BY <1>9, <3>1, <3>2, <3>3
    <2>3. After("Add", Run(b).stack)
            = Append(Dropping(p.stack, 1), Result("Add", LastOf(p.stack), value))
      BY <1>7, <1>9, <2>1, <2>2, Operated DEF Arithmetic
    <2>4. QED
      BY <1>8, <1>10, <2>1, <2>3 DEF Ran
  <1>11. CASE p.jump # 0
    BY <1>8, <1>9, <1>11, RanIs
  <1>12. QED
    BY <1>10, <1>11
-----------------------------------------------------------------------------
LEMMA Joined ==
  ASSUME NEW S, NEW c \in Seq(S), NEW x \in S, NEW y \in S
  PROVE  c \o <<x, y>> = Append(Append(c, x), y)
  <1>1. PICK w : w = <<x, y>>
    OBVIOUS
  <1>2. w \in Seq(S) /\ Len(w) = 2 /\ w[1] = x /\ w[2] = y
    BY <1>1
  <1>3. PICK n \in Nat : n = Len(c)
    OBVIOUS
  <1>4. PICK d : d = c \o w
    OBVIOUS
  <1>5. /\ d \in Seq(S) /\ Len(d) = n + 2
        /\ \A i \in 1 .. n + 2 : d[i] = IF i <= n THEN c[i] ELSE w[i - n]
    <2>1. /\ c \o w \in Seq(S) /\ Len(c \o w) = Len(c) + Len(w)
          /\ \A i \in 1 .. Len(c) + Len(w) :
               (c \o w)[i] = IF i <= Len(c) THEN c[i] ELSE w[i - Len(c)]
      BY <1>2, ConcatProperties
    <2>2. /\ d \in Seq(S) /\ Len(d) = n + Len(w)
          /\ \A i \in 1 .. n + Len(w) : d[i] = IF i <= n THEN c[i] ELSE w[i - n]
      BY <2>1, <1>3, <1>4, Zenon
    <2>3. QED
      BY <1>2, <2>2
  <1>6. d[n + 1] = x /\ d[n + 2] = y /\ \A i \in 1 .. n : d[i] = c[i]
    BY <1>2, <1>3, <1>5
  <1>7. PICK e : e = Append(Append(c, x), y)
    OBVIOUS
  <1>8. /\ e \in Seq(S) /\ Len(e) = n + 2
        /\ e[n + 1] = x /\ e[n + 2] = y /\ \A i \in 1 .. n : e[i] = c[i]
    <2>1. PICK a : a = Append(c, x)
      OBVIOUS
    <2>2. a \in Seq(S) /\ Len(a) = n + 1 /\ a[n + 1] = x /\ \A i \in 1 .. n : a[i] = c[i]
      BY <1>3, <2>1
    <2>3. e = Append(a, y)
      BY <1>7, <2>1
    <2>4. QED
      BY <1>3, <2>2, <2>3
  <1>9. d = e
    BY <1>3, <1>5, <1>6, <1>8
  <1>10. QED
    BY <1>1, <1>4, <1>7, <1>9

(* The code with two instructions more *)
With(x, y) == code' = code \o <<x, y>> /\ constants' = constants

LEMMA TwoMore ==
  ASSUME EmitterInv, NEW x, NEW y, With(x, y), NEW b \in BOOLEAN,
         NEW d, d = code', NEW n, n = Len(code), NEW m, m = n + 1, NEW l, l = m + 1
  PROVE  /\ n \in Nat /\ m \in Nat /\ l \in Nat
         /\ Len(d) = l /\ d[m] = x /\ d[l] = y /\ \A i \in 1 .. n : d[i] = code[i]
         /\ IsCode(code, n) /\ Lands(code, n)
         /\ SamePrefix(code, constants, d, constants, n)
         /\ SamePrefix(d, constants, d, constants, m)
         /\ Run(b) = State(code, constants, b, n)
         /\ Run(b)' = State(d, constants, b, l)
  <1>1. code \in Seq(Instruction) /\ n \in Nat /\ m \in Nat /\ l \in Nat
    BY DEF EmitterInv, EmitterTypeOK
  <1>2. Len(d) = l /\ d[m] = x /\ d[l] = y /\ \A i \in 1 .. n : d[i] = code[i]
    <2>1. PICK S : code \in Seq(S) /\ x \in S /\ y \in S
      <3>1. code \in Seq(Instruction \cup {x, y})
        BY <1>1
      <3>2. QED
        BY <3>1
    <2>2. d = Append(Append(code, x), y)
      BY <2>1, Joined DEF With
    <2>3. PICK a : a = Append(code, x)
      OBVIOUS
    <2>4. a \in Seq(S) /\ Len(a) = m /\ a[m] = x /\ \A i \in 1 .. n : a[i] = code[i]
      BY <1>1, <2>1, <2>3
    <2>5. d = Append(a, y)
      BY <2>2, <2>3
    <2>6. QED
      BY <1>1, <2>1, <2>4, <2>5
  <1>3. IsCode(code, n) /\ Lands(code, n)
        /\ Run(b) = State(code, constants, b, n)
    BY CodeTyped
  <1>4. /\ SamePrefix(code, constants, d, constants, n)
        /\ SamePrefix(d, constants, d, constants, m)
    BY <1>2 DEF SamePrefix
  <1>5. Run(b)' = State(d, constants, b, l)
    <2>1. Run(b)' = Execution(d, constants, b)
      BY DEF Run, With
    <2>2. QED
      BY <1>1, <1>2, <2>1, ExecutionIs
  <1>6. QED
    BY <1>1, <1>2, <1>3, <1>4, <1>5

(* `and`: a falsy left operand skips the right one; else it is dropped. *)
LEMMA BeginAndRun ==
  ASSUME EmitterInv, With(Instr("JumpIfFalse", Unpatched), Instr("Pop", 0)), NEW b \in BOOLEAN, NEW r, r = Run(b)
  PROVE  Run(b)' = IF r.jump = 0
                   THEN IF IsFalsy(LastOf(r.stack), b)
                        THEN VMState(r.stack, r.target, Len(code) + 1)
                        ELSE VMState(Dropping(r.stack, 1), r.target, 0)
                   ELSE r
  <1> DEFINE x == Instr("JumpIfFalse", Unpatched)
             y == Instr("Pop", 0)
  <1> HIDE DEF x, y
  <1>0. With(x, y)
    BY DEF x, y
  <1>1. PICK d : d = code'
    OBVIOUS
  <1>2. PICK n : n = Len(code)
    OBVIOUS
  <1>3. PICK m : m = n + 1
    OBVIOUS
  <1>4. PICK l : l = m + 1
    OBVIOUS
  <1>5. /\ n \in Nat /\ m \in Nat /\ l \in Nat
        /\ Len(d) = l /\ d[m] = x /\ d[l] = y /\ \A i \in 1 .. n : d[i] = code[i]
        /\ IsCode(code, n) /\ Lands(code, n)
        /\ SamePrefix(code, constants, d, constants, n)
        /\ SamePrefix(d, constants, d, constants, m)
        /\ Run(b) = State(code, constants, b, n)
        /\ Run(b)' = State(d, constants, b, l)
    BY <1>0, <1>1, <1>2, <1>3, <1>4, TwoMore
  <1>6. /\ d[m].op = "JumpIfFalse" /\ d[m].arg = Unpatched
        /\ d[l].op = "Pop" /\ d[l].op \in Opcodes \ JumpOps
    BY <1>5, InstrIs DEF Opcodes, Operators, JumpOps, x, y
  <1>7. PICK q : q = State(d, constants, b, m)
    OBVIOUS
  <1>8. q = IF r.jump = 0 /\ IsFalsy(LastOf(r.stack), b)
            THEN VMState(r.stack, r.target, m) ELSE r
    BY <1>3, <1>5, <1>6, <1>7, RanJump
  <1>9. IsCode(d, m) /\ Lands(d, m)
    <2>1. \A i \in 1 .. m : i = m \/ i \in 1 .. n
      BY <1>3, <1>5
    <2>2. IsCode(d, m)
      BY <1>5, <1>6, <2>1, 0 \in Nat DEF IsCode, Opcodes, Unpatched
    <2>3. ASSUME NEW i \in 1 .. m, d[i].op = "JumpIfFalse"
          PROVE  d[i].arg <= m + 1
      <3>1. CASE i = m
        BY <1>5, <1>6, <3>1 DEF Unpatched
      <3>2. CASE i \in 1 .. n
        <4>1. d[i].arg <= n + 1 /\ d[i].arg \in Nat
          BY <1>5, <2>3, <3>2 DEF Lands, IsCode
        <4>2. QED
          BY <1>3, <1>5, <4>1
      <3>3. QED
        BY <2>1, <3>1, <3>2
    <2>4. QED
      BY <2>2, <2>3 DEF Lands
  <1>10. PICK t : t = Run(b)'
    OBVIOUS
  <1>11. t = Ran(q, Effect(d[l], constants, q.stack))
    BY <1>4, <1>5, <1>6, <1>7, <1>9, <1>10, RanOnce
  <1>12. Effect(d[l], constants, q.stack) = Dropping(q.stack, 1)
    BY <1>6 DEF Effect, After, Arithmetic
  <1>13. t = Ran(q, Dropping(q.stack, 1))
    BY <1>11, <1>12
  <1>14. CASE r.jump = 0 /\ IsFalsy(LastOf(r.stack), b)
    <2>1. q = VMState(r.stack, r.target, m)
      BY <1>8, <1>14
    <2>2. q.jump = m /\ m # 0
      BY <1>3, <1>5, <2>1, VMStateIs
    <2>3. t = q
      BY <1>13, <2>2 DEF Ran
    <2>4. QED
      BY <1>2, <1>3, <1>10, <1>14, <2>1, <2>3
  <1>15. CASE ~(r.jump = 0 /\ IsFalsy(LastOf(r.stack), b))
    <2>1. q = r
      BY <1>8, <1>15
    <2>2. t = IF r.jump = 0 THEN VMState(Dropping(r.stack, 1), r.target, 0) ELSE r
      BY <1>13, <2>1 DEF Ran
    <2>3. QED
      BY <1>10, <1>15, <2>2
  <1>16. QED
    BY <1>14, <1>15

(* `break`: nothing is left on the stack, and the execution goes away. *)
LEMMA BreakRun ==
  ASSUME EmitterInv, NEW x \in {Instr("Pop", 0), Instr("PopN", stackDepth)},
         stackDepth > 0, x = Instr("Pop", 0) => stackDepth = 1,
         With(x, Instr("Jump", Unpatched)), NEW b \in BOOLEAN, NEW r, r = Run(b)
  PROVE  Run(b)' = IF r.jump = 0 THEN VMState(<<>>, r.target, Len(code) + 2) ELSE r
  <1> DEFINE y == Instr("Jump", Unpatched)
  <1> HIDE DEF y
  <1>0. With(x, y)
    BY DEF y
  <1>1. PICK d : d = code'
    OBVIOUS
  <1>2. PICK n : n = Len(code)
    OBVIOUS
  <1>3. PICK m : m = n + 1
    OBVIOUS
  <1>4. PICK l : l = m + 1
    OBVIOUS
  <1>5. /\ n \in Nat /\ m \in Nat /\ l \in Nat
        /\ Len(d) = l /\ d[m] = x /\ d[l] = y /\ \A i \in 1 .. n : d[i] = code[i]
        /\ IsCode(code, n) /\ Lands(code, n)
        /\ SamePrefix(code, constants, d, constants, n)
        /\ SamePrefix(d, constants, d, constants, m)
        /\ Run(b) = State(code, constants, b, n)
        /\ Run(b)' = State(d, constants, b, l)
    BY <1>0, <1>1, <1>2, <1>3, <1>4, TwoMore
  <1>6. stackDepth \in Nat
    BY DEF EmitterInv, EmitterTypeOK
  <1>7. /\ d[m].op \in {"Pop", "PopN"} /\ d[m].op \in Opcodes \ JumpOps /\ d[m].arg \in Nat
        /\ d[m].op = "Pop" => stackDepth = 1
        /\ d[m].op = "PopN" => d[m].arg = stackDepth
        /\ d[l].op = "Jump"
    <2>1. CASE x = Instr("Pop", 0)
      BY <1>5, <2>1, InstrIs DEF Opcodes, Operators, JumpOps, y
    <2>2. CASE x = Instr("PopN", stackDepth)
      BY <1>5, <1>6, <2>2, InstrIs DEF Opcodes, Operators, JumpOps, y
    <2>3. QED
      BY <2>1, <2>2
  <1>8. PICK q : q = State(d, constants, b, m)
    OBVIOUS
  <1>9. q = Ran(r, Effect(d[m], constants, r.stack))
    BY <1>3, <1>5, <1>7, <1>8, RanOnce
  <1>10. IsCode(d, m) /\ Lands(d, m)
    <2>1. \A i \in 1 .. m : i = m \/ i \in 1 .. n
      BY <1>3, <1>5
    <2>2. IsCode(d, m)
      BY <1>5, <1>7, <2>1 DEF IsCode
    <2>3. \A i \in 1 .. m : d[i].op = "JumpIfFalse" => i \in 1 .. n /\ d[i].arg \in Nat
      BY <1>7, <2>1, <2>2 DEF IsCode
    <2>4. QED
      <3>1. \A i \in 1 .. n : d[i] = code[i] /\ (code[i].op = "JumpIfFalse" => code[i].arg <= n + 1)
        BY <1>5 DEF Lands
      <3>2. \A i \in 1 .. m : d[i].op = "JumpIfFalse" => d[i].arg <= m + 1
        BY <1>3, <1>5, <2>3, <3>1
      <3>3. QED
        BY <2>2, <3>2 DEF Lands
  <1>11. PICK t : t = Run(b)'
    OBVIOUS
  <1>12. t = IF q.jump = 0 THEN VMState(q.stack, q.target, l) ELSE q
    BY <1>4, <1>5, <1>7, <1>8, <1>10, <1>11, RanJump
  <1>13. CASE r.jump = 0
    <2>1. IsStack(r.stack) /\ Len(r.stack) = stackDepth
      BY <1>13, RunTyped DEF EmitterInv, RunInv
    <2>2. Effect(d[m], constants, r.stack) = <<>>
      <3>1. CASE d[m].op = "Pop"
        <4>1. Effect(d[m], constants, r.stack) = Dropping(r.stack, 1)
          BY <3>1 DEF Effect, After, Arithmetic
        <4>2. QED
          BY <1>7, <2>1, <3>1, <4>1, Dropped
      <3>2. CASE d[m].op = "PopN"
        <4>1. Effect(d[m], constants, r.stack) = Dropping(r.stack, stackDepth)
          BY <1>7, <3>2 DEF Effect
        <4>2. QED
          BY <1>6, <2>1, <4>1, Dropped
      <3>3. QED
        BY <1>7, <3>1, <3>2
    <2>3. q = VMState(<<>>, r.target, 0)
      BY <1>9, <1>13, <2>2 DEF Ran
    <2>4. t = VMState(<<>>, r.target, l)
      BY <1>12, <2>3, VMStateIs
    <2>5. l = Len(code) + 2
      BY <1>2, <1>3, <1>4, <1>5
    <2>6. QED
      BY <1>11, <1>13, <2>4, <2>5
  <1>14. CASE r.jump # 0
    <2>1. q = r
      BY <1>9, <1>14 DEF Ran
    <2>2. QED
      BY <1>11, <1>12, <1>14, <2>1
  <1>15. QED
    BY <1>13, <1>14

(* The jump of the innermost `and` is patched. *)
Patched(j, end) == code' = [code EXCEPT ![j].arg = end]

LEMMA PatchedCode ==
  ASSUME EmitterInv, ands # <<>>, NEW j, j = ands[Len(ands)].jump,
         NEW end, end = Len(code) + 1, Patched(j, end)
  PROVE  /\ j \in 1 .. Len(code) /\ code[j] = Instr("JumpIfFalse", Unpatched)
         /\ end \in Nat /\ Len(code') = Len(code) /\ code' \in Seq(Instruction)
         /\ code'[j] = Instr("JumpIfFalse", end)
         /\ \A i \in 1 .. Len(code) : i # j => code'[i] = code[i]
  <1>1. Len(ands) \in 1 .. Len(ands)
    <2>1. Len(ands) # 0
      BY DEF EmitterInv, EmitterTypeOK
    <2>2. QED
      BY <2>1, AndTyped
  <1>2. j \in 1 .. Len(code) /\ code[j] = Instr("JumpIfFalse", Unpatched)
    BY <1>1 DEF EmitterInv, AndsInv
  <1>3. code \in Seq(Instruction) /\ end \in Nat
    BY DEF EmitterInv, EmitterTypeOK
  <1>4. PICK x : x = [code[j] EXCEPT !.arg = end]
    OBVIOUS
  <1>5. x = Instr("JumpIfFalse", end)
    BY <1>2, <1>4 DEF Instr
  <1>6. x \in Instruction
    BY <1>3, <1>5, InstrTyped
  <1>7. code' = [code EXCEPT ![j] = x]
    BY <1>4 DEF Patched
  <1>8. QED
    BY <1>2, <1>3, <1>5, <1>6, <1>7

LEMMA EndAndRun ==
  ASSUME EmitterInv, ands # <<>>, NEW j, j = ands[Len(ands)].jump,
         NEW end, end = Len(code) + 1, Patched(j, end),
         constants' = constants, NEW b \in BOOLEAN, NEW r, r = Run(b)
  PROVE  Run(b)' = IF r.jump = j THEN VMState(r.stack, end, 0) ELSE r
  <1>1. /\ j \in 1 .. Len(code) /\ code[j] = Instr("JumpIfFalse", Unpatched)
        /\ Len(code') = Len(code) /\ code'[j] = Instr("JumpIfFalse", end)
        /\ \A i \in 1 .. Len(code) : i # j => code'[i] = code[i]
    BY PatchedCode
  <1>2. PICK n \in Nat : n = Len(code)
    BY CodeTyped
  <1>3. PICK d : d = code'
    OBVIOUS
  <1>4. IsCode(code, n) /\ r = State(code, constants, b, n)
    BY <1>2, CodeTyped
  <1>5. State(d, constants, b, n) = Landed(r, j, end)
    <2>1. /\ j \in 1 .. n /\ d[j] = Instr("JumpIfFalse", end) /\ end = n + 1
          /\ \A i \in 1 .. n : i # j => d[i] = code[i]
      BY <1>1, <1>2, <1>3
    <2>2. QED
      BY <1>1, <1>4, <2>1, StatePatched
  <1>6. Run(b)' = State(d, constants, b, n)
    <2>1. Run(b)' = Execution(d, constants, b)
      BY <1>3 DEF Run
    <2>2. Len(d) = n
      BY <1>1, <1>2, <1>3
    <2>3. QED
      BY <2>1, <2>2, ExecutionIs
  <1>7. QED
    BY <1>5, <1>6 DEF Landed
-----------------------------------------------------------------------------
(* Emitting an instruction behind the first n: none of the others is a     *)
(* jump, nor does a jump lead to them.                                     *)
Kept(n) ==
  n \in 0 .. Len(code) /\ Lands(code, n) /\ \A i \in n + 1 .. Len(code) : code[i].op \notin JumpOps

LEMMA KeptAll ==
  ASSUME EmitterInv
  PROVE  Kept(Len(code))
  BY CodeTyped DEF Kept

LEMMA KeptWindow ==
  ASSUME EmitterInv, Rewriting, pendingConsts \in {1, 2}
  PROVE  Kept(constCodeStart)
  <1>1. PICK n \in Nat : n = constCodeStart
    BY DEF EmitterInv, EmitterTypeOK
  <1>2. /\ Len(code) = n + pendingConsts
        /\ code[n + 1] = Instr("Constant", constIndex[0])
        /\ pendingConsts = 2 => code[n + 2] = Instr("Constant", constIndex[1])
        /\ \A i \in 1 .. n : code[i].op = "JumpIfFalse" => code[i].arg <= n + 1
    BY <1>1 DEF EmitterInv, WindowInv
  <1>3. ASSUME NEW i \in n + 1 .. Len(code) PROVE code[i].op \notin JumpOps
    <2>1. i = n + 1 \/ (pendingConsts = 2 /\ i = n + 2)
      <3>1. PICK l : l = Len(code)
        OBVIOUS
      <3>2. i \in n + 1 .. l
        BY <3>1
      <3>3. (pendingConsts = 1 /\ l = n + 1) \/ (pendingConsts = 2 /\ l = n + 2)
        BY <1>2, <3>1
      <3>4. QED
        BY <1>1, <3>2, <3>3
    <2>2. code[i].op = "Constant"
      BY <1>2, <2>1, InstrIs
    <2>3. QED
      BY <2>2 DEF JumpOps
  <1>4. n \in 0 .. Len(code) /\ Lands(code, n)
    BY <1>1, <1>2 DEF Lands
  <1>5. QED
    BY <1>1, <1>3, <1>4 DEF Kept

LEMMA EmitFromCode ==
  ASSUME EmitterInv, NEW n, Kept(n), NEW x \in Instruction, EmitFrom(n, x)
  PROVE  /\ n \in Nat /\ n \in 0 .. Len(code) /\ Len(code) \in Nat
         /\ code' = Append(SubSeq(code, 1, n), x)
         /\ code' \in Seq(Instruction) /\ Len(code') = n + 1 /\ code'[n + 1] = x
         /\ \A i \in 1 .. n : code'[i] = code[i]
         /\ line' = line
  <1>1. code \in Seq(Instruction) /\ n \in Nat /\ n \in 0 .. Len(code)
    BY DEF EmitterInv, EmitterTypeOK, Kept
  <1>2. PICK w : w = SubSeq(code, 1, n)
    OBVIOUS
  <1>3. w \in Seq(Instruction) /\ Len(w) = n /\ \A i \in 1 .. n : w[i] = code[i]
    BY <1>1, <1>2
  <1>4. code' = Append(w, x)
    BY <1>2 DEF EmitFrom
  <1>5. /\ code' \in Seq(Instruction) /\ Len(code') = n + 1 /\ code'[n + 1] = x
        /\ \A i \in 1 .. n : code'[i] = code[i]
    BY <1>1, <1>3, <1>4
  <1>6. QED
    BY <1>1, <1>5 DEF EmitFrom

LEMMA EmitFromLines ==
  ASSUME EmitterInv, NEW n, Kept(n), NEW x \in Instruction, EmitFrom(n, x)
  PROVE  LinesInv' /\ lines' \in Runs /\ Len(lineOf') = Len(code')
  <1>1. /\ code \in Seq(Instruction) /\ lineOf \in Seq(Nat) /\ Len(lineOf) = Len(code)
        /\ lines \in Runs /\ LinesOf(code, lines, lineOf) /\ line \in Nat
        /\ n \in 0 .. Len(code) /\ Len(code) \in Nat
    BY CodeTyped DEF EmitterInv, EmitterTypeOK, LinesInv, Kept
  <1>2. PICK c : c = SubSeq(code, 1, n)
    OBVIOUS
  <1>3. PICK of : of = SubSeq(lineOf, 1, n)
    OBVIOUS
  <1>4. c \in Seq(Instruction) /\ of \in Seq(Nat) /\ Len(c) = n /\ Len(of) = n
    BY <1>1, <1>2, <1>3
  <1>5. PICK runs : runs = Rewound(lines, Offset(code, Len(code) + 1) - Offset(code, n + 1))
    OBVIOUS
  <1>6. LinesOf(c, runs, of)
    BY <1>1, <1>2, <1>3, <1>5, LinesRewound
  <1>7. /\ code' = Append(c, x) /\ lineOf' = Append(of, line)
        /\ lines' = Written(runs, Width(x.op), line)
    BY <1>2, <1>3, <1>5 DEF EmitFrom, Emitted
  <1>8. LinesOf(code', lines', lineOf')
    BY <1>1, <1>4, <1>6, <1>7, LinesAppended
  <1>9. lineOf' \in Seq(Nat) /\ Len(lineOf') = Len(code')
    BY <1>1, <1>4, <1>7
  <1>10. QED
    BY <1>8, <1>9 DEF LinesInv, LinesOf

LEMMA EmitFromPool ==
  ASSUME EmitterInv, NEW n, Kept(n), NEW x \in Instruction, EmitFrom(n, x),
         x.op # "JumpIfFalse",
         constants' \in Seq({constants'[i] : i \in DOMAIN constants'}),
         \A i \in 1 .. n : code[i].op \in Loads => code[i].arg <= Len(constants'),
         x.op \in Loads =>
           /\ x.arg \in 1 .. Len(constants')
           /\ \A i \in 1 .. n : code[i].op \in Loads => code[i].arg < x.arg
  PROVE  CodeInv'
  <1>1. /\ n \in Nat /\ n \in 0 .. Len(code) /\ Len(code) \in Nat
        /\ Len(code') = n + 1 /\ code'[n + 1] = x
        /\ \A i \in 1 .. n : code'[i] = code[i]
    BY EmitFromCode
  <1>2. PICK m : m = n + 1
    OBVIOUS
  <1>3. PICK d : d = code'
    OBVIOUS
  <1>4. PICK l : l = Len(constants')
    OBVIOUS
  <1>5. /\ m \in Nat /\ Len(d) = m /\ d[m] = x /\ \A i \in 1 .. n : d[i] = code[i]
        /\ \A i \in 1 .. m : i = m \/ i \in 1 .. n
    BY <1>1, <1>2, <1>3
  <1>6. l \in Nat
    BY <1>4
  <1>7. ASSUME NEW i \in 1 .. m, d[i].op \in Loads
        PROVE  d[i].arg \in 1 .. l
    <2>1. CASE i = m
      BY <1>4, <1>5, <1>7, <2>1
    <2>2. CASE i \in 1 .. n
      <3>1. i \in 1 .. Len(code) /\ d[i] = code[i]
        BY <1>1, <1>5, <2>2
      <3>2. code[i].arg \in 1 .. Len(constants)
        BY <1>7, <3>1 DEF EmitterInv, CodeInv
      <3>3. code[i].arg <= l
        BY <1>4, <1>7, <2>2, <3>1
      <3>4. code[i].arg \in Nat /\ 1 <= code[i].arg
        BY <3>1, <3>2, CodeTyped, InstructionTyped
      <3>5. QED
        BY <1>6, <3>1, <3>3, <3>4
    <2>3. QED
      BY <1>5, <2>1, <2>2
  <1>8. ASSUME NEW i \in 1 .. m, NEW j \in 1 .. m, i < j, d[i].op \in Loads, d[j].op \in Loads
        PROVE  d[i].arg < d[j].arg
    <2>1. i \in 1 .. n
      BY <1>2, <1>5, <1>8
    <2>2. CASE j = m
      BY <1>5, <1>8, <2>1, <2>2
    <2>3. CASE j \in 1 .. n
      <3>1. i \in 1 .. Len(code) /\ j \in 1 .. Len(code)
        BY <1>1, <2>1, <2>3
      <3>2. QED
        BY <1>5, <1>8, <2>1, <2>3, <3>1 DEF EmitterInv, CodeInv
    <2>4. QED
      BY <1>5, <2>2, <2>3
  <1>9. ASSUME NEW i \in 1 .. m, d[i].op = "JumpIfFalse" PROVE d[i].arg <= m + 1
    <2>1. i \in 1 .. n /\ d[i] = code[i]
      BY <1>5, <1>9
    <2>2. code[i].arg <= n + 1 /\ code[i].arg \in Nat
      <3>1. i \in 1 .. Len(code)
        BY <1>1, <2>1
      <3>2. QED
        BY <1>9, <2>1, <3>1, CodeTyped, InstructionTyped DEF Kept, Lands
    <2>3. QED
      BY <1>1, <1>2, <2>1, <2>2
  <1>10. QED
    BY <1>3, <1>4, <1>5, <1>7, <1>8, <1>9 DEF CodeInv

LEMMA EmitFromAnds ==
  ASSUME EmitterInv, NEW n, Kept(n), NEW x \in Instruction, EmitFrom(n, x), ands' = ands
  PROVE  /\ AndsInv'
         /\ \A i \in 1 .. Len(code) : code[i].op \in JumpOps =>
              i \in 1 .. Len(code') /\ code'[i] = code[i]
  <1>1. /\ n \in Nat /\ n \in 0 .. Len(code) /\ Len(code) \in Nat
        /\ Len(code') = n + 1 /\ \A i \in 1 .. n : code'[i] = code[i]
    BY EmitFromCode
  <1>2. ASSUME NEW i \in 1 .. Len(code), code[i].op \in JumpOps
        PROVE  i \in 1 .. Len(code') /\ code'[i] = code[i]
    <2>1. i \in 1 .. n
      <3>1. i \notin n + 1 .. Len(code)
        BY <1>2 DEF Kept
      <3>2. QED
        BY <1>1, <3>1
    <2>2. QED
      BY <1>1, <2>1
  <1>3. ASSUME NEW m \in 1 .. Len(ands)
        PROVE  ands[m].jump \in 1 .. Len(code')
               /\ code'[ands[m].jump] = Instr("JumpIfFalse", Unpatched)
    <2>1. ands[m].jump \in 1 .. Len(code)
          /\ code[ands[m].jump] = Instr("JumpIfFalse", Unpatched)
      BY DEF EmitterInv, AndsInv
    <2>2. code[ands[m].jump].op \in JumpOps
      BY <2>1, InstrIs DEF JumpOps
    <2>3. QED
      BY <1>2, <2>1, <2>2
  <1>4. AndsInv'
    <2>1. /\ Len(ands) <= AndsMax
          /\ \A l, m \in 1 .. Len(ands) : ands[l].jump = ands[m].jump => l = m
      BY DEF EmitterInv, AndsInv
    <2>2. QED
      BY <1>3, <2>1 DEF AndsInv
  <1>5. QED
    BY <1>2, <1>4

(* Where an execution that jumps from j, with op, goes *)
Aim(op, a, j) ==
  IF j = 0 THEN 0 ELSE IF op = "Jump" THEN AndsMax + 1 ELSE CHOOSE n \in 1 .. Len(a) : a[n].jump = j

LEMMA SkippingIs ==
  /\ Skipping = [b \in BOOLEAN |-> Aim(code[Run(b).jump].op, ands, Run(b).jump)]
  /\ Skipping' = [b \in BOOLEAN |-> Aim(code'[Run(b)'.jump].op, ands', Run(b)'.jump)]
  /\ Stacks = [b \in BOOLEAN |-> Run(b).stack]
  /\ Stacks' = [b \in BOOLEAN |-> Run(b)'.stack]
  BY DEF Skipping, Aim, Stacks

LEMMA SkippedSome ==
  ASSUME EmitterInv, NEW b \in BOOLEAN
  PROVE  /\ Run(b).jump = 0 => Skipping[b] = 0
         /\ Run(b).jump # 0 => Skipping[b] \in 1 .. AndsMax + 1
         /\ \A n \in 1 .. Len(ands) : Skipping[b] = n <=> Run(b).jump = ands[n].jump
  <1>1. PICK r : r = Run(b)
    OBVIOUS
  <1>2. PICK op : op = code[r.jump].op
    OBVIOUS
  <1>3. Skipping[b] = Aim(op, ands, r.jump)
    BY <1>1, <1>2, SkippingIs
  <1>4. \A n \in 1 .. Len(ands) :
          ands[n].jump # 0 /\ code[ands[n].jump].op = "JumpIfFalse"
    BY CodeTyped, InstrIs DEF EmitterInv, AndsInv
  <1>5. Len(ands) \in 0 .. AndsMax /\ AndsMax \in Nat
    BY AndTyped, BoundsAssumption DEF EmitterInv, AndsInv
  <1>6. CASE r.jump = 0
    BY <1>1, <1>3, <1>4, <1>5, <1>6 DEF Aim
  <1>7. CASE r.jump # 0 /\ op = "Jump"
    <2>1. Skipping[b] = AndsMax + 1
      BY <1>3, <1>7 DEF Aim
    <2>2. \A n \in 1 .. Len(ands) : r.jump # ands[n].jump
      BY <1>2, <1>4, <1>7
    <2>3. QED
      BY <1>1, <1>5, <1>7, <2>1, <2>2
  <1>8. CASE r.jump # 0 /\ op # "Jump"
    <2>1. PICK n \in 1 .. Len(ands) : ands[n].jump = r.jump
      BY <1>1, <1>2, <1>8 DEF EmitterInv, RunInv
    <2>2. PICK m : m = (CHOOSE i \in 1 .. Len(ands) : ands[i].jump = r.jump)
      OBVIOUS
    <2>3. m \in 1 .. Len(ands) /\ ands[m].jump = r.jump
      BY <2>1, <2>2
    <2>4. Skipping[b] = m
      BY <1>3, <1>8, <2>2 DEF Aim
    <2>5. \A i \in 1 .. Len(ands) : ands[i].jump = r.jump => i = m
      BY <2>3 DEF EmitterInv, AndsInv
    <2>6. QED
      BY <1>1, <1>5, <1>8, <2>3, <2>4, <2>5
  <1>9. QED
    BY <1>6, <1>7, <1>8

(* What the depth and the refinement need of a run: the execution goes on  *)
(* with a stack e[b], if it does.                                          *)
GoesOn(e) ==
  \A b \in BOOLEAN : /\ Run(b)' = Ran(Run(b), e[b])
                     /\ Run(b).jump = 0 => Len(e[b]) = stackDepth'

JumpsStay ==
  \A i \in 1 .. Len(code) : code[i].op \in JumpOps => i \in 1 .. Len(code') /\ code'[i] = code[i]

LEMMA GoneOn ==
  ASSUME EmitterInv, NEW e, GoesOn(e), JumpsStay, ands' = ands
  PROVE  /\ RunInv'
         /\ Skipping' = Skipping
         /\ Stacks' = [b \in BOOLEAN |-> IF Skipping[b] = 0 THEN e[b] ELSE Stacks[b]]
  <1>1. ASSUME NEW b \in BOOLEAN
        PROVE  /\ Run(b)'.jump = Run(b).jump
               /\ Run(b).jump # 0 => Run(b)' = Run(b)
               /\ Run(b).jump = 0 => Run(b)'.stack = e[b]
    <2>1. PICK r : r = Run(b)
      OBVIOUS
    <2>2. PICK t : t = Run(b)'
      OBVIOUS
    <2>3. PICK v : v = e[b]
      OBVIOUS
    <2>4. t = Ran(r, v)
      BY <2>1, <2>2, <2>3 DEF GoesOn
    <2>5. t.jump = r.jump /\ (r.jump # 0 => t = r) /\ (r.jump = 0 => t.stack = v)
      BY <2>4, VMStateIs DEF Ran
    <2>6. QED
      BY <2>1, <2>2, <2>3, <2>5
  <1>2. ASSUME NEW b \in BOOLEAN, Run(b).jump # 0
        PROVE  code'[Run(b).jump] = code[Run(b).jump]
    BY <1>2, RunTyped DEF JumpsStay
  <1>3. RunInv'
    <2>1. ASSUME NEW b \in BOOLEAN
          PROVE  /\ Run(b)'.jump = 0 => Len(Run(b)'.stack) = stackDepth'
                 /\ Run(b)'.jump # 0 =>
                      \/ code'[Run(b)'.jump].op = "Jump"
                      \/ \E n \in 1 .. Len(ands') :
                           ands'[n].jump = Run(b)'.jump
                           /\ Len(Run(b)'.stack) = ands'[n].base + 1
      <3>1. CASE Run(b).jump = 0
        BY <1>1, <3>1 DEF GoesOn
      <3>2. CASE Run(b).jump # 0
        BY <1>1, <1>2, <3>2 DEF EmitterInv, RunInv
      <3>3. QED
        BY <3>1, <3>2
    <2>2. QED
      BY <2>1 DEF RunInv
  <1>4. ASSUME NEW b \in BOOLEAN
        PROVE  Aim(code'[Run(b)'.jump].op, ands', Run(b)'.jump)
                 = Aim(code[Run(b).jump].op, ands, Run(b).jump)
    <2>1. CASE Run(b).jump = 0
      BY <1>1, <2>1 DEF Aim
    <2>2. CASE Run(b).jump # 0
      BY <1>1, <1>2, <2>2
    <2>3. QED
      BY <2>1, <2>2
  <1>5. Skipping' = Skipping
    BY <1>4, SkippingIs
  <1>6. ASSUME NEW b \in BOOLEAN
        PROVE  Stacks'[b] = IF Skipping[b] = 0 THEN e[b] ELSE Stacks[b]
    <2>1. CASE Run(b).jump = 0
      BY <1>1, <2>1, SkippingIs DEF Aim
    <2>2. CASE Run(b).jump # 0
      BY <1>1, <2>2, SkippingIs, SkippedSome
    <2>3. QED
      BY <2>1, <2>2
  <1>7. QED
    BY <1>3, <1>5, <1>6, SkippingIs
-----------------------------------------------------------------------------
(* What is common to the actions that emit one instruction: all but the    *)
(* window and the depth.                                                   *)
PoolFits(n, x) ==
  /\ constants' \in Seq({constants'[i] : i \in DOMAIN constants'})
  /\ \A i \in 1 .. n : code[i].op \in Loads => code[i].arg <= Len(constants')
  /\ x.op \in Loads =>
       /\ x.arg \in 1 .. Len(constants')
       /\ \A i \in 1 .. n : code[i].op \in Loads => code[i].arg < x.arg

(* The executions go on with the stacks e, and jumps go where they went. *)
Leaves(e) ==
  /\ Skipping' = Skipping
  /\ Stacks' = [b \in BOOLEAN |-> IF Skipping[b] = 0 THEN e[b] ELSE Stacks[b]]

Fits ==
  /\ Len(code') <= CodeMax /\ Len(constants') <= PoolMax
  /\ pendingConsts' \in 0 .. 2 /\ constIndex' \in [0 .. 1 -> Nat] /\ constCodeStart' \in Nat
  /\ stackDepth' \in Nat

LEMMA EmittedOne ==
  ASSUME EmitterInv, NEW n, Kept(n), NEW x \in Instruction, x.op \notin JumpOps,
         EmitFrom(n, x), PoolFits(n, x), ands' = ands, Fits, WindowInv', NEW e, GoesOn(e)
  PROVE  EmitterInv' /\ Leaves(e)
  <1>1. CodeInv'
    BY EmitFromPool DEF PoolFits, JumpOps
  <1>2. AndsInv' /\ JumpsStay
    BY EmitFromAnds DEF JumpsStay
  <1>3. RunInv' /\ Leaves(e)
    BY <1>2, GoneOn DEF Leaves
  <1>4. LinesInv' /\ lines' \in Runs /\ Len(lineOf') = Len(code')
    BY EmitFromLines
  <1>5. code' \in Seq(Instruction) /\ line' = line
    BY EmitFromCode
  <1>6. EmitterTypeOK'
    BY <1>4, <1>5 DEF Fits, EmitterInv, EmitterTypeOK
  <1>7. QED
    BY <1>1, <1>2, <1>3, <1>4, <1>6 DEF EmitterInv

LEMMA SamePool ==
  ASSUME EmitterInv, NEW n, Kept(n), NEW x, x.op \notin Loads, constants' = constants
  PROVE  PoolFits(n, x)
  <1>1. \A i \in 1 .. n : i \in 1 .. Len(code)
    BY CodeTyped DEF Kept
  <1>2. \A i \in 1 .. n : code[i].op \in Loads =>
          code[i].arg <= Len(constants)
    BY <1>1 DEF EmitterInv, CodeInv
  <1>3. QED
    BY <1>2 DEF PoolFits, EmitterInv, CodeInv

LEMMA EmitIs ==
  ASSUME EmitterInv, NEW x \in Instruction, Emit(x)
  PROVE  EmitFrom(Len(code), x) /\ code' = Append(code, x) /\ Len(code') = Len(code) + 1
  <1>1. EmitFrom(Len(code), x)
    BY DEF Emit
  <1>2. code \in Seq(Instruction)
    BY DEF EmitterInv, EmitterTypeOK
  <1>3. SubSeq(code, 1, Len(code)) = code
    BY <1>2
  <1>4. code' = Append(code, x) /\ Len(code') = Len(code) + 1
    BY <1>1, <1>3, EmitFromCode, KeptAll
  <1>5. QED
    BY <1>1, <1>4

(* emitConstant *)
LEMMA EmitConstantStep ==
  ASSUME EmitterInv, NEW v, EmitConstant(v)
  PROVE  EmitterInv' /\ Leaves([b \in BOOLEAN |-> Append(Run(b).stack, v)])
  <1>1. PICK k : k = Len(constants) + 1
    OBVIOUS
  <1>2. PICK S : constants \in Seq(S)
    BY DEF EmitterInv, CodeInv
  <1>3. /\ Len(constants) \in Nat /\ k \in Nat /\ constants' = Append(constants, v)
        /\ Len(constants') = k /\ constants'[k] = v /\ constants' \in Seq(S \cup {v})
        /\ \A i \in 1 .. Len(constants) : constants'[i] = constants[i]
    BY <1>1, <1>2 DEF EmitConstant
  <1>4. PICK x \in Instruction : x = Instr("Constant", k)
    BY <1>3, InstrTyped
  <1>5. x.op = "Constant" /\ x.arg = k /\ x.op \notin JumpOps /\ x.op \in Loads
    BY <1>4, InstrIs DEF JumpOps, Loads
  <1>6. PICK n : n = Len(code)
    OBVIOUS
  <1>7. /\ EmitFrom(n, x) /\ Kept(n) /\ code' = Append(code, x) /\ Len(code') = n + 1
        /\ n \in Nat /\ code'[n + 1] = x /\ \A i \in 1 .. n : code'[i] = code[i]
    <2>1. Emit(x)
      BY <1>3, <1>4 DEF EmitConstant
    <2>2. EmitFrom(n, x) /\ Kept(n) /\ code' = Append(code, x)
      BY <1>6, <2>1, EmitIs, KeptAll
    <2>3. QED
      BY <2>2, EmitFromCode
  <1>8. PoolFits(n, x)
    <2>1. constants' \in Seq({constants'[i] : i \in DOMAIN constants'})
      BY <1>3
    <2>2. \A i \in 1 .. n : code[i].op \in Loads =>
            code[i].arg \in 1 .. Len(constants)
      BY <1>6 DEF EmitterInv, CodeInv
    <2>3. \A i \in 1 .. Len(constants) : i < k
      BY <1>1, <1>3
    <2>4. QED
      BY <1>1, <1>3, <1>5, <2>1, <2>2, <2>3 DEF PoolFits
  <1>9. stackDepth \in Nat /\ stackDepth' = stackDepth + 1
    BY DEF EmitConstant, EmitterInv, EmitterTypeOK
  <1>10. PICK e : e = [b \in BOOLEAN |-> Append(Run(b).stack, v)]
    OBVIOUS
  <1>11. GoesOn(e)
    <2>1. ASSUME NEW b \in BOOLEAN
          PROVE  /\ Run(b)' = Ran(Run(b), e[b])
                 /\ Run(b).jump = 0 => Len(e[b]) = stackDepth'
      <3>1. Run(b)' = Ran(Run(b), Effect(x, constants', Run(b).stack))
        BY <1>3, <1>5, <1>7, EmittedRun
      <3>2. Effect(x, constants', Run(b).stack) = e[b]
        BY <1>3, <1>5, <1>10 DEF Effect
      <3>3. Run(b).jump = 0 => Len(Run(b).stack) = stackDepth
        BY DEF EmitterInv, RunInv
      <3>4. Len(e[b]) = Len(Run(b).stack) + 1
        BY <1>10, RunTyped, Appended
      <3>5. QED
        BY <1>9, <3>1, <3>2, <3>3, <3>4
    <2>2. QED
      BY <2>1 DEF GoesOn
  <1>12. SlideWindow(n, k) /\ ands' = ands /\ n + 1 <= CodeMax /\ k <= PoolMax
    BY <1>1, <1>2, <1>3, <1>6, BoundsAssumption DEF EmitConstant, HasRoomFor
  <1>13. /\ pendingConsts \in 0 .. 2 /\ constIndex \in [0 .. 1 -> Nat] /\ constCodeStart \in Nat
    BY DEF EmitterInv, EmitterTypeOK
  <1>14. Fits
    BY <1>3, <1>7, <1>9, <1>12, <1>13 DEF Fits, SlideWindow
  <1>15. ASSUME Rewriting PROVE WindowInv'
    <2>1. CASE pendingConsts = 1
      <3>1. PICK s \in Nat : s = constCodeStart
        BY <1>13
      <3>2. /\ n = s + 1 /\ code[s + 1] = Instr("Constant", constIndex[0])
            /\ \A i \in 1 .. s : code[i].op = "JumpIfFalse" => code[i].arg <= s + 1
        BY <1>6, <1>15, <2>1, <3>1 DEF EmitterInv, WindowInv
      <3>3. /\ pendingConsts' = 2 /\ constCodeStart' = s
            /\ constIndex'[0] = constIndex[0] /\ constIndex'[1] = k
        BY <1>12, <1>13, <2>1, <3>1 DEF SlideWindow
      <3>4. /\ Len(code') = s + 2 /\ code'[s + 1] = Instr("Constant", constIndex'[0])
            /\ code'[s + 2] = Instr("Constant", k)
            /\ \A i \in 1 .. s : code'[i] = code[i]
        BY <1>4, <1>7, <3>1, <3>2, <3>3
      <3>5. QED
        BY <1>3, <3>2, <3>3, <3>4 DEF WindowInv
    <2>2. CASE pendingConsts # 1
      <3>1. /\ pendingConsts' = 1 /\ constCodeStart' = n /\ constIndex'[0] = k
        BY <1>12, <1>13, <2>2 DEF SlideWindow
      <3>2. \A i \in 1 .. n : code'[i].op = "JumpIfFalse" => code'[i].arg <= n + 1
        BY <1>6, <1>7 DEF EmitterInv, CodeInv
      <3>3. QED
        BY <1>3, <1>4, <1>7, <3>1, <3>2 DEF WindowInv
    <2>3. QED
      BY <2>1, <2>2
  <1>16. WindowInv'
    BY <1>15 DEF WindowInv, Rewriting
  <1>17. QED
    BY <1>5, <1>7, <1>8, <1>10, <1>11, <1>12, <1>14, <1>16, EmittedOne

(* An instruction that closes the window, or finds it closed, or in a      *)
(* build that does not use it                                              *)
LEMMA ClosingStep ==
  ASSUME EmitterInv, NEW x \in Instruction, x.op \notin JumpOps, x.op \notin Loads,
         Emit(x), HasRoomFor(1), constants' = constants, ands' = ands,
         pendingConsts' \in 0 .. 2, Rewriting => pendingConsts' = 0,
         constIndex' = constIndex, constCodeStart' = constCodeStart, stackDepth' \in Nat, NEW e,
         \A b \in BOOLEAN : /\ e[b] = Effect(x, constants, Run(b).stack)
                            /\ Run(b).jump = 0 => Len(e[b]) = stackDepth'
  PROVE  EmitterInv' /\ Leaves(e)
  <1>1. PICK n : n = Len(code)
    OBVIOUS
  <1>2. EmitFrom(n, x) /\ code' = Append(code, x) /\ Len(code') = n + 1 /\ Kept(n)
    BY <1>1, EmitIs, KeptAll
  <1>3. PoolFits(n, x)
    BY <1>2, SamePool
  <1>4. Fits
    BY <1>1, <1>2 DEF Fits, EmitterInv, EmitterTypeOK, HasRoomFor
  <1>5. WindowInv'
    BY DEF WindowInv, Rewriting
  <1>6. GoesOn(e)
    <2>1. ASSUME NEW b \in BOOLEAN PROVE Run(b)' = Ran(Run(b), e[b])
      <3>1. Run(b)' = Ran(Run(b), Effect(x, constants', Run(b).stack))
        BY <1>2, EmittedRun
      <3>2. QED
        BY <3>1
    <2>2. QED
      BY <2>1 DEF GoesOn
  <1>7. QED
    BY <1>2, <1>3, <1>4, <1>5, <1>6, EmittedOne

LEMMA LocalStep ==
  ASSUME EmitterInv, EmitLocal
  PROVE  EmitterInv' /\ Leaves([b \in BOOLEAN |-> Append(Run(b).stack, X)])
  <1>1. PICK x \in Instruction : x = Instr("GetLocal", 0)
    BY InstrTyped
  <1>2. x.op = "GetLocal" /\ x.op \notin JumpOps /\ x.op \notin Loads
    BY <1>1, InstrIs DEF JumpOps, Loads
  <1>3. PICK e : e = [b \in BOOLEAN |-> Append(Run(b).stack, X)]
    OBVIOUS
  <1>4. stackDepth \in Nat /\ stackDepth' = stackDepth + 1
    BY DEF EmitLocal, EmitterInv, EmitterTypeOK
  <1>5. ASSUME NEW b \in BOOLEAN
        PROVE  /\ e[b] = Effect(x, constants, Run(b).stack)
               /\ Run(b).jump = 0 => Len(e[b]) = stackDepth'
    <2>1. e[b] = Effect(x, constants, Run(b).stack)
      BY <1>2, <1>3 DEF Effect
    <2>2. Len(e[b]) = Len(Run(b).stack) + 1
      BY <1>3, RunTyped, Appended
    <2>3. QED
      BY <1>4, <2>1, <2>2 DEF EmitterInv, RunInv
  <1>6. Emit(x) /\ HasRoomFor(1) /\ constants' = constants /\ ands' = ands
        /\ pendingConsts' = 0 /\ constIndex' = constIndex /\ constCodeStart' = constCodeStart
    BY <1>1 DEF EmitLocal
  <1>7. EmitterInv' /\ Leaves(e)
    BY <1>2, <1>4, <1>5, <1>6, ClosingStep
  <1>8. QED
    BY <1>3, <1>7

(* The height of a stack after an operator *)
Gain(op) == IF op = "Negate" THEN 0 ELSE -1

LEMMA AfterLength ==
  ASSUME NEW s, IsStack(s), NEW op \in Operators, Len(s) >= Operands(op)
  PROVE  Len(After(op, s)) = Len(s) + Gain(op)
  <1>1. PICK n \in Nat : n = Len(s)
    BY Dropped, Appended
  <1>2. CASE op \in Arithmetic \cup {"Call"}
    <2>1. n >= 2 /\ Gain(op) = -1
      BY <1>1, <1>2 DEF Operands, Gain, Arithmetic
    <2>2. PICK t : t = Dropping(s, 2)
      OBVIOUS
    <2>3. IsStack(t) /\ Len(t) = n - 2
      BY <1>1, <2>1, <2>2, Dropped
    <2>4. \E v : After(op, s) = Append(t, v)
      <3>1. CASE op \in Arithmetic
        BY <2>2, <3>1 DEF After, Arithmetic
      <3>2. CASE op = "Call"
        BY <2>2, <3>2 DEF After, Arithmetic
      <3>3. QED
        BY <1>2, <3>1, <3>2
    <2>5. PICK v : After(op, s) = Append(t, v)
      BY <2>4
    <2>6. Len(Append(t, v)) = Len(t) + 1
      BY <2>3, Appended
    <2>7. QED
      BY <1>1, <2>1, <2>3, <2>5, <2>6
  <1>3. CASE op = "Negate"
    <2>1. n >= 1
      BY <1>1, <1>3 DEF Operands, Arithmetic
    <2>2. PICK t : t = Dropping(s, 1)
      OBVIOUS
    <2>3. IsStack(t) /\ Len(t) = n - 1
      BY <1>1, <2>1, <2>2, Dropped
    <2>4. After(op, s) = Append(t, Negated(LastOf(s)))
      BY <1>3, <2>2 DEF After, Arithmetic
    <2>5. Len(Append(t, Negated(LastOf(s)))) = Len(t) + 1
      BY <2>3, Appended
    <2>6. QED
      BY <1>1, <1>3, <2>3, <2>4, <2>5 DEF Gain
  <1>4. CASE op = "Pop"
    <2>1. n >= 1
      BY <1>1, <1>4 DEF Operands, Arithmetic
    <2>2. After(op, s) = Dropping(s, 1)
      BY <1>4 DEF After, Arithmetic
    <2>3. QED
      BY <1>1, <1>4, <2>1, <2>2, Dropped DEF Gain
  <1>5. QED
    BY <1>2, <1>3, <1>4 DEF Operators

(* Every execution that goes on has the operands. *)
LEMMA OperandsThere ==
  ASSUME EmitterInv, NEW k \in Nat, HasOperands(k)
  PROVE  /\ stackDepth \in Nat /\ stackDepth >= k
         /\ \A b \in BOOLEAN : Run(b).jump = 0 => Len(Run(b).stack) = stackDepth
  BY BaseTyped DEF HasOperands, EmitterInv, EmitterTypeOK, RunInv

LEMMA OperatorStep ==
  ASSUME EmitterInv, NEW op \in Operators, HasOperands(Operands(op)), HasRoomFor(1),
         Emit(Instr(op, 0)), constants' = constants, ands' = ands,
         pendingConsts' \in 0 .. 2, Rewriting => pendingConsts' = 0,
         constIndex' = constIndex, constCodeStart' = constCodeStart,
         stackDepth' = stackDepth + Gain(op)
  PROVE  EmitterInv' /\ Leaves([b \in BOOLEAN |-> After(op, Run(b).stack)])
  <1>1. PICK x \in Instruction : x = Instr(op, 0)
    BY InstrTyped
  <1>2. x.op = op /\ x.op \notin JumpOps /\ x.op \notin Loads /\ x.op \notin {"GetLocal", "PopN"}
    BY <1>1, InstrIs DEF JumpOps, Loads, Operators, Arithmetic
  <1>3. PICK e : e = [b \in BOOLEAN |-> After(op, Run(b).stack)]
    OBVIOUS
  <1>4. Operands(op) \in Nat /\ Operands(op) >= 1 /\ Gain(op) \in {0, -1}
    BY DEF Operands, Gain
  <1>5. /\ stackDepth \in Nat /\ stackDepth >= Operands(op)
        /\ \A b \in BOOLEAN : Run(b).jump = 0 => Len(Run(b).stack) = stackDepth
    BY <1>4, OperandsThere
  <1>6. stackDepth' \in Nat
    BY <1>4, <1>5
  <1>7. ASSUME NEW b \in BOOLEAN
        PROVE  /\ e[b] = Effect(x, constants, Run(b).stack)
               /\ Run(b).jump = 0 => Len(e[b]) = stackDepth'
    <2>1. e[b] = Effect(x, constants, Run(b).stack)
      BY <1>2, <1>3 DEF Effect, Loads
    <2>2. ASSUME Run(b).jump = 0 PROVE Len(e[b]) = stackDepth'
      <3>1. IsStack(Run(b).stack) /\ Len(Run(b).stack) = stackDepth
        BY <1>5, <2>2, RunTyped
      <3>2. PICK s : s = Run(b).stack
        OBVIOUS
      <3>3. Len(After(op, s)) = Len(s) + Gain(op)
        BY <1>5, <3>1, <3>2, AfterLength
      <3>4. QED
        BY <1>3, <3>1, <3>2, <3>3
    <2>3. QED
      BY <2>1, <2>2
  <1>8. Emit(x)
    BY <1>1
  <1>9. EmitterInv' /\ Leaves(e)
    BY <1>2, <1>6, <1>7, <1>8, ClosingStep
  <1>10. QED
    BY <1>3, <1>9

(* tryFold: with the last two constants goes what was pushed of them. *)
LEMMA FoldStep ==
  ASSUME EmitterInv, NEW op \in Arithmetic, HasOperands(2), CanFold(op), FoldConstants(op),
         ands' = ands
  PROVE  EmitterInv' /\ Leaves([b \in BOOLEAN |-> After(op, Run(b).stack)])
  <1> DEFINE pool == IF constIndex[1] = Len(constants)
                     THEN SubSeq(constants, 1, Len(constants) - 1) ELSE constants
             folded == Result(op, constants[constIndex[0]], constants[constIndex[1]])
  <1>1. Rewriting /\ pendingConsts = 2 /\ constIndex[1] = Len(constants)
    BY DEF Rewriting, CanFold, EmitterInv, WindowInv
  <1>2. PICK S : constants \in Seq(S)
    BY DEF EmitterInv, CodeInv
  <1>3. PICK n \in Nat : n = constCodeStart
    BY DEF EmitterInv, EmitterTypeOK
  <1>4. /\ Len(code) = n + 2
        /\ code[n + 1] = Instr("Constant", constIndex[0])
        /\ code[n + 2] = Instr("Constant", constIndex[1])
        /\ \A i \in 1 .. n : code[i].op = "JumpIfFalse" => code[i].arg <= n + 1
    BY <1>1, <1>3 DEF EmitterInv, WindowInv
  <1>5. constIndex[0] \in 1 .. Len(constants) /\ constIndex[1] \in 1 .. Len(constants)
        /\ constIndex[0] < constIndex[1]
    <2>1. /\ code[n + 1].op \in Loads /\ code[n + 1].arg = constIndex[0]
          /\ code[n + 2].op \in Loads /\ code[n + 2].arg = constIndex[1]
      BY <1>4, InstrIs DEF Loads
    <2>2. n + 1 \in 1 .. Len(code) /\ n + 2 \in 1 .. Len(code) /\ n + 1 < n + 2
      BY <1>3, <1>4
    <2>3. QED
      BY <2>1, <2>2 DEF EmitterInv, CodeInv
  <1>6. PICK k \in Nat : k + 1 = Len(constants)
    <2>1. Len(constants) - 1 \in Nat /\ (Len(constants) - 1) + 1 = Len(constants)
      BY <1>2, <1>5
    <2>2. QED
      BY <2>1
  <1>7. /\ pool = SubSeq(constants, 1, k) /\ Len(pool) = k /\ pool \in Seq(S)
        /\ constIndex[0] <= k
    BY <1>1, <1>2, <1>5, <1>6
  <1>8. /\ EmitFrom(n, Instr("Constant", Len(pool) + 1)) /\ constants' = Append(pool, folded)
        /\ pendingConsts' = 1 /\ constIndex' = [constIndex EXCEPT ![0] = Len(pool) + 1]
        /\ constCodeStart' = constCodeStart /\ stackDepth' = stackDepth - 2 + 1
    BY <1>3 DEF FoldConstants
  <1> HIDE DEF pool, folded
  <1>9. PICK l : l = k + 1
    OBVIOUS
  <1>10. /\ l \in Nat /\ Len(constants') = l /\ constants' \in Seq(S \cup {folded})
         /\ l = Len(constants)
    BY <1>6, <1>7, <1>8, <1>9
  <1>11. PICK x \in Instruction : x = Instr("Constant", l)
    BY <1>10, InstrTyped
  <1>12. /\ x.op = "Constant" /\ x.arg = l /\ x.op \notin JumpOps /\ x.op \in Loads
         /\ EmitFrom(n, x)
    BY <1>7, <1>8, <1>9, <1>11, InstrIs DEF JumpOps, Loads
  <1>13. Kept(n)
    BY <1>1, <1>3, KeptWindow
  <1>14. /\ Len(code') = n + 1 /\ code'[n + 1] = x /\ \A i \in 1 .. n : code'[i] = code[i]
    BY <1>12, <1>13, EmitFromCode
  <1>15. PoolFits(n, x)
    <2>1. constants' \in Seq({constants'[i] : i \in DOMAIN constants'})
      BY <1>10
    <2>2. ASSUME NEW i \in 1 .. n, code[i].op \in Loads PROVE code[i].arg < l
      <3>1. code[n + 2].op \in Loads /\ code[n + 2].arg = l
        BY <1>1, <1>4, <1>10, InstrIs DEF Loads
      <3>2. i \in 1 .. Len(code) /\ n + 2 \in 1 .. Len(code) /\ i < n + 2
        BY <1>3, <1>4
      <3>3. QED
        BY <2>2, <3>1, <3>2 DEF EmitterInv, CodeInv
    <2>3. \A i \in 1 .. n : code[i].arg \in Nat
      <3>1. \A i \in 1 .. n : i \in 1 .. Len(code)
        BY <1>3, <1>4
      <3>2. QED
        BY <3>1, CodeTyped, InstructionTyped
    <2>4. \A i \in 1 .. n : code[i].op \in Loads => code[i].arg <= l
      BY <1>10, <2>2, <2>3
    <2>5. l \in 1 .. l
      BY <1>6, <1>9
    <2>6. QED
      BY <1>10, <1>12, <2>1, <2>2, <2>4, <2>5 DEF PoolFits
  <1>16. stackDepth \in Nat /\ stackDepth >= 2
         /\ \A b \in BOOLEAN : Run(b).jump = 0 => Len(Run(b).stack) = stackDepth
    BY OperandsThere
  <1>17. Fits
    <2>1. Len(code') <= CodeMax
      BY <1>3, <1>4, <1>14, BoundsAssumption DEF EmitterInv, EmitterTypeOK
    <2>2. Len(constants') <= PoolMax
      BY <1>10 DEF EmitterInv, EmitterTypeOK
    <2>3. constIndex' \in [0 .. 1 -> Nat]
      BY <1>7, <1>8, <1>9, <1>10 DEF EmitterInv, EmitterTypeOK
    <2>4. QED
      BY <1>3, <1>8, <1>16, <2>1, <2>2, <2>3 DEF Fits
  <1>18. WindowInv'
    <2>1. constIndex'[0] = l
      BY <1>7, <1>8, <1>9 DEF EmitterInv, EmitterTypeOK
    <2>2. \A i \in 1 .. n : code'[i].op = "JumpIfFalse" => code'[i].arg <= n + 1
      BY <1>4, <1>14
    <2>3. pendingConsts' = 1 /\ constCodeStart' = n
      BY <1>3, <1>8
    <2>4. QED
      BY <1>10, <1>11, <1>14, <2>1, <2>2, <2>3 DEF WindowInv
  <1>19. PICK e : e = [b \in BOOLEAN |-> After(op, Run(b).stack)]
    OBVIOUS
  <1>20. GoesOn(e)
    <2>1. ASSUME NEW b \in BOOLEAN
          PROVE  /\ Run(b)' = Ran(Run(b), e[b])
                 /\ Run(b).jump = 0 => Len(e[b]) = stackDepth'
      <3>1. Run(b)' = Ran(Run(b), e[b])
        BY <1>19, FoldRun
      <3>2. ASSUME Run(b).jump = 0 PROVE Len(e[b]) = stackDepth'
        <4>1. PICK s : s = Run(b).stack
          OBVIOUS
        <4>2. IsStack(s) /\ Len(s) = stackDepth
          BY <1>16, <3>2, <4>1, RunTyped
        <4>3. Operands(op) = 2 /\ Gain(op) = -1 /\ op \in Operators
          BY DEF Operands, Gain, Operators, Arithmetic
        <4>4. Len(After(op, s)) = stackDepth - 1
          BY <1>16, <4>2, <4>3, AfterLength
        <4>5. QED
          BY <1>8, <1>16, <1>19, <4>1, <4>4
      <3>3. QED
        BY <3>1, <3>2
    <2>2. QED
      BY <2>1 DEF GoesOn
  <1>21. QED
    BY <1>12, <1>13, <1>15, <1>17, <1>18, <1>19, <1>20, EmittedOne

(* tryFuseAddConst *)
LEMMA FuseStep ==
  ASSUME EmitterInv, HasOperands(2), CanFuse("Add"), FuseAddConst, ands' = ands
  PROVE  EmitterInv' /\ Leaves([b \in BOOLEAN |-> After("Add", Run(b).stack)])
  <1>1. Rewriting /\ pendingConsts = 1 /\ constIndex[0] = Len(constants)
    BY DEF Rewriting, CanFuse, EmitterInv, WindowInv
  <1>2. PICK n \in Nat : n = constCodeStart
    BY DEF EmitterInv, EmitterTypeOK
  <1>3. Len(code) = n + 1 /\ code[n + 1] = Instr("Constant", constIndex[0])
    BY <1>1, <1>2 DEF EmitterInv, WindowInv
  <1>4. constIndex[0] \in Nat
    BY DEF EmitterInv, EmitterTypeOK
  <1>5. PICK x \in Instruction : x = Instr("AddConst", constIndex[0])
    BY <1>4, InstrTyped
  <1>6. /\ x.op = "AddConst" /\ x.arg = constIndex[0] /\ x.op \notin JumpOps /\ x.op \in Loads
    BY <1>5, InstrIs DEF JumpOps, Loads
  <1>7. /\ EmitFrom(n, x) /\ constants' = constants /\ pendingConsts' = 0
        /\ constIndex' = constIndex /\ constCodeStart' = constCodeStart
        /\ stackDepth' = stackDepth - 1
    BY <1>2, <1>5 DEF FuseAddConst
  <1>8. Kept(n)
    BY <1>1, <1>2, KeptWindow
  <1>9. Len(code') = n + 1
    BY <1>7, <1>8, EmitFromCode
  <1>10. PoolFits(n, x)
    <2>1. code[n + 1].op \in Loads /\ code[n + 1].arg = x.arg
      BY <1>3, <1>6, InstrIs DEF Loads
    <2>2. n + 1 \in 1 .. Len(code) /\ \A i \in 1 .. n : i \in 1 .. Len(code) /\ i < n + 1
      BY <1>2, <1>3
    <2>3. x.arg \in 1 .. Len(constants)
      BY <2>1, <2>2 DEF EmitterInv, CodeInv
    <2>4. \A i \in 1 .. n : code[i].op \in Loads => code[i].arg < x.arg
      BY <2>1, <2>2 DEF EmitterInv, CodeInv
    <2>5. \A i \in 1 .. n : code[i].op \in Loads => code[i].arg <= Len(constants)
      BY <2>2 DEF EmitterInv, CodeInv
    <2>6. QED
      BY <1>7, <2>3, <2>4, <2>5 DEF PoolFits, EmitterInv, CodeInv
  <1>11. stackDepth \in Nat /\ stackDepth >= 2
         /\ \A b \in BOOLEAN : Run(b).jump = 0 => Len(Run(b).stack) = stackDepth
    BY OperandsThere
  <1>12. Fits
    BY <1>2, <1>3, <1>7, <1>9, <1>11 DEF Fits, EmitterInv, EmitterTypeOK
  <1>13. WindowInv'
    BY <1>7 DEF WindowInv
  <1>14. PICK e : e = [b \in BOOLEAN |-> After("Add", Run(b).stack)]
    OBVIOUS
  <1>15. GoesOn(e)
    <2>1. ASSUME NEW b \in BOOLEAN
          PROVE  /\ Run(b)' = Ran(Run(b), e[b])
                 /\ Run(b).jump = 0 => Len(e[b]) = stackDepth'
      <3>1. Run(b)' = Ran(Run(b), e[b])
        BY <1>14, FuseRun
      <3>2. ASSUME Run(b).jump = 0 PROVE Len(e[b]) = stackDepth'
        <4>1. PICK s : s = Run(b).stack
          OBVIOUS
        <4>2. IsStack(s) /\ Len(s) = stackDepth
          BY <1>11, <3>2, <4>1, RunTyped
        <4>3. Operands("Add") = 2 /\ Gain("Add") = -1 /\ "Add" \in Operators
          BY DEF Operands, Gain, Operators, Arithmetic
        <4>4. Len(After("Add", s)) = stackDepth - 1
          BY <1>11, <4>2, <4>3, AfterLength
        <4>5. QED
          BY <1>7, <1>14, <4>1, <4>4
      <3>3. QED
        BY <3>1, <3>2
    <2>2. QED
      BY <2>1 DEF GoesOn
  <1>16. QED
    BY <1>6, <1>7, <1>8, <1>10, <1>12, <1>13, <1>14, <1>15, EmittedOne

(* emitOp *)
LEMMA EmitOpStep ==
  ASSUME EmitterInv, NEW op \in Arithmetic \cup {"Negate", "Pop"}, EmitOp(op)
  PROVE  EmitterInv' /\ Leaves([b \in BOOLEAN |-> After(op, Run(b).stack)])
  <1>1. HasOperands(Operands(op)) /\ ands' = ands
    BY DEF EmitOp
  <1>2. op \in Arithmetic => Operands(op) = 2
    BY DEF Operands
  <1>3. CASE CanFold(op)
    <2>1. FoldConstants(op)
      BY <1>3 DEF EmitOp
    <2>2. op \in Arithmetic
      BY <1>3 DEF CanFold
    <2>3. QED
      BY <1>1, <1>2, <1>3, <2>1, <2>2, FoldStep
  <1>4. CASE ~CanFold(op) /\ CanFuse(op)
    <2>1. FuseAddConst
      BY <1>4 DEF EmitOp
    <2>2. op = "Add" /\ op \in Arithmetic
      BY <1>4 DEF CanFuse, Arithmetic
    <2>3. QED
      BY <1>1, <1>2, <1>4, <2>1, <2>2, FuseStep
  <1>5. CASE ~CanFold(op) /\ ~CanFuse(op)
    <2>1. EmitPlain(op)
      BY <1>5 DEF EmitOp
    <2>2. op \in Operators /\ StackEffect(op) = Gain(op)
      BY DEF Operators, StackEffect, Gain, Arithmetic
    <2>3. QED
      BY <1>1, <2>1, <2>2, OperatorStep DEF EmitPlain
  <1>6. QED
    BY <1>3, <1>4, <1>5

(* emitCall, with the window closed where it is used *)
LEMMA EmitCallStep ==
  ASSUME EmitterInv, EmitCall, ConstantArguments => ~Fold /\ ~SuperOps
  PROVE  EmitterInv' /\ Leaves([b \in BOOLEAN |-> After("Call", Run(b).stack)])
  <1>1. "Call" \in Operators /\ Gain("Call") = -1
    BY DEF Operators, Gain
  <1>2. pendingConsts' \in 0 .. 2 /\ (Rewriting => pendingConsts' = 0)
    BY DEF EmitCall, window, Rewriting, EmitterInv, EmitterTypeOK
  <1>3. stackDepth' = stackDepth + Gain("Call")
    BY <1>1 DEF EmitCall, EmitterInv, EmitterTypeOK
  <1>4. QED
    BY <1>1, <1>2, <1>3, OperatorStep DEF EmitCall, window
-----------------------------------------------------------------------------
(* Two instructions that are no loads *)
LEMMA EmitTwo ==
  ASSUME EmitterInv, NEW x \in Instruction, NEW y \in Instruction, Emit2(x, y),
         x.op \notin Loads, y.op \notin Loads, x.op = "JumpIfFalse" => x.arg = 0,
         y.op # "JumpIfFalse", constants' = constants
  PROVE  /\ With(x, y) /\ CodeInv' /\ LinesInv' /\ lines' \in Runs /\ line' = line
         /\ Len(lineOf') = Len(code')
         /\ Len(code) \in Nat /\ Len(code') = Len(code) + 2 /\ code' \in Seq(Instruction)
         /\ code'[Len(code) + 1] = x /\ code'[Len(code) + 2] = y
         /\ \A i \in 1 .. Len(code) : code'[i] = code[i]
  <1>1. With(x, y) /\ line' = line
    BY DEF Emit2, With
  <1>2. /\ code \in Seq(Instruction) /\ lineOf \in Seq(Nat) /\ Len(lineOf) = Len(code)
        /\ lines \in Runs /\ LinesOf(code, lines, lineOf) /\ line \in Nat /\ Len(code) \in Nat
    BY DEF EmitterInv, EmitterTypeOK, LinesInv
  <1>3. PICK c : c = Append(code, x)
    OBVIOUS
  <1>4. PICK of : of = Append(lineOf, line)
    OBVIOUS
  <1>5. PICK runs : runs = Written(lines, Width(x.op), line)
    OBVIOUS
  <1>6. /\ c \in Seq(Instruction) /\ Len(c) = Len(code) + 1 /\ c[Len(code) + 1] = x
        /\ \A i \in 1 .. Len(code) : c[i] = code[i]
        /\ of \in Seq(Nat) /\ Len(of) = Len(c)
    BY <1>2, <1>3, <1>4
  <1>7. LinesOf(c, runs, of)
    BY <1>2, <1>3, <1>4, <1>5, LinesAppended
  <1>8. code' = Append(c, y)
    <2>1. code \o <<x, y>> = Append(Append(code, x), y)
      BY <1>2, Joined
    <2>2. QED
      BY <1>3, <2>1 DEF Emit2
  <1>9. lineOf' = Append(of, line)
    <2>1. lineOf \o <<line, line>> = Append(Append(lineOf, line), line)
      BY <1>2, Joined
    <2>2. QED
      BY <1>4, <2>1 DEF Emit2
  <1>10. lines' = Written(runs, Width(y.op), line)
    BY <1>5 DEF Emit2, Emitted
  <1>11. LinesOf(code', lines', lineOf')
    BY <1>2, <1>6, <1>7, <1>8, <1>9, <1>10, LinesAppended
  <1>12. /\ code' \in Seq(Instruction) /\ Len(code') = Len(c) + 1 /\ code'[Len(c) + 1] = y
         /\ \A i \in 1 .. Len(c) : code'[i] = c[i]
         /\ lineOf' \in Seq(Nat) /\ Len(lineOf') = Len(code')
    BY <1>2, <1>6, <1>8, <1>9
  <1>13. PICK n \in Nat : n = Len(code)
    BY <1>2
  <1>14. PICK d : d = code'
    OBVIOUS
  <1>15. /\ d \in Seq(Instruction) /\ Len(d) = n + 2 /\ d[n + 1] = x /\ d[n + 2] = y
         /\ \A i \in 1 .. n : d[i] = code[i]
    BY <1>6, <1>12, <1>13, <1>14
  <1>16. \A i \in 1 .. n + 2 : i = n + 2 \/ i = n + 1 \/ i \in 1 .. n
    BY <1>13
  <1>17. CodeInv'
    <2>1. \A i \in 1 .. n + 2 : d[i].op \in Loads => i \in 1 .. n /\ d[i] = code[i]
      BY <1>15, <1>16
    <2>2. ASSUME NEW i \in 1 .. n + 2, d[i].op = "JumpIfFalse" PROVE d[i].arg <= n + 3
      <3>1. i = n + 1 \/ i \in 1 .. n
        BY <1>15, <1>16, <2>2
      <3>2. CASE i = n + 1
        BY <1>13, <1>15, <2>2, <3>2
      <3>3. CASE i \in 1 .. n
        <4>1. code[i].arg <= n + 1 /\ code[i].arg \in Nat
          BY <1>13, <1>15, <2>2, <3>3, CodeTyped, InstructionTyped DEF EmitterInv, CodeInv
        <4>2. QED
          BY <1>13, <1>15, <3>3, <4>1
      <3>4. QED
        BY <3>1, <3>2, <3>3
    <2>3. \A i \in 1 .. n + 2 : d[i].op \in Loads => d[i].arg \in 1 .. Len(constants)
      BY <1>13, <2>1 DEF EmitterInv, CodeInv
    <2>4. \A i, j \in 1 .. n + 2 :
            i < j /\ d[i].op \in Loads /\ d[j].op \in Loads => d[i].arg < d[j].arg
      BY <1>13, <2>1 DEF EmitterInv, CodeInv
    <2>5. n + 3 = (n + 2) + 1
      BY <1>13
    <2>6. \A i \in 1 .. n + 2 : d[i].op = "JumpIfFalse" => d[i].arg <= (n + 2) + 1
      BY <2>2, <2>5
    <2>7. constants' = constants /\ constants \in Seq({constants[i] : i \in DOMAIN constants})
      BY DEF EmitterInv, CodeInv
    <2>8. QED
      BY <1>14, <1>15, <2>3, <2>4, <2>6, <2>7 DEF CodeInv
  <1>18. LinesInv' /\ lines' \in Runs
    BY <1>11, <1>12 DEF LinesInv, LinesOf
  <1>19. QED
    BY <1>1, <1>12, <1>13, <1>14, <1>15, <1>17, <1>18

(* The `and`s in progress and their jumps, as AndsInv has them *)
Aiming(c, a) ==
  /\ Len(a) \in Nat /\ Len(a) <= AndsMax
  /\ \A n \in 1 .. Len(a) : a[n].jump # 0 /\ c[a[n].jump].op = "JumpIfFalse"
  /\ \A n, m \in 1 .. Len(a) : a[n].jump = a[m].jump => n = m

LEMMA AimIs ==
  ASSUME NEW c, NEW a, Aiming(c, a), NEW n \in 1 .. Len(a)
  PROVE  Aim(c[a[n].jump].op, a, a[n].jump) = n
  <1>1. PICK j : j = a[n].jump
    OBVIOUS
  <1>2. j # 0 /\ c[j].op = "JumpIfFalse"
    BY <1>1 DEF Aiming
  <1>3. PICK m : m = (CHOOSE i \in 1 .. Len(a) : a[i].jump = j)
    OBVIOUS
  <1>4. m \in 1 .. Len(a) /\ a[m].jump = j
    BY <1>1, <1>3
  <1>5. m = n
    BY <1>1, <1>4 DEF Aiming
  <1>6. Aim(c[j].op, a, j) = m
    BY <1>2, <1>3 DEF Aim
  <1>7. QED
    BY <1>1, <1>5, <1>6

(* A jump in progress keeps its aim when its `and` keeps its place. *)
LEMMA AimKept ==
  ASSUME NEW c, NEW a, Aiming(c, a), NEW d, NEW e, Aiming(d, e), NEW j, j # 0, c[j].op = d[j].op,
         \/ c[j].op = "Jump"
         \/ \E n \in 1 .. Len(a) : n \in 1 .. Len(e) /\ a[n].jump = j /\ e[n].jump = j
  PROVE  Aim(d[j].op, e, j) = Aim(c[j].op, a, j)
  <1>1. CASE c[j].op = "Jump"
    BY <1>1 DEF Aim
  <1>2. CASE \E n \in 1 .. Len(a) : n \in 1 .. Len(e) /\ a[n].jump = j /\ e[n].jump = j
    <2>1. PICK n \in 1 .. Len(a) : n \in 1 .. Len(e) /\ a[n].jump = j /\ e[n].jump = j
      BY <1>2
    <2>2. Aim(c[j].op, a, j) = n
      BY <2>1, AimIs
    <2>3. Aim(d[j].op, e, j) = n
      BY <2>1, AimIs
    <2>4. QED
      BY <2>2, <2>3
  <1>3. QED
    BY <1>1, <1>2

LEMMA AndsAim ==
  ASSUME EmitterInv
  PROVE  Aiming(code, ands)
  <1>1. \A n \in 1 .. Len(ands) :
          ands[n].jump \in 1 .. Len(code) /\ code[ands[n].jump].op = "JumpIfFalse"
    BY InstrIs DEF EmitterInv, AndsInv
  <1>2. QED
    BY <1>1, AndTyped, CodeTyped DEF Aiming, EmitterInv, AndsInv

(* andExpr, after its left operand *)
LEMMA BeginAndStep ==
  ASSUME EmitterInv, BeginAnd, NEW new, new = Len(ands) + 1
  PROVE  /\ EmitterInv' /\ new \in 1 .. AndsMax
         /\ \A b \in BOOLEAN : Skipping[b] = 0 => Len(Stacks[b]) >= 1
         /\ Skipping' = [b \in BOOLEAN |-> IF Skipping[b] = 0 /\ IsFalsy(LastOf(Stacks[b]), b)
                                           THEN new ELSE Skipping[b]]
         /\ Stacks' = [b \in BOOLEAN |-> IF Skipping'[b] = 0 THEN Dropping(Stacks[b], 1)
                                         ELSE Stacks[b]]
  <1>1. PICK x \in Instruction : x = Instr("JumpIfFalse", Unpatched)
    BY InstrTyped DEF Unpatched
  <1>2. PICK y \in Instruction : y = Instr("Pop", 0)
    BY InstrTyped DEF Operators
  <1>3. /\ x.op = "JumpIfFalse" /\ x.arg = 0 /\ y.op = "Pop"
        /\ x.op \notin Loads /\ y.op \notin Loads
    BY <1>1, <1>2, InstrIs DEF Loads, Unpatched
  <1>4. PICK n : n = Len(code)
    OBVIOUS
  <1>5. PICK top : top = n + 1
    OBVIOUS
  <1>6. /\ With(x, y) /\ CodeInv' /\ LinesInv' /\ lines' \in Runs /\ line' = line
        /\ Len(lineOf') = Len(code')
        /\ n \in Nat /\ Len(code') = n + 2 /\ code' \in Seq(Instruction)
        /\ code'[top] = x /\ \A i \in 1 .. n : code'[i] = code[i]
    <2>1. Emit2(x, y) /\ constants' = constants
      BY <1>1, <1>2 DEF BeginAnd
    <2>2. QED
      BY <1>3, <1>4, <1>5, <2>1, EmitTwo
  <1>7. /\ pendingConsts' = 0 /\ stackDepth' = stackDepth - 1 /\ constants' = constants
        /\ constIndex' = constIndex /\ constCodeStart' = constCodeStart
        /\ Len(ands) < AndsMax /\ n + 2 <= CodeMax
    BY <1>4 DEF BeginAnd, HasRoomFor
  <1>8. /\ stackDepth \in Nat /\ stackDepth >= 1 /\ stackDepth - 1 \in Nat
        /\ \A b \in BOOLEAN : Run(b).jump = 0 => Len(Run(b).stack) = stackDepth
    <2>1. HasOperands(1)
      BY DEF BeginAnd
    <2>2. QED
      BY <2>1, OperandsThere
  <1>9. /\ Len(ands) \in Nat /\ new \in Nat /\ new \in 1 .. AndsMax
        /\ Len(ands') = new /\ ands'[new].jump = top /\ ands'[new].base = stackDepth - 1
        /\ \A m \in 1 .. Len(ands) : ands'[m] = ands[m]
        /\ ands' \in Seq([jump : Nat, base : Nat])
    <2>1. PICK a : a = [jump |-> top, base |-> stackDepth - 1]
      OBVIOUS
    <2>2. ands' = Append(ands, a)
      BY <1>4, <1>5, <2>1 DEF BeginAnd
    <2>3. a.jump = top /\ a.base = stackDepth - 1 /\ a \in [jump : Nat, base : Nat]
      BY <1>5, <1>6, <1>8, <2>1
    <2> DEFINE R == [jump : Nat, base : Nat]
    <2>4. ands \in Seq(R) /\ a \in R
      BY <2>3 DEF EmitterInv, EmitterTypeOK
    <2> HIDE DEF R
    <2>5. /\ Append(ands, a) \in Seq(R) /\ Len(Append(ands, a)) = new
          /\ Append(ands, a)[new] = a /\ \A m \in 1 .. Len(ands) : Append(ands, a)[m] = ands[m]
      BY <2>4
    <2>6. Len(ands) \in Nat /\ new \in Nat /\ new \in 1 .. AndsMax
      BY <1>7, <2>4, BoundsAssumption
    <2>7. QED
      BY <2>2, <2>3, <2>5, <2>6 DEF R
  <1>10. EmitterTypeOK'
    BY <1>6, <1>7, <1>8, <1>9 DEF EmitterInv, EmitterTypeOK
  <1>11. WindowInv'
    BY <1>7 DEF WindowInv
  <1>12. \A m \in 1 .. new : m = new \/ m \in 1 .. Len(ands)
    BY <1>9
  <1>13. AndsInv'
    <2>1. /\ \A m \in 1 .. Len(ands) : ands[m].jump \in 1 .. n
                                       /\ code[ands[m].jump] = Instr("JumpIfFalse", Unpatched)
          /\ \A m, l \in 1 .. Len(ands) : ands[m].jump = ands[l].jump => m = l
      BY <1>4 DEF EmitterInv, AndsInv
    <2>2. ASSUME NEW m \in 1 .. new
          PROVE  ands'[m].jump \in 1 .. n + 2
                 /\ code'[ands'[m].jump] = Instr("JumpIfFalse", Unpatched)
      <3>1. CASE m = new
        BY <1>1, <1>5, <1>6, <1>9, <3>1
      <3>2. CASE m \in 1 .. Len(ands)
        <4>1. PICK j : j = ands[m].jump
          OBVIOUS
        <4>2. j \in 1 .. n /\ code[j] = Instr("JumpIfFalse", Unpatched) /\ ands'[m].jump = j
          BY <1>9, <2>1, <3>2, <4>1
        <4>3. j \in 1 .. n + 2 /\ code'[j] = code[j]
          BY <1>6, <4>2
        <4>4. QED
          BY <4>2, <4>3
      <3>3. QED
        BY <1>12, <3>1, <3>2
    <2>3. ASSUME NEW m \in 1 .. new, NEW l \in 1 .. new, ands'[m].jump = ands'[l].jump
          PROVE  m = l
      <3>1. ASSUME NEW i \in 1 .. Len(ands)
            PROVE  ands'[i].jump = ands[i].jump /\ ands'[i].jump # top
        <4>1. ands'[i] = ands[i]
          BY <1>9
        <4>2. ands[i].jump \in 1 .. n
          BY <2>1
        <4>3. QED
          BY <1>5, <1>6, <4>1, <4>2
      <3>2. ands'[new].jump = top
        BY <1>9
      <3>3. CASE m = new \/ l = new
        BY <1>12, <2>3, <3>1, <3>2, <3>3
      <3>4. CASE m \in 1 .. Len(ands) /\ l \in 1 .. Len(ands)
        BY <2>1, <2>3, <3>1, <3>4
      <3>5. QED
        BY <1>12, <3>3, <3>4
    <2>4. Len(ands') <= AndsMax
      BY <1>9, BoundsAssumption
    <2>5. \A m, l \in 1 .. Len(ands') : ands'[m].jump = ands'[l].jump => m = l
      BY <1>9, <2>3
    <2>6. \A m \in 1 .. Len(ands') :
            ands'[m].jump \in 1 .. Len(code')
            /\ code'[ands'[m].jump] = Instr("JumpIfFalse", Unpatched)
      BY <1>6, <1>9, <2>2
    <2>7. QED
      BY <2>4, <2>5, <2>6 DEF AndsInv
  <1>14. Aiming(code', ands') /\ Aiming(code, ands)
    <2>1. ASSUME NEW m \in 1 .. new
          PROVE  ands'[m].jump \in 1 .. Len(code')
                 /\ code'[ands'[m].jump].op = "JumpIfFalse"
      <3>1. m \in 1 .. Len(ands')
        BY <1>9
      <3>2. PICK i : i = ands'[m].jump
        OBVIOUS
      <3>3. i \in 1 .. Len(code') /\ code'[i] = Instr("JumpIfFalse", Unpatched)
        BY <1>13, <3>1, <3>2 DEF AndsInv
      <3>4. QED
        BY <3>2, <3>3, InstrIs
    <2>2. \A m, l \in 1 .. new : ands'[m].jump = ands'[l].jump => m = l
      BY <1>9, <1>13 DEF AndsInv
    <2>3. Len(ands') = new
      BY <1>9
    <2>4. Aiming(code', ands')
      BY <1>9, <2>1, <2>2, <2>3 DEF Aiming
    <2>5. QED
      BY <2>4, AndsAim
  <1>15. ASSUME NEW b \in BOOLEAN
         PROVE  Run(b)' = IF Run(b).jump = 0
                          THEN IF IsFalsy(LastOf(Run(b).stack), b)
                               THEN VMState(Run(b).stack, Run(b).target, top)
                               ELSE VMState(Dropping(Run(b).stack, 1), Run(b).target, 0)
                          ELSE Run(b)
    <2>1. With(Instr("JumpIfFalse", Unpatched), Instr("Pop", 0))
      BY <1>1, <1>2, <1>6
    <2>2. PICK r : r = Run(b)
      OBVIOUS
    <2>3. Run(b)' = IF r.jump = 0
                    THEN IF IsFalsy(LastOf(r.stack), b)
                         THEN VMState(r.stack, r.target, Len(code) + 1)
                         ELSE VMState(Dropping(r.stack, 1), r.target, 0)
                    ELSE r
      BY <2>1, <2>2, BeginAndRun
    <2>4. QED
      BY <1>4, <1>5, <2>2, <2>3
  <1> DEFINE Falls(b) == Run(b).jump = 0 /\ IsFalsy(LastOf(Run(b).stack), b)
             Enters(b) == Run(b).jump = 0 /\ ~IsFalsy(LastOf(Run(b).stack), b)
  <1>16. ASSUME NEW b \in BOOLEAN
         PROVE  /\ Falls(b) => Run(b)'.jump = top /\ Run(b)'.stack = Run(b).stack
                /\ Enters(b) => Run(b)'.jump = 0 /\ Run(b)'.stack = Dropping(Run(b).stack, 1)
                /\ Run(b).jump # 0 => Run(b)' = Run(b)
    BY <1>15, VMStateIs
  <1>17. ASSUME NEW b \in BOOLEAN, Run(b).jump # 0
         PROVE  /\ code'[Run(b).jump] = code[Run(b).jump]
                /\ \/ code[Run(b).jump].op = "Jump"
                   \/ \E m \in 1 .. Len(ands) :
                        /\ m \in 1 .. new /\ ands[m].jump = Run(b).jump
                        /\ ands'[m].jump = Run(b).jump
                        /\ Len(Run(b).stack) = ands'[m].base + 1
    <2>1. code'[Run(b).jump] = code[Run(b).jump]
      BY <1>4, <1>6, <1>17, RunTyped
    <2>2. ASSUME code[Run(b).jump].op # "Jump"
          PROVE  \E m \in 1 .. Len(ands) :
                   /\ m \in 1 .. new /\ ands[m].jump = Run(b).jump
                   /\ ands'[m].jump = Run(b).jump
                   /\ Len(Run(b).stack) = ands'[m].base + 1
      <3>1. PICK m \in 1 .. Len(ands) :
              ands[m].jump = Run(b).jump /\ Len(Run(b).stack) = ands[m].base + 1
        BY <1>17, <2>2 DEF EmitterInv, RunInv
      <3>2. m \in 1 .. new /\ ands'[m] = ands[m]
        BY <1>9, <3>1
      <3>3. QED
        BY <3>1, <3>2
    <2>3. QED
      BY <2>1, <2>2
  <1>18. top # 0 /\ code'[top].op = "JumpIfFalse" /\ new \in 1 .. Len(ands')
    BY <1>3, <1>5, <1>6, <1>9
  <1>19. RunInv'
    <2>1. ASSUME NEW b \in BOOLEAN
          PROVE  /\ Run(b)'.jump = 0 => Len(Run(b)'.stack) = stackDepth'
                 /\ Run(b)'.jump # 0 =>
                      \/ code'[Run(b)'.jump].op = "Jump"
                      \/ \E m \in 1 .. Len(ands') :
                           ands'[m].jump = Run(b)'.jump
                           /\ Len(Run(b)'.stack) = ands'[m].base + 1
      <3>1. CASE Falls(b)
        <4>1. Len(Run(b).stack) = ands'[new].base + 1
          BY <1>8, <1>9, <3>1
        <4>2. QED
          BY <1>9, <1>16, <1>18, <3>1, <4>1
      <3>2. CASE Enters(b)
        <4>1. PICK s : s = Run(b).stack
          OBVIOUS
        <4>2. Len(s) = stackDepth /\ IsStack(s)
          BY <1>8, <3>2, <4>1, RunTyped
        <4>3. Len(Dropping(s, 1)) = stackDepth - 1
          BY <1>8, <4>2, Dropped
        <4>4. QED
          BY <1>7, <1>16, <3>2, <4>1, <4>3
      <3>3. CASE Run(b).jump # 0
        BY <1>9, <1>16, <1>17, <3>3
      <3>4. QED
        BY <3>1, <3>2, <3>3
    <2>2. QED
      BY <2>1 DEF RunInv
  <1>20. ASSUME NEW b \in BOOLEAN
         PROVE  /\ Skipping[b] = 0 => Len(Stacks[b]) >= 1
                /\ Skipping'[b] = IF Skipping[b] = 0 /\ IsFalsy(LastOf(Stacks[b]), b)
                                  THEN new ELSE Skipping[b]
                /\ Stacks'[b] = IF Skipping'[b] = 0 THEN Dropping(Stacks[b], 1) ELSE Stacks[b]
    <2>1. /\ Stacks[b] = Run(b).stack /\ Stacks'[b] = Run(b)'.stack
          /\ Skipping[b] = Aim(code[Run(b).jump].op, ands, Run(b).jump)
          /\ Skipping'[b] = Aim(code'[Run(b)'.jump].op, ands', Run(b)'.jump)
      BY SkippingIs
    <2>2. Skipping[b] = 0 <=> Run(b).jump = 0
      BY SkippedSome, BoundsAssumption
    <2>3. CASE Falls(b)
      <3>1. Aim(code'[top].op, ands', top) = new
        BY <1>9, <1>14, <1>18, AimIs
      <3>2. Skipping'[b] = new /\ new # 0
        BY <1>9, <1>16, <2>1, <2>3, <3>1
      <3>3. QED
        BY <1>8, <1>16, <2>1, <2>2, <2>3, <3>2
    <2>4. CASE Enters(b)
      <3>1. Skipping'[b] = 0
        BY <1>16, <2>1, <2>4 DEF Aim
      <3>2. QED
        BY <1>8, <1>16, <2>1, <2>2, <2>4, <3>1
    <2>5. CASE Run(b).jump # 0
      <3>1. PICK j : j = Run(b).jump
        OBVIOUS
      <3>2. \/ code[j].op = "Jump"
            \/ \E m \in 1 .. Len(ands) : m \in 1 .. Len(ands') /\ ands[m].jump = j /\ ands'[m].jump = j
        BY <1>9, <1>17, <2>5, <3>1
      <3>3. j # 0 /\ code[j].op = code'[j].op
        BY <1>17, <2>5, <3>1
      <3>4. Aim(code'[j].op, ands', j) = Aim(code[j].op, ands, j)
        BY <1>14, <3>2, <3>3, AimKept
      <3>5. QED
        BY <1>16, <2>1, <2>2, <2>5, <3>1, <3>4
    <2>6. QED
      BY <2>3, <2>4, <2>5
  <1>21. EmitterInv'
    BY <1>6, <1>10, <1>11, <1>13, <1>19 DEF EmitterInv
  <1>22. QED
    BY <1>9, <1>20, <1>21, SkippingIs

(* breakExpr *)
LEMMA BreakStep ==
  ASSUME EmitterInv, Break
  PROVE  /\ EmitterInv'
         /\ Skipping' = [b \in BOOLEAN |-> IF Skipping[b] = 0 THEN AndsMax + 1 ELSE Skipping[b]]
         /\ Stacks' = [b \in BOOLEAN |-> IF Skipping[b] = 0 THEN <<>> ELSE Stacks[b]]
  <1>1. stackDepth \in Nat /\ stackDepth > 0
    BY DEF Break, EmitterInv, EmitterTypeOK
  <1>2. PICK x : x = IF stackDepth = 1 THEN Instr("Pop", 0) ELSE Instr("PopN", stackDepth)
    OBVIOUS
  <1>3. PICK y \in Instruction : y = Instr("Jump", Unpatched)
    BY InstrTyped DEF Unpatched
  <1>4. /\ x \in Instruction /\ x \in {Instr("Pop", 0), Instr("PopN", stackDepth)}
        /\ x.op \in {"Pop", "PopN"} /\ y.op = "Jump"
        /\ x.op \notin Loads /\ y.op \notin Loads
        /\ x = Instr("Pop", 0) => stackDepth = 1
    <2>1. Instr("Pop", 0) \in Instruction /\ Instr("PopN", stackDepth) \in Instruction
      BY <1>1, InstrTyped DEF Operators
    <2>2. Instr("Pop", 0).op = "Pop" /\ Instr("PopN", stackDepth).op = "PopN"
      BY InstrIs
    <2>3. QED
      BY <1>2, <1>3, <2>1, <2>2, InstrIs DEF Loads
  <1>5. PICK n : n = Len(code)
    OBVIOUS
  <1>6. PICK top : top = n + 2
    OBVIOUS
  <1>7. /\ With(x, y) /\ CodeInv' /\ LinesInv' /\ lines' \in Runs /\ line' = line
        /\ Len(lineOf') = Len(code')
        /\ n \in Nat /\ Len(code') = n + 2 /\ code' \in Seq(Instruction)
        /\ code'[top] = y /\ \A i \in 1 .. n : code'[i] = code[i]
    <2>1. Emit2(x, y) /\ constants' = constants
      BY <1>2, <1>3 DEF Break
    <2>2. QED
      BY <1>4, <1>5, <1>6, <2>1, EmitTwo
  <1>8. /\ pendingConsts' = 0 /\ stackDepth' = stackDepth + 1 /\ constants' = constants
        /\ constIndex' = constIndex /\ constCodeStart' = constCodeStart
        /\ ands' = ands /\ n + 2 <= CodeMax
    BY <1>5 DEF Break, HasRoomFor
  <1>9. EmitterTypeOK'
    BY <1>1, <1>7, <1>8 DEF EmitterInv, EmitterTypeOK
  <1>10. WindowInv'
    BY <1>8 DEF WindowInv
  <1>11. AndsInv'
    <2>1. ASSUME NEW m \in 1 .. Len(ands)
          PROVE  ands[m].jump \in 1 .. Len(code')
                 /\ code'[ands[m].jump] = Instr("JumpIfFalse", Unpatched)
      <3>1. PICK j : j = ands[m].jump
        OBVIOUS
      <3>2. j \in 1 .. n /\ code[j] = Instr("JumpIfFalse", Unpatched)
        BY <1>5, <3>1 DEF EmitterInv, AndsInv
      <3>3. j \in 1 .. n + 2 /\ code'[j] = code[j]
        BY <1>7, <3>2
      <3>4. QED
        BY <1>7, <3>1, <3>2, <3>3
    <2>2. QED
      BY <1>8, <2>1 DEF EmitterInv, AndsInv
  <1>12. Aiming(code', ands') /\ Aiming(code, ands)
    <2>1. \A m \in 1 .. Len(ands') : ands'[m].jump \in 1 .. Len(code')
                                     /\ code'[ands'[m].jump].op = "JumpIfFalse"
      BY <1>11, InstrIs DEF AndsInv
    <2>2. QED
      BY <1>7, <1>8, <1>11, <2>1, AndsAim, AndTyped DEF AndsInv, Aiming
  <1>13. ASSUME NEW b \in BOOLEAN
         PROVE  /\ Run(b).jump = 0 => Run(b)'.jump = top /\ Run(b)'.stack = <<>>
                /\ Run(b).jump # 0 => Run(b)' = Run(b)
    <2>1. With(x, Instr("Jump", Unpatched))
      BY <1>3, <1>7
    <2>2. PICK r : r = Run(b)
      OBVIOUS
    <2>3. Run(b)' = IF r.jump = 0 THEN VMState(<<>>, r.target, Len(code) + 2) ELSE r
      BY <1>1, <1>4, <2>1, <2>2, BreakRun
    <2>4. QED
      BY <1>5, <1>6, <2>2, <2>3, VMStateIs
  <1>14. ASSUME NEW b \in BOOLEAN, Run(b).jump # 0
         PROVE  /\ code'[Run(b).jump] = code[Run(b).jump]
                /\ \/ code[Run(b).jump].op = "Jump"
                   \/ \E m \in 1 .. Len(ands) : /\ ands[m].jump = Run(b).jump
                                                /\ Len(Run(b).stack) = ands[m].base + 1
    <2>1. code'[Run(b).jump] = code[Run(b).jump]
      BY <1>5, <1>7, <1>14, RunTyped
    <2>2. QED
      BY <1>14, <2>1 DEF EmitterInv, RunInv
  <1>15. top # 0 /\ code'[top].op = "Jump"
    BY <1>4, <1>6, <1>7
  <1>16. RunInv'
    <2>1. ASSUME NEW b \in BOOLEAN
          PROVE  /\ Run(b)'.jump # 0
                 /\ \/ code'[Run(b)'.jump].op = "Jump"
                    \/ \E m \in 1 .. Len(ands') : ands'[m].jump = Run(b)'.jump
                                                  /\ Len(Run(b)'.stack) = ands'[m].base + 1
      <3>1. CASE Run(b).jump = 0
        BY <1>13, <1>15, <3>1
      <3>2. CASE Run(b).jump # 0
        BY <1>8, <1>13, <1>14, <3>2
      <3>3. QED
        BY <3>1, <3>2
    <2>2. QED
      BY <2>1 DEF RunInv
  <1>17. ASSUME NEW b \in BOOLEAN
         PROVE  /\ Skipping'[b] = IF Skipping[b] = 0 THEN AndsMax + 1 ELSE Skipping[b]
                /\ Stacks'[b] = IF Skipping[b] = 0 THEN <<>> ELSE Stacks[b]
    <2>1. /\ Stacks[b] = Run(b).stack /\ Stacks'[b] = Run(b)'.stack
          /\ Skipping[b] = Aim(code[Run(b).jump].op, ands, Run(b).jump)
          /\ Skipping'[b] = Aim(code'[Run(b)'.jump].op, ands', Run(b)'.jump)
      BY SkippingIs
    <2>2. Skipping[b] = 0 <=> Run(b).jump = 0
      BY SkippedSome, BoundsAssumption
    <2>3. CASE Run(b).jump = 0
      <3>1. Aim(code'[top].op, ands', top) = AndsMax + 1
        BY <1>15 DEF Aim
      <3>2. QED
        BY <1>13, <2>1, <2>2, <2>3, <3>1
    <2>4. CASE Run(b).jump # 0
      <3>1. PICK j : j = Run(b).jump
        OBVIOUS
      <3>2. \/ code[j].op = "Jump"
            \/ \E m \in 1 .. Len(ands) : m \in 1 .. Len(ands') /\ ands[m].jump = j /\ ands'[m].jump = j
        BY <1>8, <1>14, <2>4, <3>1
      <3>3. j # 0 /\ code[j].op = code'[j].op
        BY <1>14, <2>4, <3>1
      <3>4. Aim(code'[j].op, ands', j) = Aim(code[j].op, ands, j)
        BY <1>12, <3>2, <3>3, AimKept
      <3>5. QED
        BY <1>13, <2>1, <2>2, <2>4, <3>1, <3>4
    <2>5. QED
      BY <2>3, <2>4
  <1>18. EmitterInv'
    BY <1>7, <1>9, <1>10, <1>11, <1>16 DEF EmitterInv
  <1>19. QED
    BY <1>17, <1>18, SkippingIs

(* andExpr, after its right operand *)
LEMMA EndAndStep ==
  ASSUME EmitterInv, EndAnd, NEW last, last = Len(ands)
  PROVE  /\ EmitterInv' /\ last \in 1 .. AndsMax
         /\ Skipping' = [b \in BOOLEAN |-> IF Skipping[b] = last THEN 0 ELSE Skipping[b]]
         /\ Stacks' = Stacks
  <1>1. PICK j : j = ands[Len(ands)].jump
    OBVIOUS
  <1>2. PICK n \in Nat : n = Len(code)
    BY CodeTyped
  <1>3. PICK end : end = n + 1
    OBVIOUS
  <1>4. /\ ands # <<>> /\ stackDepth = Base + 1 /\ Patched(j, end)
        /\ ands' = SubSeq(ands, 1, last - 1)
        /\ pendingConsts' = 0 /\ stackDepth' = stackDepth /\ constants' = constants
        /\ constIndex' = constIndex /\ constCodeStart' = constCodeStart
        /\ line' = line /\ lines' = lines /\ lineOf' = lineOf
    BY <1>1, <1>2, <1>3 DEF EndAnd, PatchJump, Patched
  <1>5. /\ j \in 1 .. n /\ code[j] = Instr("JumpIfFalse", Unpatched)
        /\ end \in Nat /\ Len(code') = n /\ code' \in Seq(Instruction)
        /\ code'[j] = Instr("JumpIfFalse", end)
        /\ \A i \in 1 .. n : i # j => code'[i] = code[i]
    BY <1>1, <1>2, <1>3, <1>4, PatchedCode
  <1>6. PICK rest : rest = last - 1
    OBVIOUS
  <1>7. /\ last \in Nat /\ last \in 1 .. AndsMax /\ rest \in Nat /\ rest + 1 = last
        /\ Len(ands') = rest /\ ands' \in Seq([jump : Nat, base : Nat])
        /\ \A m \in 1 .. rest : ands'[m] = ands[m] /\ m \in 1 .. last
        /\ ands[last].jump = j /\ last \in 1 .. last
    <2> DEFINE R == [jump : Nat, base : Nat]
    <2>1. ands \in Seq(R) /\ Len(ands) <= AndsMax
      BY DEF EmitterInv, EmitterTypeOK, AndsInv
    <2> HIDE DEF R
    <2>2. last \in Nat /\ last # 0
      BY <1>4, <2>1
    <2>3. rest \in Nat /\ rest + 1 = last /\ last \in 1 .. AndsMax
      BY <1>6, <2>1, <2>2, BoundsAssumption
    <2>4. /\ Len(SubSeq(ands, 1, rest)) = rest /\ SubSeq(ands, 1, rest) \in Seq(R)
          /\ \A m \in 1 .. rest : SubSeq(ands, 1, rest)[m] = ands[m]
      BY <2>1, <2>3
    <2>5. \A m \in 1 .. rest : m \in 1 .. last
      BY <2>3
    <2>6. QED
      BY <1>1, <1>4, <1>6, <2>2, <2>3, <2>4, <2>5 DEF R
  <1>8. EmitterTypeOK'
    <2>1. code' \in Seq(Instruction) /\ Len(code') <= CodeMax
      BY <1>2, <1>5 DEF EmitterInv, EmitterTypeOK
    <2>2. ands' \in Seq([jump : Nat, base : Nat])
      BY <1>7
    <2>3. Len(lineOf') = Len(code')
      BY <1>2, <1>4, <1>5 DEF EmitterInv, EmitterTypeOK
    <2>4. /\ Len(constants') <= PoolMax /\ pendingConsts' \in 0 .. 2
          /\ constIndex' \in [0 .. 1 -> Nat] /\ constCodeStart' \in Nat
          /\ stackDepth' \in Nat /\ line' \in 1 .. LineMax /\ lines' \in Runs
      BY <1>4 DEF EmitterInv, EmitterTypeOK
    <2>5. QED
      BY <2>1, <2>2, <2>3, <2>4 DEF EmitterTypeOK
  <1>9. WindowInv'
    BY <1>4 DEF WindowInv
  <1>10. \A i \in 1 .. n : code'[i].op = code[i].op
    BY <1>5, InstrIs
  <1>11. CodeInv'
    <2>1. \A i \in 1 .. n : code[i].op \in Loads => code'[i] = code[i]
      <3>1. code[j].op \notin Loads
        BY <1>5, InstrIs DEF Loads
      <3>2. QED
        BY <1>5, <3>1
    <2>2. \A i \in 1 .. n : code'[i].op = "JumpIfFalse" => code'[i].arg <= n + 1
      <3>1. code'[j].arg = n + 1
        BY <1>3, <1>5, InstrIs
      <3>2. QED
        BY <1>2, <1>5, <3>1 DEF EmitterInv, CodeInv
    <2>3. \A i \in 1 .. n : code'[i].op \in Loads => code'[i].arg \in 1 .. Len(constants)
      BY <1>2, <1>10, <2>1 DEF EmitterInv, CodeInv
    <2>4. \A i, k \in 1 .. n :
            i < k /\ code'[i].op \in Loads /\ code'[k].op \in Loads => code'[i].arg < code'[k].arg
      BY <1>2, <1>10, <2>1 DEF EmitterInv, CodeInv
    <2>5. constants \in Seq({constants[i] : i \in DOMAIN constants})
      BY DEF EmitterInv, CodeInv
    <2>6. QED
      BY <1>4, <1>5, <2>2, <2>3, <2>4, <2>5 DEF CodeInv
  <1>12. LinesInv'
    BY <1>2, <1>4, <1>5, <1>10, LinesPatched DEF EmitterInv, LinesInv
  <1>13. \A m \in 1 .. rest : ands[m].jump # j
    <2>1. \A m \in 1 .. rest : m # last
      BY <1>7
    <2>2. QED
      BY <1>7, <2>1 DEF EmitterInv, AndsInv
  <1>14. AndsInv'
    <2>1. ASSUME NEW m \in 1 .. rest
          PROVE  ands'[m].jump \in 1 .. n
                 /\ code'[ands'[m].jump] = Instr("JumpIfFalse", Unpatched)
      <3>1. PICK i : i = ands[m].jump
        OBVIOUS
      <3>2. i \in 1 .. n /\ code[i] = Instr("JumpIfFalse", Unpatched) /\ i # j
        BY <1>2, <1>7, <1>13, <3>1 DEF EmitterInv, AndsInv
      <3>3. QED
        BY <1>5, <1>7, <3>1, <3>2
    <2>2. \A m, l \in 1 .. rest : ands'[m].jump = ands'[l].jump => m = l
      BY <1>7 DEF EmitterInv, AndsInv
    <2>3. rest <= AndsMax
      BY <1>7, BoundsAssumption
    <2>4. QED
      BY <1>5, <1>7, <2>1, <2>2, <2>3 DEF AndsInv
  <1>15. Aiming(code', ands') /\ Aiming(code, ands)
    <2>1. \A m \in 1 .. rest : ands'[m].jump \in 1 .. n
                               /\ code'[ands'[m].jump].op = "JumpIfFalse"
      BY <1>5, <1>7, <1>14, InstrIs DEF AndsInv
    <2>2. QED
      BY <1>2, <1>7, <1>14, <2>1, AndsAim DEF AndsInv, Aiming
  <1>16. ASSUME NEW b \in BOOLEAN
         PROVE  /\ Run(b).jump = j => Run(b)'.jump = 0
                /\ Run(b).jump # j => Run(b)' = Run(b)
                /\ Run(b)'.stack = Run(b).stack
    <2>1. PICK r : r = Run(b)
      OBVIOUS
    <2>2. Run(b)' = IF r.jump = j THEN VMState(r.stack, end, 0) ELSE r
      BY <1>1, <1>2, <1>3, <1>4, <2>1, EndAndRun
    <2>3. QED
      BY <2>1, <2>2, VMStateIs
  <1>17. ASSUME NEW b \in BOOLEAN, Run(b).jump # 0, Run(b).jump # j
         PROVE  /\ code'[Run(b).jump] = code[Run(b).jump]
                /\ \/ code[Run(b).jump].op = "Jump"
                   \/ \E m \in 1 .. rest : /\ ands[m].jump = Run(b).jump
                                           /\ Len(Run(b).stack) = ands[m].base + 1
    <2>1. code'[Run(b).jump] = code[Run(b).jump]
      BY <1>2, <1>5, <1>17, RunTyped
    <2>2. ASSUME code[Run(b).jump].op # "Jump"
          PROVE  \E m \in 1 .. rest : /\ ands[m].jump = Run(b).jump
                                      /\ Len(Run(b).stack) = ands[m].base + 1
      <3>1. PICK m \in 1 .. last :
              ands[m].jump = Run(b).jump /\ Len(Run(b).stack) = ands[m].base + 1
        BY <1>17, <2>2 DEF EmitterInv, RunInv
      <3>2. m # last
        BY <1>7, <1>17, <3>1
      <3>3. m \in 1 .. rest
        BY <1>7, <3>1, <3>2
      <3>4. QED
        BY <3>1, <3>3
    <2>3. QED
      BY <2>1, <2>2
  <1>18. RunInv'
    <2>1. ASSUME NEW b \in BOOLEAN
          PROVE  /\ Run(b)'.jump = 0 => Len(Run(b)'.stack) = stackDepth'
                 /\ Run(b)'.jump # 0 =>
                      \/ code'[Run(b)'.jump].op = "Jump"
                      \/ \E m \in 1 .. Len(ands') : ands'[m].jump = Run(b)'.jump
                                                    /\ Len(Run(b)'.stack) = ands'[m].base + 1
      <3>1. CASE Run(b).jump = 0
        <4>1. Run(b).jump # j
          BY <1>5, <3>1
        <4>2. QED
          BY <1>4, <1>16, <3>1, <4>1 DEF EmitterInv, RunInv
      <3>2. CASE Run(b).jump = j
        <4>1. code[j].op # "Jump" /\ j # 0
          BY <1>5, InstrIs
        <4>2. PICK m \in 1 .. last : ands[m].jump = j /\ Len(Run(b).stack) = ands[m].base + 1
          BY <3>2, <4>1 DEF EmitterInv, RunInv
        <4>3. m = last
          BY <1>7, <4>2 DEF EmitterInv, AndsInv
        <4>4. stackDepth = ands[last].base + 1
          BY <1>4 DEF Base
        <4>5. QED
          BY <1>4, <1>16, <3>2, <4>2, <4>3, <4>4
      <3>3. CASE Run(b).jump # 0 /\ Run(b).jump # j
        <4>1. PICK i : i = Run(b).jump
          OBVIOUS
        <4>2. Run(b)' = Run(b)
          BY <1>16, <3>3
        <4>3. /\ code'[i] = code[i]
              /\ \/ code[i].op = "Jump"
                 \/ \E m \in 1 .. rest : /\ ands[m].jump = i
                                         /\ Len(Run(b).stack) = ands[m].base + 1
          BY <1>17, <3>3, <4>1
        <4>4. ASSUME NEW m \in 1 .. rest
              PROVE  m \in 1 .. Len(ands') /\ ands'[m] = ands[m]
          BY <1>7
        <4>5. QED
          BY <3>3, <4>1, <4>2, <4>3, <4>4
      <3>4. QED
        BY <3>1, <3>2, <3>3
    <2>2. QED
      BY <2>1 DEF RunInv
  <1>19. ASSUME NEW b \in BOOLEAN
         PROVE  /\ Skipping'[b] = IF Skipping[b] = last THEN 0 ELSE Skipping[b]
                /\ Stacks'[b] = Stacks[b]
    <2>1. /\ Stacks[b] = Run(b).stack /\ Stacks'[b] = Run(b)'.stack
          /\ Skipping[b] = Aim(code[Run(b).jump].op, ands, Run(b).jump)
          /\ Skipping'[b] = Aim(code'[Run(b)'.jump].op, ands', Run(b)'.jump)
      BY SkippingIs
    <2>2. Skipping[b] = last <=> Run(b).jump = j
      BY <1>7, SkippedSome
    <2>3. CASE Run(b).jump = 0
      <3>1. Run(b).jump # j
        BY <1>5, <2>3
      <3>2. Skipping[b] = 0 /\ Skipping'[b] = 0
        BY <1>16, <2>1, <2>3, <3>1 DEF Aim
      <3>3. QED
        BY <1>16, <2>1, <2>2, <3>1, <3>2
    <2>4. CASE Run(b).jump = j
      <3>1. Skipping'[b] = 0
        BY <1>16, <2>1, <2>4 DEF Aim
      <3>2. QED
        BY <1>16, <2>1, <2>2, <2>4, <3>1
    <2>5. CASE Run(b).jump # 0 /\ Run(b).jump # j
      <3>1. PICK i : i = Run(b).jump
        OBVIOUS
      <3>2. \/ code[i].op = "Jump"
            \/ \E m \in 1 .. Len(ands) : m \in 1 .. Len(ands') /\ ands[m].jump = i /\ ands'[m].jump = i
        BY <1>7, <1>17, <2>5, <3>1
      <3>3. i # 0 /\ code[i].op = code'[i].op
        BY <1>17, <2>5, <3>1
      <3>4. Aim(code'[i].op, ands', i) = Aim(code[i].op, ands, i)
        BY <1>15, <3>2, <3>3, AimKept
      <3>5. QED
        BY <1>16, <2>1, <2>2, <2>5, <3>1, <3>4
    <2>6. QED
      BY <2>3, <2>4, <2>5
  <1>20. EmitterInv'
    BY <1>8, <1>9, <1>11, <1>12, <1>14, <1>18 DEF EmitterInv
  <1>21. QED
    BY <1>7, <1>19, <1>20, SkippingIs

(* advance *)
LEMMA NewLineStep ==
  ASSUME EmitterInv, NewLine
  PROVE  EmitterInv' /\ Skipping' = Skipping /\ Stacks' = Stacks
  <1>1. /\ code' = code /\ constants' = constants /\ pendingConsts' = pendingConsts
        /\ constIndex' = constIndex /\ constCodeStart' = constCodeStart
        /\ stackDepth' = stackDepth /\ ands' = ands /\ lines' = lines /\ lineOf' = lineOf
        /\ line' \in 1 .. LineMax
    BY BoundsAssumption DEF NewLine, window, EmitterInv, EmitterTypeOK
  <1>2. EmitterTypeOK'
    BY <1>1 DEF EmitterInv, EmitterTypeOK
  <1>3. \A b \in BOOLEAN : Run(b)' = Run(b)
    BY <1>1 DEF Run
  <1>4. CodeInv'
    BY <1>1 DEF EmitterInv, CodeInv
  <1>5. WindowInv'
    BY <1>1 DEF EmitterInv, WindowInv
  <1>6. AndsInv'
    BY <1>1 DEF EmitterInv, AndsInv
  <1>7. RunInv'
    BY <1>1, <1>3 DEF EmitterInv, RunInv
  <1>8. LinesInv'
    BY <1>1 DEF EmitterInv, LinesInv
  <1>9. Skipping' = Skipping /\ Stacks' = Stacks
    BY <1>1, <1>3, SkippingIs
  <1>10. QED
    BY <1>2, <1>4, <1>5, <1>6, <1>7, <1>8, <1>9 DEF EmitterInv

LEMMA EmitterStutter ==
  ASSUME EmitterInv, UNCHANGED emitterVars
  PROVE  EmitterInv' /\ Skipping' = Skipping /\ Stacks' = Stacks
  <1>1. /\ code' = code /\ constants' = constants /\ pendingConsts' = pendingConsts
        /\ constIndex' = constIndex /\ constCodeStart' = constCodeStart
        /\ stackDepth' = stackDepth /\ ands' = ands /\ lines' = lines /\ lineOf' = lineOf
        /\ line' = line
    BY DEF emitterVars
  <1>2. EmitterTypeOK'
    BY <1>1 DEF EmitterInv, EmitterTypeOK
  <1>3. \A b \in BOOLEAN : Run(b)' = Run(b)
    BY <1>1 DEF Run
  <1>4. CodeInv'
    BY <1>1 DEF EmitterInv, CodeInv
  <1>5. WindowInv'
    BY <1>1 DEF EmitterInv, WindowInv
  <1>6. AndsInv'
    BY <1>1 DEF EmitterInv, AndsInv
  <1>7. RunInv'
    BY <1>1, <1>3 DEF EmitterInv, RunInv
  <1>8. LinesInv'
    BY <1>1 DEF EmitterInv, LinesInv
  <1>9. Skipping' = Skipping /\ Stacks' = Stacks
    BY <1>1, <1>3, SkippingIs
  <1>10. QED
    BY <1>2, <1>4, <1>5, <1>6, <1>7, <1>8, <1>9 DEF EmitterInv

LEMMA EmitterStart ==
  ASSUME EmitterInit
  PROVE  /\ EmitterInv
         /\ Skipping = [b \in BOOLEAN |-> 0] /\ Stacks = [b \in BOOLEAN |-> <<>>]
  <1>1. /\ code = <<>> /\ constants = <<>> /\ pendingConsts = 0
        /\ constIndex = [i \in 0 .. 1 |-> 1] /\ constCodeStart = 0 /\ stackDepth = 0
        /\ ands = <<>> /\ line = 1 /\ lines = <<>> /\ lineOf = <<>>
    BY DEF EmitterInit
  <1>2. \A S : <<>> \in Seq(S)
    OBVIOUS
  <1>3. Len(<<>>) = 0 /\ 1 .. 0 = {}
    OBVIOUS
  <1>4. EmitterTypeOK
    <2>1. code \in Seq(Instruction) /\ ands \in Seq([jump : Nat, base : Nat]) /\ lines \in Runs
      BY <1>1, <1>2 DEF Runs
    <2>2. QED
      BY <1>1, <1>3, <2>1, BoundsAssumption DEF EmitterTypeOK
  <1>5. \A b \in BOOLEAN : Run(b) = Start
    BY <1>1, <1>3, ExecutionIs, StateNext DEF Run
  <1>6. Start.stack = <<>> /\ Start.jump = 0
    BY DEF Start
  <1>7. CodeInv
    BY <1>1, <1>2, <1>3 DEF CodeInv
  <1>8. WindowInv
    BY <1>1 DEF WindowInv
  <1>9. AndsInv
    BY <1>1, <1>3, BoundsAssumption DEF AndsInv
  <1>10. RunInv
    BY <1>1, <1>3, <1>5, <1>6 DEF RunInv
  <1>11. LinesInv
    <2>1. Total(<<>>) = 0 /\ Offset(<<>>, 1) = 0
      BY <1>3, SeenNext, OffsetNext DEF Total
    <2>2. QED
      BY <1>1, <1>2, <1>3, <1>4, <2>1 DEF LinesInv, LinesOf, EmitterTypeOK
  <1>12. ASSUME NEW b \in BOOLEAN
         PROVE  Skipping[b] = 0 /\ Stacks[b] = <<>>
    BY <1>5, <1>6, SkippingIs DEF Aim
  <1>13. QED
    BY <1>4, <1>7, <1>8, <1>9, <1>10, <1>11, <1>12, SkippingIs DEF EmitterInv
-----------------------------------------------------------------------------
(* The actions of StackCode, over what the emitted code does *)
LEMMA PlainTerms ==
  /\ Plain!X = X /\ Plain!Operators = Operators
  /\ \A op : Plain!Operands(op) = Operands(op)
  /\ \A s : Plain!LastOf(s) = LastOf(s)
  /\ \A s, n : Plain!Dropping(s, n) = Dropping(s, n)
  /\ \A t, b : Plain!IsFalsy(t, b) = IsFalsy(t, b)
  /\ \A op, s : Plain!After(op, s) = After(op, s)
  <1>1. Plain!X = X /\ Plain!Arithmetic = Arithmetic /\ Plain!Operators = Operators
    BY DEF Plain!X, X, Plain!Arithmetic, Arithmetic, Plain!Operators, Operators
  <1>2. \A op : Plain!Operands(op) = Operands(op)
    BY <1>1 DEF Plain!Operands, Operands
  <1>3. /\ \A s : Plain!LastOf(s) = LastOf(s)
        /\ \A s, n : Plain!Dropping(s, n) = Dropping(s, n)
    BY DEF Plain!LastOf, LastOf, Plain!Dropping, Dropping
  <1>4. \A t, b : Plain!IsFalsy(t, b) = IsFalsy(t, b)
    BY <1>1 DEF Plain!IsFalsy, IsFalsy
  <1>5. /\ \A op, x, y : Plain!Result(op, x, y) = Result(op, x, y)
        /\ \A x : Plain!Negated(x) = Negated(x)
        /\ \A x, y : Plain!Returned(x, y) = Returned(x, y)
    BY Zenon DEF Plain!Result, Result, Plain!Negated, Negated, Plain!Returned, Returned,
                 Plain!IsNumber, IsNumber, Plain!Number, Number
  <1>6. ASSUME NEW op, NEW s PROVE Plain!After(op, s) = After(op, s)
    BY <1>1, <1>3, <1>5, Zenon DEF Plain!After, After
  <1>7. QED
    BY <1>1, <1>2, <1>3, <1>4, <1>6

LEMMA PlainLoad ==
  ASSUME NEW t, Leaves([b \in BOOLEAN |-> Append(Run(b).stack, t)])
  PROVE  Plain!Load(t)
  BY SkippingIs DEF Leaves, Plain!Load, Plain!Executes, Plain!Truths

LEMMA PlainApply ==
  ASSUME EmitterInv, NEW op \in Operators, HasOperands(Operands(op)),
         Leaves([b \in BOOLEAN |-> After(op, Run(b).stack)])
  PROVE  Plain!Apply(op)
  <1>1. ASSUME NEW b \in BOOLEAN, Skipping[b] = 0 PROVE Len(Stacks[b]) >= Operands(op)
    <2>1. Run(b).jump = 0
      BY <1>1, SkippedSome, BoundsAssumption
    <2>2. Operands(op) \in Nat
      BY DEF Operands
    <2>3. QED
      BY <2>1, <2>2, OperandsThere, SkippingIs
  <1>2. Plain!Have(Plain!Operands(op))
    BY <1>1, PlainTerms DEF Plain!Have, Plain!Truths
  <1>3. Stacks' = [b \in BOOLEAN |-> IF Skipping[b] = 0 THEN Plain!After(op, Stacks[b])
                                     ELSE Stacks[b]]
    BY PlainTerms, SkippingIs DEF Leaves
  <1>4. QED
    BY <1>2, <1>3 DEF Leaves, Plain!Apply, Plain!Executes, Plain!Truths

LEMMA PlainBegin ==
  ASSUME NEW n,
         \A b \in BOOLEAN : Skipping[b] = 0 => Len(Stacks[b]) >= 1,
         Skipping' = [b \in BOOLEAN |-> IF Skipping[b] = 0 /\ IsFalsy(LastOf(Stacks[b]), b)
                                        THEN n ELSE Skipping[b]],
         Stacks' = [b \in BOOLEAN |-> IF Skipping'[b] = 0 THEN Dropping(Stacks[b], 1)
                                      ELSE Stacks[b]]
  PROVE  Plain!BeginAnd(n)
  <1>1. Plain!Have(1)
    BY DEF Plain!Have, Plain!Truths
  <1>2. /\ Skipping' = [b \in BOOLEAN |->
             IF Skipping[b] = 0 /\ Plain!IsFalsy(Plain!LastOf(Stacks[b]), b) THEN n ELSE Skipping[b]]
        /\ Stacks' = [b \in BOOLEAN |->
             IF Skipping'[b] = 0 THEN Plain!Dropping(Stacks[b], 1) ELSE Stacks[b]]
    BY PlainTerms
  <1>3. QED
    BY <1>1, <1>2, Zenon DEF Plain!BeginAnd, Plain!Truths

LEMMA PlainEnd ==
  ASSUME NEW n,
         Skipping' = [b \in BOOLEAN |-> IF Skipping[b] = n THEN 0 ELSE Skipping[b]],
         Stacks' = Stacks
  PROVE  Plain!EndAnd(n)
  BY Zenon DEF Plain!EndAnd, Plain!Truths

LEMMA PlainLeave ==
  ASSUME Skipping' = [b \in BOOLEAN |-> IF Skipping[b] = 0 THEN AndsMax + 1 ELSE Skipping[b]],
         Stacks' = [b \in BOOLEAN |-> IF Skipping[b] = 0 THEN <<>> ELSE Stacks[b]]
  PROVE  Plain!Leave
  BY Zenon DEF Plain!Leave, Plain!Executes, Plain!Truths, Plain!Gone

(* Every step of the emitter means one of StackCode, or nothing. *)
LEMMA EmitterStep ==
  ASSUME ConstantArguments => ~Fold /\ ~SuperOps, EmitterInv, [EmitterNext]_emitterVars
  PROVE  EmitterInv' /\ [Plain!MeaningNext]_(Plain!meaningVars)
  <1>1. ASSUME NEW v \in Constants, EmitConstant(v)
        PROVE  EmitterInv' /\ Plain!MeaningNext
    <2>1. EmitterInv' /\ Plain!Load(v)
      BY <1>1, EmitConstantStep, PlainLoad
    <2>2. QED
      BY <2>1 DEF Plain!MeaningNext
  <1>2. ASSUME NEW op \in Arithmetic \cup {"Negate", "Pop"}, EmitOp(op)
        PROVE  EmitterInv' /\ Plain!MeaningNext
    <2>1. op \in Operators /\ HasOperands(Operands(op))
      BY <1>2 DEF EmitOp, Operators
    <2>2. EmitterInv' /\ Plain!Apply(op)
      BY <1>2, <2>1, EmitOpStep, PlainApply
    <2>3. QED
      BY <2>1, <2>2, PlainTerms DEF Plain!MeaningNext
  <1>3. ASSUME EmitLocal PROVE EmitterInv' /\ Plain!MeaningNext
    <2>1. EmitterInv' /\ Plain!Load(X)
      BY <1>3, LocalStep, PlainLoad
    <2>2. QED
      BY <2>1, PlainTerms DEF Plain!MeaningNext
  <1>4. ASSUME EmitCall PROVE EmitterInv' /\ Plain!MeaningNext
    <2>1. "Call" \in Operators /\ HasOperands(Operands("Call"))
      BY <1>4 DEF EmitCall, Operators
    <2>2. EmitterInv' /\ Plain!Apply("Call")
      BY <1>4, <2>1, EmitCallStep, PlainApply
    <2>3. QED
      BY <2>1, <2>2, PlainTerms DEF Plain!MeaningNext
  <1>5. ASSUME BeginAnd PROVE EmitterInv' /\ Plain!MeaningNext
    <2>1. PICK n : n = Len(ands) + 1
      OBVIOUS
    <2>2. EmitterInv' /\ n \in 1 .. AndsMax /\ Plain!BeginAnd(n)
      BY <1>5, <2>1, BeginAndStep, PlainBegin
    <2>3. QED
      BY <2>2 DEF Plain!MeaningNext
  <1>6. ASSUME EndAnd PROVE EmitterInv' /\ Plain!MeaningNext
    <2>1. PICK n : n = Len(ands)
      OBVIOUS
    <2>2. EmitterInv' /\ n \in 1 .. AndsMax /\ Plain!EndAnd(n)
      BY <1>6, <2>1, EndAndStep, PlainEnd
    <2>3. QED
      BY <2>2 DEF Plain!MeaningNext
  <1>7. ASSUME Break PROVE EmitterInv' /\ Plain!MeaningNext
    <2>1. EmitterInv' /\ Plain!Leave
      BY <1>7, BreakStep, PlainLeave
    <2>2. QED
      BY <2>1 DEF Plain!MeaningNext
  <1>8. ASSUME NewLine \/ UNCHANGED emitterVars
        PROVE  EmitterInv' /\ UNCHANGED Plain!meaningVars
    BY <1>8, NewLineStep, EmitterStutter DEF Plain!meaningVars
  <1>9. QED
    BY <1>1, <1>2, <1>3, <1>4, <1>5, <1>6, <1>7, <1>8 DEF EmitterNext

(* What the results follow from: the window of the peephole optimiser is   *)
(* the end of the code, and no jump leads into it (emitConstant, emitOp,   *)
(* tryFold, tryFuseAddConst, patchJump).                                   *)
THEOREM EmitterInvariant ==
  ASSUME ConstantArguments => ~Fold /\ ~SuperOps
  PROVE  EmitterSpec => []EmitterInv
  <1>1. EmitterInit => EmitterInv
    BY EmitterStart
  <1>2. EmitterInv /\ [EmitterNext]_emitterVars => EmitterInv'
    BY EmitterStep
  <1>3. QED
    BY <1>1, <1>2, PTL DEF EmitterSpec

(* The code, the pool and the line table hold what the compiler believes   *)
(* they do: no rewrite takes the window out of its range.                  *)
THEOREM EmitterTypeCorrect ==
  ASSUME ConstantArguments => ~Fold /\ ~SuperOps
  PROVE  EmitterSpec => []EmitterTypeOK
  <1>1. EmitterInv => EmitterTypeOK
    BY DEF EmitterInv
  <1>2. QED
    BY <1>1, EmitterInvariant, PTL

(* stackDepth, from which the slots of locals are taken, is the height of  *)
(* the stack in every execution that gets there, whatever has been folded, *)
(* fused, jumped over or dropped by a break.                               *)
THEOREM DepthAlwaysTrue ==
  ASSUME ConstantArguments => ~Fold /\ ~SuperOps
  PROVE  EmitterSpec => []DepthIsTrue
  <1>1. EmitterInv => DepthIsTrue
    BY DEF EmitterInv, RunInv, DepthIsTrue
  <1>2. QED
    BY <1>1, EmitterInvariant, PTL

(* Chunk::write and Chunk::rewind keep for every byte the line it was      *)
(* emitted at, through rewrites over several lines.                        *)
THEOREM LinesAlwaysTrue ==
  ASSUME ConstantArguments => ~Fold /\ ~SuperOps
  PROVE  EmitterSpec => []LinesTrue
  <1>1. EmitterInv => LinesTrue
    BY CodeTyped DEF EmitterInv, LinesInv, LinesOf, LinesTrue
  <1>2. QED
    BY <1>1, EmitterInvariant, PTL

(* The code with the rewrites leaves what the code without them leaves, in *)
(* every program, for both ways each `and` can go.                         *)
THEOREM RewritesKeepMeaning ==
  ASSUME ConstantArguments => ~Fold /\ ~SuperOps
  PROVE  EmitterSpec => MeansTheSame
  <1>1. EmitterInit => Plain!MeaningInit
    BY EmitterStart DEF Plain!MeaningInit, Plain!Truths
  <1>2. EmitterInv /\ [EmitterNext]_emitterVars => [Plain!MeaningNext]_(Plain!meaningVars)
    BY EmitterStep
  <1>3. QED
    BY <1>1, <1>2, EmitterInvariant, PTL DEF EmitterSpec, MeansTheSame, Plain!MeaningSpec
=============================================================================
