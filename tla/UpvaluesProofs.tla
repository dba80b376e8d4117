--------------------------- MODULE UpvaluesProofs ---------------------------
(***************************************************************************)
(* Proofs about Upvalues, for stacks and frames of every size and every    *)
(* set of variables and upvalues, as long as nothing leaves a variable     *)
(* behind that is captured (Abrupt = {}).                                  *)
(***************************************************************************)
EXTENDS Upvalues, FiniteSetTheorems, TLAPS

LEMMA Smallest ==
  ASSUME NEW D \in SUBSET Nat, D # {}
  PROVE  \E n \in D : \A e \in D : n <= e
  <1> DEFINE R == OpToRel(<, Nat)
  <1>1. IsWellFoundedOn(R, Nat)
    BY NatLessThanWellFounded
  <1>2. \A x, y \in Nat : x < y => <<x, y>> \in R
    BY Zenon DEF OpToRel
  <1> HIDE DEF R
  <1>3. PICK x \in D : \A y \in D : <<y, x>> \notin R
    BY <1>1, WFMin
  <1>4. \A y \in D : ~ (y < x)
    BY <1>2, <1>3, Zenon
  <1>5. QED
    BY <1>4

LEMMA AnyValueTyped == AnyValue \in Values
  BY ValuesAssumption DEF AnyValue

(* In a list that descends, what is at `last` or above comes first.        *)
LEMMA Parted ==
  ASSUME UpvaluesTypeOK, OpenSorted, NEW last \in Nat
  PROVE  \E n \in 0 .. Len(open) :
           /\ \A i \in 1 .. n : at[open[i]] >= last
           /\ \A i \in n + 1 .. Len(open) : at[open[i]] < last
  <1>1. /\ Len(open) \in Nat
        /\ \A i \in 1 .. Len(open) : open[i] \in Upvalues /\ at[open[i]] \in Nat
    BY BoundsAssumption DEF UpvaluesTypeOK
  <1> DEFINE D == {m \in 0 .. Len(open) :
                     \A i \in m + 1 .. Len(open) : at[open[i]] < last}
  <1>2. PICK n \in D : \A e \in D : n <= e
    <2>1. Len(open) \in D /\ D \in SUBSET Nat
      BY <1>1
    <2> HIDE DEF D
    <2>2. QED
      BY <2>1, Smallest
  <1>3. ASSUME NEW i \in 1 .. n PROVE at[open[i]] >= last
    <2>1. n \in 1 .. Len(open) /\ n - 1 \in 0 .. Len(open)
      BY <1>1, <1>2
    <2>2. n - 1 \notin D
      <3> HIDE DEF D
      <3>1. QED
        BY <1>2, <2>1
    <2>3. at[open[n]] >= last
      BY <1>1, <1>2, <2>1, <2>2
    <2>4. QED
      BY <1>1, <1>2, <2>1, <2>3 DEF OpenSorted
  <1>4. QED
    BY <1>2, <1>3

LEMMA ClosesFromIs ==
  ASSUME UpvaluesTypeOK, OpenSorted, NEW last \in Nat
  PROVE  /\ ClosesFrom(last) \in 0 .. Len(open)
         /\ \A i \in 1 .. Len(open) : i <= ClosesFrom(last) <=> at[open[i]] >= last
  <1>1. /\ Len(open) \in Nat
        /\ \A i \in 1 .. Len(open) : open[i] \in Upvalues /\ at[open[i]] \in Nat
    BY BoundsAssumption DEF UpvaluesTypeOK
  <1> DEFINE P(n) == /\ \A i \in 1 .. n : at[open[i]] >= last
                     /\ n < Len(open) => at[open[n + 1]] < last
             n == ClosesFrom(last)
  <1>2. \E m \in 0 .. Len(open) : P(m)
    <2>1. PICK m \in 0 .. Len(open) : /\ \A i \in 1 .. m : at[open[i]] >= last
                                      /\ \A i \in m + 1 .. Len(open) : at[open[i]] < last
      BY Parted
    <2>2. P(m)
      BY <1>1, <2>1
    <2>3. QED
      BY <2>2
  <1>3. n \in 0 .. Len(open) /\ P(n)
    BY <1>2 DEF ClosesFrom
  <1> HIDE DEF n
  <1>4. \A i \in n + 1 .. Len(open) : at[open[i]] < last
    <2> SUFFICES ASSUME NEW i \in n + 1 .. Len(open), i # n + 1 PROVE at[open[i]] < last
      BY <1>1, <1>3
    <2>1. at[open[i]] < at[open[n + 1]]
      BY <1>1, <1>3 DEF OpenSorted
    <2>2. QED
      BY <1>1, <1>3, <2>1
  <1>5. \A i \in 1 .. Len(open) : i \in 1 .. n \/ i \in n + 1 .. Len(open)
    BY <1>1, <1>3
  <1>6. ASSUME NEW i \in 1 .. Len(open) PROVE i <= n <=> at[open[i]] >= last
    BY <1>1, <1>3, <1>4, <1>5
  <1>7. QED
    BY <1>3, <1>6 DEF n

(* The two parts a sequence is cut into.                                   *)
LEMMA Prefix ==
  ASSUME NEW S, NEW s \in Seq(S), NEW t \in 0 .. Len(s)
  PROVE  /\ SubSeq(s, 1, t) \in Seq(S) /\ Len(SubSeq(s, 1, t)) = t
         /\ \A i \in 1 .. t : SubSeq(s, 1, t)[i] = s[i]
  OBVIOUS

LEMMA Suffix ==
  ASSUME NEW S, NEW s \in Seq(S), NEW t \in 0 .. Len(s)
  PROVE  /\ SubSeq(s, t + 1, Len(s)) \in Seq(S) /\ Len(SubSeq(s, t + 1, Len(s))) = Len(s) - t
         /\ \A i \in 1 .. Len(s) - t : SubSeq(s, t + 1, Len(s))[i] = s[t + i]
  <1>1. Len(s) \in Nat /\ t \in Nat /\ t <= Len(s)
    OBVIOUS
  <1>2. SubSeq(s, t + 1, Len(s)) \in Seq(S)
    OBVIOUS
  <1>3. Len(SubSeq(s, t + 1, Len(s))) = Len(s) - t
    OBVIOUS
  <1>4. \A i \in 1 .. Len(s) - t : SubSeq(s, t + 1, Len(s))[i] = s[t + i]
    OBVIOUS
  <1>5. QED
    BY <1>2, <1>3, <1>4

LEMMA OpenTyped ==
  ASSUME UpvaluesTypeOK
  PROVE  /\ open \in Seq(Upvalues) /\ Len(open) \in Nat /\ Top \in Nat /\ StackMax \in Nat
         /\ \A i \in 1 .. Len(open) : open[i] \in Upvalues
         /\ \A u \in Upvalues : at[u] \in Nat /\ at[u] <= StackMax
         /\ at \in [Upvalues -> 0 .. StackMax]
         /\ closed \in [Upvalues -> Values]
         /\ cellOf \in [Upvalues -> Cells \cup {Temporary}]
  BY BoundsAssumption DEF UpvaluesTypeOK

LEMMA Descending ==
  ASSUME UpvaluesInv
  PROVE  /\ Len(open) \in Nat /\ StackMax \in Nat
         /\ \A i \in 1 .. Len(open) : open[i] \in Upvalues /\ at[open[i]] \in Nat
         /\ \A i, j \in 1 .. Len(open) : i < j => at[open[j]] < at[open[i]]
  BY OpenTyped DEF UpvaluesInv, OpenSorted

(* closeUpvalues(last) closes what is open at `last` or above.             *)
LEMMA CloseSound ==
  ASSUME UpvaluesInv, NEW last \in Nat \ {0}, CloseUpvalues(last)
  PROVE  /\ open' \in Seq(Upvalues) /\ at' \in [Upvalues -> 0 .. StackMax]
         /\ closed' \in [Upvalues -> Values] /\ held' = held
         /\ cellOf' \in [Upvalues -> Cells \cup {Temporary}]
         /\ OpenSorted'
         /\ \A u \in Upvalues :
              /\ at'[u] = IF at[u] >= last THEN 0 ELSE at[u]
              /\ closed'[u] = IF at[u] >= last /\ u \in held THEN stack[at[u]]
                              ELSE closed[u]
              /\ cellOf'[u] = IF at[u] >= last /\ u \notin held THEN Temporary
                              ELSE cellOf[u]
  <1> DEFINE n == ClosesFrom(last)
             leaving == {open[i] : i \in 1 .. n}
  <1>1. /\ n \in 0 .. Len(open)
        /\ \A i \in 1 .. Len(open) : i <= n <=> at[open[i]] >= last
    BY ClosesFromIs DEF UpvaluesInv
  <1>2. /\ closed' = [u \in Upvalues |-> IF u \in leaving \cap held THEN stack[at[u]]
                                         ELSE closed[u]]
        /\ at' = Without(at, leaving, 0) /\ open' = SubSeq(open, n + 1, Len(open))
        /\ cellOf' = Without(cellOf, leaving \ held, Temporary)
        /\ held' = held
    BY DEF CloseUpvalues
  <1> HIDE DEF n
  <1>3. \A u \in Upvalues : u \in leaving <=> at[u] >= last
    <2>1. ASSUME NEW u \in Upvalues, u \in leaving PROVE at[u] >= last
      BY <1>1, <2>1, OpenTyped DEF UpvaluesInv
    <2>2. ASSUME NEW u \in Upvalues, at[u] >= last PROVE u \in leaving
      <3>1. PICK i \in 1 .. Len(open) : open[i] = u
        BY <2>2, OpenTyped DEF UpvaluesInv, OpenSorted, IsOpen
      <3>2. i \in 1 .. n
        BY <1>1, <2>2, <3>1, OpenTyped DEF UpvaluesInv
      <3>3. QED
        BY <3>1, <3>2
    <2>3. QED
      BY <2>1, <2>2
  <1> HIDE DEF leaving
  <1>4. \A u \in Upvalues :
          /\ at'[u] = IF at[u] >= last THEN 0 ELSE at[u]
          /\ closed'[u] = IF at[u] >= last /\ u \in held THEN stack[at[u]]
                          ELSE closed[u]
          /\ cellOf'[u] = IF at[u] >= last /\ u \notin held THEN Temporary
                          ELSE cellOf[u]
    BY <1>2, <1>3 DEF Without
  <1>5. at' \in [Upvalues -> 0 .. StackMax] /\ cellOf' \in [Upvalues -> Cells \cup {Temporary}]
    BY <1>2, OpenTyped DEF Without, UpvaluesInv
  <1>6. closed' \in [Upvalues -> Values]
    <2>1. \A u \in Upvalues : at[u] >= last => stack[at[u]] \in Values
      BY OpenTyped DEF UpvaluesInv, CapturesSound, UpvaluesTypeOK, Top
    <2>2. QED
      BY <1>2, <1>3, <2>1, OpenTyped DEF UpvaluesInv
  <1>7. /\ open' \in Seq(Upvalues) /\ Len(open') = Len(open) - n
        /\ \A i \in 1 .. Len(open) - n : open'[i] = open[n + i]
    <2>1. open \in Seq(Upvalues)
      BY OpenTyped DEF UpvaluesInv
    <2>2. QED
      BY <1>1, <1>2, <2>1, Suffix
  <1>8. \A i \in 1 .. Len(open') : at'[open'[i]] = at[open[n + i]] /\ n + i \in 1 .. Len(open)
    <2>1. ASSUME NEW i \in 1 .. Len(open')
          PROVE  /\ n + i \in 1 .. Len(open) /\ open[n + i] \in Upvalues
                 /\ open'[i] = open[n + i] /\ ~(n + i <= n)
      <3>1. open \in Seq(Upvalues) /\ Len(open) \in Nat /\ n \in Nat /\ i \in 1 .. Len(open) - n
        BY <1>1, <1>7, OpenTyped DEF UpvaluesInv
      <3>2. n + i \in 1 .. Len(open) /\ ~(n + i <= n)
        BY <3>1
      <3>3. QED
        BY <1>7, <3>1, <3>2
    <2>2. ASSUME NEW i \in 1 .. Len(open') PROVE ~(at[open[n + i]] >= last)
      BY <1>1, <2>1
    <2>3. QED
      BY <1>4, <2>1, <2>2
  <1>9. \A i, j \in 1 .. Len(open') : i < j => at'[open'[j]] < at'[open'[i]]
    <2> SUFFICES ASSUME NEW i \in 1 .. Len(open'), NEW j \in 1 .. Len(open'), i < j
                 PROVE  at'[open'[j]] < at'[open'[i]]
      OBVIOUS
    <2>1. n + i \in 1 .. Len(open) /\ n + j \in 1 .. Len(open) /\ n + i < n + j
      BY <1>1, <1>7, <1>8, Descending
    <2>2. at[open[n + j]] < at[open[n + i]]
      BY <2>1, Descending
    <2>3. QED
      BY <1>8, <2>2
  <1>10. ASSUME NEW u \in Upvalues PROVE at'[u] # 0 <=> IsOpen(u)'
    <2>1. ASSUME at'[u] # 0 PROVE IsOpen(u)'
      <3>1. at[u] # 0 /\ ~(at[u] >= last)
        BY <1>4, <2>1
      <3>2. PICK i \in 1 .. Len(open) : open[i] = u
        BY <3>1 DEF UpvaluesInv, OpenSorted, IsOpen
      <3>3. i > n /\ i - n \in 1 .. Len(open') /\ open'[i - n] = u
        BY <1>1, <1>7, <3>1, <3>2, OpenTyped DEF UpvaluesInv
      <3>4. QED
        BY <3>3 DEF IsOpen
    <2>2. ASSUME IsOpen(u)' PROVE at'[u] # 0
      <3>1. PICK i \in 1 .. Len(open') : open'[i] = u
        BY <2>2 DEF IsOpen
      <3>2. at'[u] = at[u] /\ u = open[n + i] /\ n + i \in 1 .. Len(open)
        BY <1>1, <1>7, <1>8, <3>1, OpenTyped DEF UpvaluesInv
      <3>3. QED
        BY <3>2 DEF UpvaluesInv, OpenSorted, IsOpen
    <2>3. QED
      BY <2>1, <2>2
  <1>11. OpenSorted'
    BY <1>9, <1>10 DEF OpenSorted
  <1>12. QED
    BY <1>2, <1>4, <1>5, <1>6, <1>7, <1>11

(* captureUpvalue finds the open upvalue of the slot or links a new one.   *)
LEMMA CaptureSound ==
  ASSUME UpvaluesInv, NEW i \in Nat \ {0}, NEW u \in Upvalues, Capture(i, u), i <= StackMax
  PROVE  /\ open' \in Seq(Upvalues) /\ at' \in [Upvalues -> 0 .. StackMax]
         /\ OpenSorted' /\ at' = [at EXCEPT ![u] = i]
         /\ \/ at[u] = i
            \/ at[u] = 0 /\ u \notin held /\ \A w \in Upvalues : at[w] # i
  <1> DEFINE P(m) == /\ \A j \in 1 .. m : at[open[j]] > i
                     /\ m < Len(open) => at[open[m + 1]] <= i
             n == CHOOSE m \in 0 .. Len(open) : P(m)
  <1>1. n \in 0 .. Len(open) /\ P(n)
    <2>1. PICK next \in Nat : next = i + 1
      OBVIOUS
    <2>2. PICK m \in 0 .. Len(open) :
                /\ \A j \in 1 .. m : at[open[j]] >= next
                /\ \A j \in m + 1 .. Len(open) : at[open[j]] < next
      BY Parted DEF UpvaluesInv
    <2>3. \A j \in 1 .. m : at[open[j]] > i
      BY <2>1, <2>2, Descending
    <2>4. m < Len(open) => at[open[m + 1]] <= i
      BY <2>1, <2>2, Descending
    <2>5. QED
      BY <2>3, <2>4
  <1>2. /\ IF n < Len(open) /\ at[open[n + 1]] = i
           THEN u = open[n + 1] /\ UNCHANGED <<open, at>>
           ELSE /\ u \notin held /\ ~IsOpen(u)
                /\ open' = SubSeq(open, 1, n) \o <<u>> \o SubSeq(open, n + 1, Len(open))
                /\ at' = [at EXCEPT ![u] = i]
    BY DEF Capture
  <1> HIDE DEF n
  <1>3. CASE n < Len(open) /\ at[open[n + 1]] = i
    <2>1. u = open[n + 1] /\ UNCHANGED <<open, at>> /\ at[u] = i
      BY <1>2, <1>3
    <2>2. at' = [at EXCEPT ![u] = i]
      BY <2>1, OpenTyped DEF UpvaluesInv
    <2>3. OpenSorted'
      BY <2>1 DEF UpvaluesInv, OpenSorted, IsOpen
    <2>4. QED
      BY <2>1, <2>2, <2>3, OpenTyped DEF UpvaluesInv
  <1>4. CASE ~(n < Len(open) /\ at[open[n + 1]] = i)
    <2>1. /\ u \notin held /\ ~IsOpen(u) /\ at' = [at EXCEPT ![u] = i]
          /\ open' = SubSeq(open, 1, n) \o <<u>> \o SubSeq(open, n + 1, Len(open))
      BY <1>2, <1>4
    <2>2. at[u] = 0 /\ at' \in [Upvalues -> 0 .. StackMax] /\ at'[u] = i
          /\ \A w \in Upvalues : w # u => at'[w] = at[w]
      BY <2>1, OpenTyped DEF UpvaluesInv, OpenSorted
    <2>3. \A j \in 1 .. Len(open) : (j <= n => at[open[j]] > i) /\ (j > n => at[open[j]] < i)
      <3>1. \A j \in 1 .. Len(open) : j = n + 1 => at[open[j]] < i
        BY <1>1, <1>4, OpenTyped DEF UpvaluesInv
      <3>2. \A j \in 1 .. Len(open) : j > n + 1 => at[open[j]] < at[open[n + 1]]
        BY <1>1, Descending
      <3>3. QED
        BY <1>1, <3>1, <3>2, Descending
    <2>4. /\ open' \in Seq(Upvalues) /\ Len(open') = Len(open) + 1
          /\ \A j \in 1 .. n : open'[j] = open[j]
          /\ open'[n + 1] = u
          /\ \A j \in n + 2 .. Len(open) + 1 : open'[j] = open[j - 1]
      <3> DEFINE a == SubSeq(open, 1, n)
                 b == SubSeq(open, n + 1, Len(open))
      <3>1. /\ a \in Seq(Upvalues) /\ Len(a) = n /\ \A j \in 1 .. n : a[j] = open[j]
            /\ b \in Seq(Upvalues) /\ Len(b) = Len(open) - n
            /\ \A j \in 1 .. Len(open) - n : b[j] = open[n + j]
        <4>1. open \in Seq(Upvalues) /\ n \in 0 .. Len(open) /\ Len(open) \in Nat
          BY <1>1, OpenTyped DEF UpvaluesInv
        <4>2. a \in Seq(Upvalues) /\ Len(a) = n /\ \A j \in 1 .. n : a[j] = open[j]
          BY <4>1, Prefix
        <4>3. /\ b \in Seq(Upvalues) /\ Len(b) = Len(open) - n
              /\ \A j \in 1 .. Len(open) - n : b[j] = open[n + j]
          BY <4>1, Suffix
        <4>4. QED
          BY <4>2, <4>3
      <3>2. open' = a \o <<u>> \o b /\ <<u>> \in Seq(Upvalues) /\ Len(<<u>>) = 1
        BY <2>1
      <3> HIDE DEF a, b
      <3>3. /\ a \o <<u>> \in Seq(Upvalues) /\ Len(a \o <<u>>) = n + 1
            /\ \A j \in 1 .. n : (a \o <<u>>)[j] = open[j]
            /\ (a \o <<u>>)[n + 1] = u
        <4>1. a \in Seq(Upvalues) /\ Len(a) = n /\ n \in Nat
          BY <1>1, <3>1
        <4>2. a \o <<u>> = Append(a, u)
          BY <4>1
        <4>3. /\ Append(a, u) \in Seq(Upvalues) /\ Len(Append(a, u)) = n + 1
              /\ Append(a, u)[n + 1] = u
              /\ \A j \in 1 .. n : Append(a, u)[j] = a[j]
          BY <4>1
        <4>4. QED
          BY <3>1, <4>2, <4>3
      <3>4. n \in Nat /\ Len(open) \in Nat
        BY <1>1, Descending
      <3>5. /\ open' \in Seq(Upvalues) /\ Len(open') = Len(open) + 1
            /\ \A j \in 1 .. n + 1 : open'[j] = (a \o <<u>>)[j]
            /\ \A j \in n + 2 .. Len(open) + 1 : open'[j] = b[j - (n + 1)]
        <4> DEFINE c == a \o <<u>>
        <4>1. c \in Seq(Upvalues) /\ Len(c) = n + 1 /\ open' = c \o b
          BY <3>2, <3>3
        <4> HIDE DEF c
        <4>2. /\ open' \in Seq(Upvalues) /\ Len(open') = Len(c) + Len(b)
              /\ \A j \in 1 .. Len(open') : open'[j] = IF j <= Len(c) THEN c[j]
                                                      ELSE b[j - Len(c)]
          BY <3>1, <4>1, SMTT(20)
        <4>3. Len(open') = Len(open) + 1
          BY <3>1, <3>4, <4>1, <4>2
        <4>4. \A j \in 1 .. n + 1 : open'[j] = c[j]
          BY <1>1, <3>4, <4>1, <4>2, <4>3
        <4>5. \A j \in n + 2 .. Len(open) + 1 : open'[j] = b[j - (n + 1)]
          BY <1>1, <3>4, <4>1, <4>2, <4>3
        <4>6. QED
          BY <4>2, <4>3, <4>4, <4>5 DEF c
      <3>6. \A j \in n + 2 .. Len(open) + 1 : open'[j] = open[j - 1]
        <4> SUFFICES ASSUME NEW j \in n + 2 .. Len(open) + 1 PROVE open'[j] = open[j - 1]
          OBVIOUS
        <4>1. j - (n + 1) \in 1 .. Len(open) - n /\ n + (j - (n + 1)) = j - 1
          BY <1>1, <3>4
        <4>2. b[j - (n + 1)] = open[n + (j - (n + 1))]
          BY <3>1, <4>1
        <4>3. open'[j] = b[j - (n + 1)]
          BY <3>5
        <4>4. QED
          BY <4>1, <4>2, <4>3
      <3>7. QED
        BY <1>1, <3>3, <3>4, <3>5, <3>6
    <2>5. ASSUME NEW w \in Upvalues PROVE at'[w] # 0 <=> IsOpen(w)'
      <3>1. IsOpen(w) => IsOpen(w)'
        <4> SUFFICES ASSUME NEW j \in 1 .. Len(open), open[j] = w PROVE IsOpen(w)'
          BY DEF IsOpen
        <4>1. CASE j <= n
          BY <1>1, <2>4, <4>1 DEF IsOpen
        <4>2. CASE j > n
          <5>1. j + 1 \in n + 2 .. Len(open) + 1 /\ j + 1 \in 1 .. Len(open')
            BY <1>1, <2>4, <4>2
          <5>2. open'[j + 1] = w
            BY <2>4, <5>1
          <5>3. QED
            BY <5>1, <5>2 DEF IsOpen
        <4>3. QED
          BY <1>1, <4>1, <4>2
      <3>2. IsOpen(w)' => w = u \/ IsOpen(w)
        <4> SUFFICES ASSUME NEW j \in 1 .. Len(open'), open'[j] = w PROVE w = u \/ IsOpen(w)
          BY DEF IsOpen
        <4>1. CASE j <= n
          BY <1>1, <2>4, <4>1 DEF IsOpen
        <4>2. CASE j = n + 1
          BY <2>4, <4>2
        <4>3. CASE j > n + 1
          <5>1. j \in n + 2 .. Len(open) + 1 /\ j - 1 \in 1 .. Len(open)
            BY <1>1, <2>4, <4>3
          <5>2. QED
            BY <2>4, <5>1 DEF IsOpen
        <4>4. QED
          BY <1>1, <2>4, <4>1, <4>2, <4>3
      <3>3. IsOpen(u)'
        BY <1>1, <2>4 DEF IsOpen
      <3>4. QED
        BY <2>2, <3>1, <3>2, <3>3 DEF UpvaluesInv, OpenSorted
    <2>6. \A j \in 1 .. Len(open) : open[j] # u
      BY <2>1 DEF IsOpen
    <2>7. /\ \A j \in 1 .. n : at'[open'[j]] = at[open[j]] /\ at'[open'[j]] > i
          /\ at'[open'[n + 1]] = i
          /\ \A j \in n + 2 .. Len(open') :
                at'[open'[j]] = at[open[j - 1]] /\ at'[open'[j]] < i
      <3>1. \A j \in 1 .. n : j \in 1 .. Len(open)
        BY <1>1, Descending
      <3>2. \A j \in n + 2 .. Len(open') :
              j - 1 \in 1 .. Len(open) /\ j - 1 > n /\ open'[j] = open[j - 1]
        BY <1>1, <2>4, Descending
      <3>3. \A j \in 1 .. Len(open) : at'[open[j]] = at[open[j]]
        BY <2>2, <2>6, Descending
      <3>4. /\ \A j \in 1 .. n : open'[j] = open[j] /\ at[open[j]] > i
            /\ \A j \in n + 2 .. Len(open') : at[open[j - 1]] < i
        BY <1>1, <2>3, <2>4, <3>1, <3>2
      <3>5. \A j \in 1 .. n : at'[open'[j]] = at[open[j]] /\ at'[open'[j]] > i
        BY <3>1, <3>3, <3>4
      <3>6. \A j \in n + 2 .. Len(open') :
              at'[open'[j]] = at[open[j - 1]] /\ at'[open'[j]] < i
        BY <3>2, <3>3, <3>4
      <3>7. at'[open'[n + 1]] = i
        BY <2>2, <2>4
      <3>8. QED
        BY <3>5, <3>6, <3>7
    <2>8. ASSUME NEW j \in 1 .. Len(open'), NEW k \in 1 .. Len(open'), j < k
          PROVE  at'[open'[k]] < at'[open'[j]]
      <3>1. \A m \in 1 .. Len(open') : m \in 1 .. n \/ m = n + 1 \/ m \in n + 2 .. Len(open')
        BY <1>1, <2>4
      <3>2. /\ Len(open) \in Nat /\ n \in Nat /\ Len(open') = Len(open) + 1
            /\ \A m \in 1 .. Len(open) : at[open[m]] \in Nat
            /\ \A l, m \in 1 .. Len(open) : l < m => at[open[m]] < at[open[l]]
        BY <1>1, <2>4, Descending
      <3>3. CASE k \in 1 .. n
        BY <1>1, <2>7, <2>8, <3>2, <3>3
      <3>4. CASE k = n + 1
        BY <1>1, <2>7, <2>8, <3>2, <3>4
      <3>5. CASE k \in n + 2 .. Len(open')
        <4>1. at'[open'[k]] = at[open[k - 1]] /\ at'[open'[k]] < i /\ k - 1 \in 1 .. Len(open)
          BY <2>7, <3>2, <3>5
        <4>2. CASE j \in 1 .. n
          BY <1>1, <2>7, <2>8, <3>2, <4>1, <4>2
        <4>3. CASE j = n + 1
          BY <2>7, <4>1, <4>3
        <4>4. CASE j \in n + 2 .. Len(open')
          <5>1. j - 1 \in 1 .. Len(open) /\ j - 1 < k - 1
            BY <1>1, <2>8, <3>2, <4>1, <4>4
          <5>2. at[open[k - 1]] < at[open[j - 1]]
            BY <3>2, <4>1, <5>1
          <5>3. QED
            BY <2>7, <4>1, <4>4, <5>2
        <4>5. QED
          BY <3>1, <4>2, <4>3, <4>4
      <3>6. QED
        BY <3>1, <3>3, <3>4, <3>5
    <2>9. OpenSorted'
      BY <2>5, <2>8 DEF OpenSorted
    <2>10. \A w \in Upvalues : at[w] # i
      <3> SUFFICES ASSUME NEW w \in Upvalues, at[w] = i PROVE FALSE
        OBVIOUS
      <3>1. PICK j \in 1 .. Len(open) : open[j] = w
        BY DEF UpvaluesInv, OpenSorted, IsOpen
      <3>2. QED
        BY <1>1, <2>3, <3>1, Descending
    <2>11. QED
      BY <2>1, <2>2, <2>4, <2>9, <2>10
  <1>5. QED
    BY <1>3, <1>4
-----------------------------------------------------------------------------
(* The parts of the invariant that the operations disturb separately.      *)
StackSound ==
  /\ stack \in Seq(Values) /\ Top <= StackMax
  /\ cells \in Seq(Cells \cup {Temporary}) /\ Len(cells) = Top

FramesSound ==
  /\ frames \in Seq([slots : 1 .. Top, params : Nat]) /\ Len(frames) <= FramesMax
  /\ \A i, j \in 1 .. Len(frames) :
       i < j => frames[i].slots + frames[i].params < frames[j].slots
  /\ Running => Frame.slots + Frame.params <= Top

VariablesPlaced ==
  /\ \A i \in 1 .. Top : cells[i] # Temporary => Running /\ frames[1].slots <= i
  /\ \A i, j \in 1 .. Top : cells[i] = cells[j] /\ cells[i] # Temporary => i = j

ListSound ==
  /\ open \in Seq(Upvalues) /\ at \in [Upvalues -> 0 .. StackMax]
  /\ closed \in [Upvalues -> Values] /\ held \subseteq Upvalues
  /\ cellOf \in [Upvalues -> Cells \cup {Temporary}]
  /\ OpenSorted

LEMMA Parts ==
  UpvaluesInv <=> StackSound /\ FramesSound /\ VariablesPlaced /\ ListSound /\ CapturesSound
  BY DEF UpvaluesInv, UpvaluesTypeOK, FramesNested, StackSound, FramesSound,
         VariablesPlaced, ListSound

LEMMA PartsNext ==
  UpvaluesInv' <=> /\ StackSound' /\ FramesSound' /\ VariablesPlaced'
                   /\ ListSound' /\ CapturesSound'
  BY DEF UpvaluesInv, UpvaluesTypeOK, FramesNested, StackSound, FramesSound,
         VariablesPlaced, ListSound

LEMMA StackFacts ==
  ASSUME StackSound
  PROVE  /\ Top \in Nat /\ Len(cells) = Top /\ Top <= StackMax /\ StackMax \in Nat
         /\ Top = Len(stack)
         /\ \A i \in 1 .. Top : stack[i] \in Values /\ cells[i] \in Cells \cup {Temporary}
  BY BoundsAssumption DEF StackSound, Top

LEMMA FrameFacts ==
  ASSUME StackSound, FramesSound
  PROVE  /\ Len(frames) \in Nat
         /\ \A i \in 1 .. Len(frames) :
              /\ frames[i].slots \in 1 .. Top /\ frames[i].params \in Nat
              /\ frames[i].slots \in Nat /\ frames[i].slots <= Top
         /\ Running => /\ Len(frames) >= 1 /\ Frame = frames[Len(frames)]
                       /\ Frame.slots \in Nat \ {0} /\ Frame.params \in Nat
                       /\ frames[1].slots <= Frame.slots /\ frames[1].slots \in Nat \ {0}
  <1> DEFINE F == [slots : 1 .. Top, params : Nat]
  <1>1. Top \in Nat /\ frames \in Seq(F)
    BY StackFacts DEF FramesSound
  <1>2. \A f \in F : f.slots \in 1 .. Top /\ f.params \in Nat
    OBVIOUS
  <1> HIDE DEF F
  <1>3. Len(frames) \in Nat /\ \A i \in 1 .. Len(frames) : frames[i] \in F
    BY <1>1
  <1>4. Running => Len(frames) >= 1 /\ Frame = frames[Len(frames)]
    BY <1>1 DEF Running, Frame
  <1>5. \A i \in 1 .. Len(frames) : frames[i].slots \in 1 .. Top /\ frames[i].params \in Nat
    BY <1>2, <1>3
  <1>6. ASSUME Running PROVE frames[1].slots <= Frame.slots
    <2>1. \A i, j \in 1 .. Len(frames) :
            i < j => frames[i].slots + frames[i].params < frames[j].slots
      BY DEF FramesSound
    <2>2. Len(frames) # 1 => frames[1].slots + frames[1].params < frames[Len(frames)].slots
      <3>1. 1 \in 1 .. Len(frames) /\ Len(frames) \in 1 .. Len(frames)
            /\ (Len(frames) # 1 => 1 < Len(frames))
        BY <1>3, <1>4, <1>6
      <3>2. QED
        BY <2>1, <3>1
    <2>3. QED
      BY <1>1, <1>3, <1>4, <1>5, <1>6, <2>2
  <1>7. QED
    BY <1>1, <1>3, <1>4, <1>5, <1>6

(* The frames stay: the running one needs its callee and its parameters.   *)
LEMMA SameFrames ==
  ASSUME StackSound, FramesSound, frames' = frames, Top' \in Nat,
         Running => Frame.slots + Frame.params <= Top'
  PROVE  FramesSound'
  <1>1. ASSUME NEW i \in 1 .. Len(frames) PROVE frames[i].slots <= Top'
    <2>1. \A j, k \in 1 .. Len(frames) :
            j < k => frames[j].slots + frames[j].params < frames[k].slots
      BY DEF FramesSound
    <2>2. i # Len(frames) => frames[i].slots + frames[i].params < frames[Len(frames)].slots
      BY <1>1, <2>1, FrameFacts
    <2>3. Running
      BY <1>1 DEF Running
    <2>4. /\ frames[i].slots \in Nat /\ frames[i].params \in Nat
          /\ Frame = frames[Len(frames)] /\ Frame.slots \in Nat /\ Frame.params \in Nat
          /\ Frame.slots + Frame.params <= Top' /\ Top' \in Nat
      BY <1>1, <2>3, FrameFacts
    <2>5. i # Len(frames) => frames[i].slots <= Frame.slots
      BY <2>2, <2>4
    <2>6. QED
      BY <2>4, <2>5
  <1> DEFINE F == [slots : 1 .. Top, params : Nat]
             G == [slots : 1 .. Top', params : Nat]
  <1>2. frames \in Seq(G)
    <2>1. \A f \in F : f.slots <= Top' => f \in G
      BY StackFacts
    <2>2. frames \in Seq(F)
      BY DEF FramesSound
    <2> HIDE DEF F, G
    <2>3. \A i \in 1 .. Len(frames) : frames[i] \in G
      BY <1>1, <2>1, <2>2
    <2>4. QED
      BY <2>2, <2>3
  <1> HIDE DEF F, G
  <1>3. QED
    BY <1>2 DEF FramesSound, Running, Frame, G

(* An operation that keeps the t lowest slots as they are, has temporaries *)
(* above them and closes what is open above them.                          *)
LEMMA Truncated ==
  ASSUME UpvaluesInv, StackSound', FramesSound', ListSound',
         NEW t \in 0 .. Top, t <= Top',
         \A i \in 1 .. t : cells'[i] = cells[i],
         \A i \in t + 1 .. Top' : cells'[i] = Temporary,
         \A i \in 1 .. t : cells[i] # Temporary => Running' /\ frames'[1] = frames[1],
         held' \subseteq held,
         \A u \in held' : cellOf'[u] = cellOf[u] /\ (at'[u] = 0 => at[u] = 0 \/ at[u] > t),
         \A u \in Upvalues : at'[u] # 0 =>
           at'[u] = at[u] /\ at[u] <= t /\ cellOf'[u] = cellOf[u]
  PROVE  UpvaluesInv'
  <1>0. StackSound /\ FramesSound /\ VariablesPlaced /\ ListSound /\ CapturesSound
    BY Parts
  <1>1. /\ Top \in Nat /\ Top' \in Nat /\ Len(cells) = Top /\ Len(cells') = Top'
        /\ t \in Nat /\ t <= Top
    BY <1>0, StackFacts DEF StackSound, Top
  <1>2. \A i \in 1 .. Top' : (i \in 1 .. t /\ i \in 1 .. Top) \/ i \in t + 1 .. Top'
    BY <1>1
  <1>3. VariablesPlaced'
    <2>1. \A i \in 1 .. Top' : cells'[i] # Temporary =>
            i \in 1 .. t /\ i \in 1 .. Top /\ cells'[i] = cells[i]
      BY <1>2
    <2>2. QED
      BY <1>0, <2>1 DEF VariablesPlaced
  <1>4. InScope' \subseteq {cells[i] : i \in 1 .. t} \ {Temporary}
    BY <1>1, <1>2 DEF InScope
  <1>5. {cells[i] : i \in 1 .. t} \ {Temporary} \subseteq InScope
    BY <1>1 DEF InScope
  <1>6. \A u \in Upvalues : at[u] \in Nat /\ at'[u] \in Nat
    BY <1>0, <1>1, StackFacts DEF ListSound
  <1>7. ASSUME NEW u \in Upvalues, at'[u] # 0
        PROVE  at'[u] <= Top' /\ cells'[at'[u]] = cellOf'[u] /\ cellOf'[u] # Temporary
    <2>1. /\ at'[u] = at[u] /\ at[u] <= t /\ cellOf'[u] = cellOf[u]
          /\ at[u] <= Top /\ cells[at[u]] = cellOf[u] /\ cellOf[u] # Temporary
      BY <1>0, <1>7 DEF CapturesSound
    <2>2. QED
      BY <1>1, <1>6, <1>7, <2>1
  <1>8. ASSUME NEW u \in held', at'[u] = 0 PROVE cellOf'[u] \in Cells \ InScope'
    <2>1. u \in held /\ u \in Upvalues /\ cellOf'[u] = cellOf[u]
      BY <1>0 DEF ListSound
    <2>2. CASE at[u] = 0
      BY <1>0, <1>4, <1>5, <2>1, <2>2 DEF CapturesSound
    <2>3. CASE at[u] # 0
      <3>1. /\ at[u] > t /\ at[u] \in 1 .. Top /\ cells[at[u]] = cellOf[u]
            /\ cellOf[u] # Temporary /\ cellOf[u] \in Cells
        BY <1>0, <1>1, <1>6, <1>8, <2>1, <2>3 DEF CapturesSound, ListSound
      <3>2. \A i \in 1 .. t : cells[i] # cellOf[u]
        <4> SUFFICES ASSUME NEW i \in 1 .. t, cells[i] = cellOf[u] PROVE FALSE
          OBVIOUS
        <4>1. i \in 1 .. Top /\ i # at[u]
          BY <1>1, <3>1
        <4>2. QED
          BY <1>0, <3>1, <4>1 DEF VariablesPlaced
      <3>3. QED
        BY <1>4, <2>1, <3>1, <3>2
    <2>4. QED
      BY <2>2, <2>3
  <1>9. CapturesSound'
    BY <1>0, <1>7, <1>8 DEF CapturesSound
  <1>10. QED
    BY <1>3, <1>9, PartsNext
-----------------------------------------------------------------------------
LEMMA PrefixAnd ==
  ASSUME NEW S, NEW s \in Seq(S), NEW t \in 0 .. Len(s), NEW x \in S
  PROVE  LET p == Append(SubSeq(s, 1, t), x)
         IN /\ p \in Seq(S) /\ Len(p) = t + 1 /\ p[t + 1] = x
            /\ \A i \in 1 .. t : p[i] = s[i]
  OBVIOUS

LEMMA ListStays ==
  ASSUME ListSound, UNCHANGED listVars PROVE ListSound'
  BY DEF ListSound, OpenSorted, IsOpen, listVars

LEMMA NoneOpenIn ==
  ASSUME UpvaluesInv, NEW S, OpenIn(S) = {}, NEW u \in Upvalues, at[u] # 0
  PROVE  at[u] \notin S
  BY DEF OpenIn, UpvaluesInv, OpenSorted

LEMMA OpenIsVariable ==
  ASSUME UpvaluesInv, NEW u \in Upvalues, at[u] # 0
  PROVE  at[u] \in 1 .. Top /\ cells[at[u]] # Temporary /\ cells[at[u]] = cellOf[u]
  BY Parts, StackFacts DEF CapturesSound, ListSound

(* The t lowest slots stay, temporaries are above them, and closures read  *)
(* what they read before.                                                  *)
Keeps(t) ==
  /\ t \in 0 .. Top /\ t <= Top' /\ held' = held
  /\ \A i \in 1 .. t : cells'[i] = cells[i] /\ stack'[i] = stack[i]
  /\ \A i \in t + 1 .. Top' : cells'[i] = Temporary
  /\ \A u \in held : cellOf'[u] = cellOf[u] /\ Read(u)' = Read(u)

(* Slots from the top are dropped that no upvalue points to.               *)
LEMMA CutStep ==
  ASSUME UpvaluesInv, NEW t \in 0 .. Top, stack' = SubSeq(stack, 1, t),
         cells' = SubSeq(cells, 1, t), UNCHANGED <<frames, listVars>>,
         Running, Frame.slots + Frame.params <= t,
         \A u \in Upvalues : at[u] # 0 => at[u] <= t
  PROVE  UpvaluesInv' /\ Keeps(t)
  <1>1. StackSound /\ FramesSound /\ ListSound
    BY Parts
  <1>2. /\ StackSound' /\ Top' = t
        /\ \A i \in 1 .. t : cells'[i] = cells[i] /\ stack'[i] = stack[i]
    BY <1>1, Prefix, StackFacts DEF StackSound, Top
  <1>3. FramesSound' /\ ListSound'
    BY <1>1, <1>2, SameFrames, ListStays
  <1>4. /\ UNCHANGED <<at, closed, held, cellOf, frames>> /\ Running'
        /\ held \subseteq Upvalues
    BY <1>1 DEF listVars, Running, ListSound
  <1>5. UpvaluesInv'
    BY <1>1, <1>2, <1>3, <1>4, Truncated, StackFacts
  <1>6. \A u \in held : Read(u)' = Read(u)
    BY <1>2, <1>4, OpenIsVariable, StackFacts, <1>1 DEF Read
  <1>7. t <= Top' /\ t + 1 .. Top' = {}
    BY <1>2
  <1>8. QED
    BY <1>2, <1>4, <1>5, <1>6, <1>7 DEF Keeps

(* The value on top moves down onto slot t + 1; what was open above t has  *)
(* been closed.                                                            *)
LEMMA LandStep ==
  ASSUME UpvaluesInv, NEW t \in 0 .. Top - 1, Top > 0,
         stack' = Append(SubSeq(stack, 1, t), stack[Top]),
         cells' = Append(SubSeq(cells, 1, t), Temporary), FramesSound', ListSound',
         \A i \in 1 .. t : cells[i] # Temporary => Running' /\ frames'[1] = frames[1],
         held' = held,
         \A u \in held : /\ cellOf'[u] = cellOf[u]
                         /\ at'[u] = 0 => (at[u] = 0 \/ at[u] > t) /\ closed'[u] = Read(u),
         \A u \in Upvalues : at'[u] # 0 =>
           at'[u] = at[u] /\ at[u] <= t /\ cellOf'[u] = cellOf[u]
  PROVE  UpvaluesInv' /\ Keeps(t)
  <1>1. StackSound /\ FramesSound /\ ListSound
    BY Parts
  <1>2. /\ Top \in Nat /\ t \in 0 .. Top /\ t \in 0 .. Len(stack) /\ t \in 0 .. Len(cells)
        /\ stack[Top] \in Values
    BY <1>1, StackFacts
  <1>3. /\ stack' \in Seq(Values) /\ Len(stack') = t + 1
        /\ cells' \in Seq(Cells \cup {Temporary}) /\ Len(cells') = t + 1
        /\ cells'[t + 1] = Temporary
        /\ \A i \in 1 .. t : cells'[i] = cells[i] /\ stack'[i] = stack[i]
    BY <1>1, <1>2, PrefixAnd DEF StackSound
  <1>4. StackSound' /\ Top' = t + 1
    BY <1>1, <1>2, <1>3, StackFacts DEF StackSound, Top
  <1>5. \A i \in t + 1 .. Top' : cells'[i] = Temporary
    BY <1>2, <1>3, <1>4
  <1>6. t <= Top'
    BY <1>2, <1>4
  <1>7. UpvaluesInv'
    BY <1>2, <1>3, <1>4, <1>5, <1>6, Truncated
  <1>8. \A u \in held : Read(u)' = Read(u)
    <2> SUFFICES ASSUME NEW u \in held PROVE Read(u)' = Read(u)
      OBVIOUS
    <2>1. CASE at'[u] = 0
      BY <2>1 DEF Read
    <2>2. CASE at'[u] # 0
      <3>1. u \in Upvalues /\ at'[u] = at[u] /\ at[u] <= t
        BY <1>1, <2>2 DEF ListSound
      <3>2. at[u] \in 1 .. t
        BY <1>2, <2>2, <3>1, OpenIsVariable
      <3>3. QED
        BY <1>3, <2>2, <3>1, <3>2 DEF Read
    <2>3. QED
      BY <2>1, <2>2
  <1>9. QED
    BY <1>2, <1>3, <1>5, <1>6, <1>7, <1>8 DEF Keeps

LEMMA PopStep == ASSUME UpvaluesInv, Pop
  PROVE  UpvaluesInv' /\ \E t : Keeps(t)
  <1>1. StackSound /\ FramesSound
    BY Parts
  <1>2. /\ Running /\ Top >= Frame.slots + Frame.params + 1 /\ cells[Top] = Temporary
        /\ stack' = SubSeq(stack, 1, Top - 1) /\ cells' = SubSeq(cells, 1, Top - 1)
        /\ UNCHANGED <<frames, listVars>>
    BY DEF Pop, HasTemporary, FirstFree
  <1>3. /\ Top - 1 \in 0 .. Top /\ Frame.slots + Frame.params <= Top - 1
    BY <1>1, <1>2, StackFacts, FrameFacts
  <1>4. \A u \in Upvalues : at[u] # 0 => at[u] <= Top - 1
    BY <1>1, <1>2, OpenIsVariable, StackFacts
  <1>5. QED
    BY <1>2, <1>3, <1>4, CutStep

LEMMA LeaveLoopStep ==
  ASSUME UpvaluesInv, Abrupt = {}, NEW n \in 1 .. Top, LeaveLoop(n)
  PROVE  UpvaluesInv' /\ \E t : Keeps(t)
  <1>1. StackSound /\ FramesSound
    BY Parts
  <1>2. /\ Running /\ Top - n >= FirstFree - 1
        /\ OpenIn(Top - n + 1 .. Top) = {}
        /\ stack' = SubSeq(stack, 1, Top - n) /\ cells' = SubSeq(cells, 1, Top - n)
        /\ UNCHANGED <<frames, listVars>>
    BY DEF LeaveLoop
  <1>3. /\ Top - n \in 0 .. Top /\ Frame.slots + Frame.params <= Top - n
    BY <1>1, <1>2, StackFacts, FrameFacts DEF FirstFree
  <1>4. ASSUME NEW u \in Upvalues, at[u] # 0 PROVE at[u] <= Top - n
    <2>1. at[u] \in 1 .. Top /\ at[u] \notin Top - n + 1 .. Top
      BY <1>2, <1>4, OpenIsVariable, NoneOpenIn
    <2>2. QED
      BY <1>1, <2>1, StackFacts
  <1>5. QED
    BY <1>2, <1>3, <1>4, CutStep

(* Between the variables of a block and the slots below nothing stays open *)
(* when the lowest captured one is closed with all above it.               *)
LEMMA LowestCaptured ==
  ASSUME UpvaluesInv, NEW n \in Nat, n > 0, Covers(n),
         OpenIn(Top - n .. Top - 1) # {}
  PROVE  LET captured == OpenIn(Top - n .. Top - 1)
             last == CHOOSE s \in captured : \A t \in captured : s <= t
         IN /\ last \in Top - n .. Top - 1 /\ last \in Nat \ {0}
            /\ \A u \in Upvalues : at[u] # 0 => (at[u] >= last <=> at[u] > Top - n - 1)
  <1> DEFINE captured == OpenIn(Top - n .. Top - 1)
             last == CHOOSE s \in captured : \A t \in captured : s <= t
  <1>1. /\ Top \in Nat /\ Top - n \in Nat \ {0} /\ cells[Top] = Temporary
        /\ captured \subseteq Top - n .. Top - 1
    <2>1. /\ Running /\ Top - n >= Frame.slots + Frame.params + 1
          /\ cells[Top] = Temporary
      BY DEF Covers, HasTemporary, FirstFree
    <2>2. Top \in Nat /\ Frame.slots \in Nat /\ Frame.params \in Nat
      BY <2>1, Parts, StackFacts, FrameFacts
    <2>3. QED
      BY <2>1, <2>2 DEF OpenIn
  <1>2. captured \in SUBSET Nat /\ captured # {}
    BY <1>1
  <1>3. \A u \in Upvalues : at[u] # 0 /\ at[u] \in Top - n .. Top - 1 => at[u] \in captured
    BY DEF OpenIn, UpvaluesInv, OpenSorted
  <1> HIDE DEF captured
  <1>4. last \in captured /\ \A t \in captured : last <= t
    BY <1>2, Smallest
  <1> HIDE DEF last
  <1>5. \A u \in Upvalues : at[u] # 0 => at[u] \in 1 .. Top /\ at[u] # Top
    BY <1>1, OpenIsVariable
  <1>6. last \in Top - n .. Top - 1 /\ last \in Nat \ {0}
    BY <1>1, <1>4
  <1>7. ASSUME NEW u \in Upvalues, at[u] # 0 PROVE at[u] >= last <=> at[u] > Top - n - 1
    <2>1. at[u] \in 1 .. Top - 1
      BY <1>1, <1>5, <1>7
    <2>2. at[u] >= last => at[u] > Top - n - 1
      BY <1>1, <1>6, <2>1
    <2>3. at[u] > Top - n - 1 => at[u] >= last
      BY <1>1, <1>3, <1>4, <1>6, <1>7, <2>1
    <2>4. QED
      BY <2>2, <2>3
  <1>8. QED
    BY <1>6, <1>7 DEF last, captured

(* What was open above slot t has been closed, and nothing else.           *)
ClosedAbove(t) ==
  /\ held' = held
  /\ \A u \in held : /\ cellOf'[u] = cellOf[u]
                     /\ at'[u] = 0 => (at[u] = 0 \/ at[u] > t) /\ closed'[u] = Read(u)
  /\ \A u \in Upvalues : at'[u] # 0 =>
       at'[u] = at[u] /\ at[u] <= t /\ cellOf'[u] = cellOf[u]

(* CloseScope after everything above the block has been closed.            *)
LEMMA ScopeClosed ==
  ASSUME UpvaluesInv, NEW n \in Nat, n > 0, Covers(n), CloseScope(n), ListSound',
         ClosedAbove(Top - n - 1)
  PROVE  UpvaluesInv' /\ \E t : Keeps(t)
  <1>1. StackSound /\ FramesSound /\ ListSound
    BY Parts
  <1>2. /\ Running /\ Top - n >= Frame.slots + Frame.params + 1
        /\ stack' = Append(SubSeq(stack, 1, Top - n - 1), stack[Top])
        /\ cells' = Append(SubSeq(cells, 1, Top - n - 1), Temporary)
        /\ frames' = frames
    BY DEF Covers, HasTemporary, FirstFree, CloseScope
  <1> PICK t \in 0 .. Top - 1 : t = Top - n - 1
    BY <1>1, <1>2, StackFacts, FrameFacts
  <1>3. Top > 0 /\ t = Top - n - 1 /\ Frame.slots + Frame.params <= t
        /\ t + 1 <= Top /\ Top \in Nat
    <2>1. Frame.slots \in Nat /\ Frame.params \in Nat /\ Top \in Nat
      BY <1>1, <1>2, StackFacts, FrameFacts
    <2>2. QED
      BY <1>2, <2>1
  <1>4. Top' = t + 1
    BY <1>1, <1>2, <1>3, StackFacts DEF StackSound, Top
  <1>5. FramesSound'
    <2>1. Top' \in Nat /\ Frame.slots + Frame.params <= Top'
      <3>1. Frame.slots \in Nat /\ Frame.params \in Nat
        BY <1>1, <1>2, FrameFacts
      <3>2. QED
        BY <1>3, <1>4, <3>1
    <2>2. QED
      BY <1>1, <1>2, <2>1, SameFrames
  <1>6. Running' /\ frames'[1] = frames[1]
    BY <1>2 DEF Running
  <1>7. QED
    BY <1>2, <1>3, <1>5, <1>6, LandStep DEF ClosedAbove

LEMMA EndScopeStep ==
  ASSUME UpvaluesInv, NEW n \in Nat, EndScope(n)
  PROVE  UpvaluesInv' /\ \E t : Keeps(t)
  <1> DEFINE captured == OpenIn(Top - n .. Top - 1)
             last == CHOOSE s \in captured : \A t \in captured : s <= t
  <1>1. /\ n > 0 /\ Covers(n) /\ CloseScope(n)
        /\ IF captured = {} THEN UNCHANGED listVars ELSE CloseUpvalues(last)
    BY DEF EndScope
  <1>2. /\ ListSound /\ StackSound /\ Top \in Nat
        /\ \A u \in Upvalues : at[u] \in Nat
    BY Parts, OpenTyped DEF UpvaluesInv
  <1>3. CASE captured = {}
    <2>1. UNCHANGED <<at, closed, held, cellOf>> /\ ListSound'
      BY <1>1, <1>2, <1>3, ListStays DEF listVars
    <2>2. \A u \in Upvalues : at[u] # 0 => at[u] <= Top - n - 1
      <3> SUFFICES ASSUME NEW u \in Upvalues, at[u] # 0 PROVE at[u] <= Top - n - 1
        OBVIOUS
      <3>1. at[u] \in 1 .. Top /\ at[u] # Top /\ at[u] \notin Top - n .. Top - 1
        BY <1>1, <1>3, OpenIsVariable, NoneOpenIn DEF Covers, HasTemporary
      <3>2. QED
        BY <1>2, <3>1
    <2>3. \A u \in held : u \in Upvalues /\ (at[u] = 0 => closed'[u] = Read(u))
      BY <1>2, <2>1 DEF ListSound, Read
    <2>4. ClosedAbove(Top - n - 1)
      BY <2>1, <2>2, <2>3 DEF ClosedAbove
    <2>5. QED
      BY <1>1, <2>1, <2>4, ScopeClosed
  <1>4. CASE captured # {}
    <2>1. /\ last \in Nat \ {0}
          /\ \A u \in Upvalues : at[u] # 0 => (at[u] >= last <=> at[u] > Top - n - 1)
      BY <1>1, <1>4, LowestCaptured
    <2> HIDE DEF last
    <2>2. /\ ListSound' /\ held' = held
          /\ \A u \in Upvalues :
               /\ at'[u] = IF at[u] >= last THEN 0 ELSE at[u]
               /\ closed'[u] = IF at[u] >= last /\ u \in held THEN stack[at[u]]
                               ELSE closed[u]
               /\ cellOf'[u] = IF at[u] >= last /\ u \notin held THEN Temporary
                               ELSE cellOf[u]
      BY <1>1, <1>2, <1>4, <2>1, CloseSound DEF ListSound
    <2>3. \A u \in held :
            /\ cellOf'[u] = cellOf[u]
            /\ at'[u] = 0 => /\ at[u] = 0 \/ at[u] > Top - n - 1
                             /\ closed'[u] = Read(u)
      <3> SUFFICES ASSUME NEW u \in held
                   PROVE  /\ cellOf'[u] = cellOf[u]
                          /\ at'[u] = 0 => /\ at[u] = 0 \/ at[u] > Top - n - 1
                                           /\ closed'[u] = Read(u)
        OBVIOUS
      <3>1. u \in Upvalues /\ at[u] \in Nat /\ last # 0
        BY <1>2, <2>1 DEF ListSound
      <3>2. QED
        BY <2>1, <2>2, <3>1 DEF Read
    <2>4. \A u \in Upvalues : at'[u] # 0 =>
            at'[u] = at[u] /\ at[u] <= Top - n - 1 /\ cellOf'[u] = cellOf[u]
      BY <1>2, <2>1, <2>2
    <2>5. ClosedAbove(Top - n - 1)
      BY <2>2, <2>3, <2>4 DEF ClosedAbove
    <2>6. n > 0 /\ Covers(n) /\ CloseScope(n) /\ ListSound'
      BY <1>1, <2>2
    <2>7. QED
      BY <2>5, <2>6, ScopeClosed
  <1>5. QED
    BY <1>3, <1>4

LEMMA EndMatchArmStep ==
  ASSUME UpvaluesInv, Abrupt = {}, EndMatchArm
  PROVE  UpvaluesInv' /\ \E t : Keeps(t)
  <1>1. /\ Covers(1) /\ CloseScope(1) /\ UNCHANGED listVars /\ OpenIn({Top - 1}) = {}
    BY DEF EndMatchArm
  <1>2. /\ ListSound /\ StackSound /\ Top \in Nat
        /\ \A u \in Upvalues : at[u] \in Nat
    BY Parts, OpenTyped DEF UpvaluesInv
  <1>3. UNCHANGED <<at, closed, held, cellOf>> /\ ListSound'
    BY <1>1, <1>2, ListStays DEF listVars
  <1>4. ASSUME NEW u \in Upvalues, at[u] # 0 PROVE at[u] <= Top - 1 - 1
    <2>1. at[u] \in 1 .. Top /\ at[u] # Top /\ at[u] # Top - 1
      BY <1>1, <1>4, OpenIsVariable, NoneOpenIn DEF Covers, HasTemporary
    <2>2. QED
      BY <1>2, <2>1
  <1>5. \A u \in held : u \in Upvalues /\ (at[u] = 0 => closed'[u] = Read(u))
    BY <1>2, <1>3 DEF ListSound, Read
  <1>6. ClosedAbove(Top - 1 - 1)
    BY <1>3, <1>4, <1>5 DEF ClosedAbove
  <1>7. QED
    BY <1>1, <1>3, <1>6, ScopeClosed

LEMMA InterpretStep ==
  ASSUME UpvaluesInv, Interpret PROVE UpvaluesInv' /\ Keeps(Top)
  <1>1. /\ StackSound /\ FramesSound /\ ListSound /\ VariablesPlaced /\ Top \in Nat
        /\ AnyValue \in Values /\ StackMax \in Nat /\ Top < StackMax /\ ~Running
    BY Parts, StackFacts, AnyValueTyped DEF Interpret
  <1>2. /\ stack' = Append(stack, AnyValue) /\ cells' = Append(cells, Temporary)
        /\ frames' = <<[slots |-> Top + 1, params |-> 0]>> /\ UNCHANGED listVars
    BY DEF Interpret
  <1>3. StackSound' /\ Top' = Top + 1
    BY <1>1, <1>2 DEF StackSound, Top
  <1>4. /\ \A i \in 1 .. Top : cells'[i] = cells[i] /\ cells[i] = Temporary
                               /\ stack'[i] = stack[i]
        /\ cells'[Top + 1] = Temporary
    BY <1>1, <1>2 DEF StackSound, VariablesPlaced, Top
  <1> DEFINE f == [slots |-> Top + 1, params |-> 0]
             F == [slots : 1 .. Top + 1, params : Nat]
  <1>5. FramesSound'
    <2>1. f \in F /\ f.slots = Top + 1 /\ f.params = 0
      BY <1>1
    <2> HIDE DEF f, F
    <2>2. <<f>> \in Seq(F) /\ Len(<<f>>) = 1 /\ <<f>>[1] = f
      BY <2>1
    <2>3. frames' = <<f>>
      BY <1>2 DEF f
    <2>4. Frame' = f /\ Len(frames') = 1
      BY <2>2, <2>3 DEF Frame
    <2>5. frames' \in Seq([slots : 1 .. Top', params : Nat])
      BY <1>3, <2>2, <2>3 DEF F
    <2>6. Frame'.slots + Frame'.params <= Top'
      BY <1>1, <1>3, <2>1, <2>4
    <2>7. QED
      BY <2>4, <2>5, <2>6, BoundsAssumption DEF FramesSound
  <1>6. ListSound' /\ UNCHANGED <<at, closed, held, cellOf>>
    BY <1>1, <1>2, ListStays DEF listVars
  <1>7. \A u \in Upvalues : at[u] # 0 => at[u] <= Top
    BY <1>1, OpenIsVariable
  <1>8. /\ Top \in 0 .. Top /\ Top <= Top'
        /\ \A i \in Top + 1 .. Top' : cells'[i] = Temporary
    BY <1>1, <1>3, <1>4
  <1>9. held \subseteq Upvalues
    BY <1>1 DEF ListSound
  <1>10. UpvaluesInv'
    BY <1>3, <1>4, <1>5, <1>6, <1>7, <1>8, <1>9, Truncated
  <1>11. \A u \in held : Read(u)' = Read(u)
    BY <1>4, <1>6, <1>9, OpenIsVariable DEF Read
  <1>12. QED
    BY <1>4, <1>6, <1>8, <1>10, <1>11 DEF Keeps

LEMMA PushTemporarySound ==
  ASSUME UpvaluesInv, NEW v \in Values, PushTemporary(v)
  PROVE  /\ StackSound' /\ FramesSound' /\ Top' = Top + 1 /\ Top \in Nat
         /\ \A i \in 1 .. Top : cells'[i] = cells[i] /\ stack'[i] = stack[i]
         /\ cells'[Top + 1] = Temporary
         /\ Running' /\ frames' = frames
  <1>1. /\ StackSound /\ FramesSound /\ Top \in Nat /\ StackMax \in Nat
        /\ Running /\ Top < StackMax
    BY Parts, StackFacts DEF PushTemporary
  <1>2. /\ stack' = Append(stack, v) /\ cells' = Append(cells, Temporary)
        /\ frames' = frames
    BY DEF PushTemporary
  <1>3. StackSound' /\ Top' = Top + 1
    BY <1>1, <1>2 DEF StackSound, Top
  <1>4. /\ \A i \in 1 .. Top : cells'[i] = cells[i] /\ stack'[i] = stack[i]
        /\ cells'[Top + 1] = Temporary
    BY <1>1, <1>2 DEF StackSound, Top
  <1>5. Frame.slots + Frame.params <= Top'
    BY <1>1, <1>3, FrameFacts DEF FramesSound
  <1>6. FramesSound'
    <2>1. Top' \in Nat
      BY <1>1, <1>3
    <2>2. QED
      BY <1>1, <1>2, <1>5, <2>1, SameFrames
  <1>7. Running'
    BY <1>1, <1>2 DEF Running
  <1>8. QED
    BY <1>1, <1>2, <1>3, <1>4, <1>6, <1>7

LEMMA PushStep ==
  ASSUME UpvaluesInv, NEW v \in Values, Push(v) PROVE UpvaluesInv' /\ Keeps(Top)
  <1>1. PushTemporary(v) /\ ListSound /\ UNCHANGED listVars
    BY Parts DEF Push
  <1>2. /\ StackSound' /\ FramesSound' /\ Top' = Top + 1 /\ Top \in Nat
        /\ \A i \in 1 .. Top : cells'[i] = cells[i] /\ stack'[i] = stack[i]
        /\ cells'[Top + 1] = Temporary /\ Running' /\ frames' = frames
    BY <1>1, PushTemporarySound
  <1>3. ListSound' /\ UNCHANGED <<at, closed, held, cellOf>> /\ held \subseteq Upvalues
    BY <1>1, ListStays DEF listVars, ListSound
  <1>4. \A u \in Upvalues : at[u] # 0 => at[u] <= Top
    BY <1>2, OpenIsVariable
  <1>5. /\ Top \in 0 .. Top /\ Top <= Top'
        /\ \A i \in Top + 1 .. Top' : cells'[i] = Temporary
    BY <1>2
  <1>6. UpvaluesInv'
    BY <1>2, <1>3, <1>4, <1>5, Truncated
  <1>7. \A u \in held : Read(u)' = Read(u)
    BY <1>2, <1>3, OpenIsVariable DEF Read
  <1>8. QED
    BY <1>2, <1>3, <1>5, <1>6, <1>7 DEF Keeps

(* Operations that leave slots and their variables in their places.        *)
LEMMA SamePlaces ==
  ASSUME UpvaluesInv, StackSound', ListSound', UNCHANGED <<frames, cells>>, Top' = Top,
         held' \subseteq held, at' = at,
         \A u \in Upvalues : u \in held' \/ at[u] # 0 => cellOf'[u] = cellOf[u]
  PROVE  UpvaluesInv'
  <1>1. StackSound /\ FramesSound /\ ListSound /\ Top \in Nat
    BY Parts, StackFacts
  <1>2. FramesSound'
    BY <1>1, SameFrames DEF FramesSound
  <1>3. \A u \in Upvalues : at[u] # 0 => at[u] <= Top
    BY <1>1, OpenIsVariable
  <1>4. \A i \in 1 .. Top : Running' <=> Running
    BY DEF Running
  <1>5. \A i \in 1 .. Top : cells[i] # Temporary => Running'
    BY <1>4, Parts DEF VariablesPlaced
  <1>6. Top \in 0 .. Top /\ Top <= Top' /\ Top + 1 .. Top' = {}
    BY <1>1
  <1>7. \A u \in held' : u \in Upvalues
    BY <1>1 DEF ListSound
  <1>8. QED
    BY <1>1, <1>2, <1>3, <1>5, <1>6, <1>7, Truncated

LEMMA SetLocalStep ==
  ASSUME UpvaluesInv, NEW i \in 1 .. Top, NEW v \in Values, SetLocal(i, v)
  PROVE  UpvaluesInv'
  <1>1. /\ StackSound /\ ListSound /\ stack' = [stack EXCEPT ![i] = v]
        /\ UNCHANGED <<frames, cells, listVars>>
    BY Parts DEF SetLocal
  <1>2. StackSound' /\ Top' = Top
    BY <1>1 DEF StackSound, Top
  <1>3. ListSound' /\ UNCHANGED <<at, held, cellOf>>
    BY <1>1, ListStays DEF listVars
  <1>4. QED
    BY <1>1, <1>2, <1>3, SamePlaces

LEMMA SetUpvalueStep ==
  ASSUME UpvaluesInv, NEW u \in Upvalues, NEW v \in Values, SetUpvalue(u, v)
  PROVE  UpvaluesInv'
  <1>1. /\ StackSound /\ ListSound /\ UNCHANGED <<frames, cells, open, at, held, cellOf>>
    BY Parts DEF SetUpvalue
  <1>2. \/ at[u] = 0 /\ closed' = [closed EXCEPT ![u] = v] /\ stack' = stack
        \/ at[u] # 0 /\ stack' = [stack EXCEPT ![at[u]] = v] /\ closed' = closed
    BY DEF SetUpvalue
  <1>3. StackSound' /\ Top' = Top
    BY <1>1, <1>2, OpenIsVariable DEF StackSound, Top
  <1>4. ListSound'
    <2>1. closed' \in [Upvalues -> Values]
      BY <1>1, <1>2 DEF ListSound
    <2>2. OpenSorted'
      BY <1>1 DEF ListSound, OpenSorted, IsOpen
    <2>3. QED
      BY <1>1, <2>1, <2>2 DEF ListSound
  <1>5. QED
    BY <1>1, <1>3, <1>4, SamePlaces

LEMMA ReleaseStep ==
  ASSUME UpvaluesInv, NEW u \in Upvalues, Release(u) PROVE UpvaluesInv'
  <1>1. /\ StackSound /\ ListSound /\ UNCHANGED <<stack, frames, cells, open, at>>
        /\ held' = held \ {u}
    BY Parts DEF Release, stackVars
  <1>2. /\ closed' \in [Upvalues -> Values]
        /\ cellOf' \in [Upvalues -> Cells \cup {Temporary}]
        /\ \A w \in Upvalues : w \in held' \/ at[w] # 0 => cellOf'[w] = cellOf[w]
    <2>1. CASE IsOpen(u)
      BY <1>1, <2>1 DEF Release, ListSound
    <2>2. CASE ~IsOpen(u)
      <3>1. at[u] = 0
        BY <1>1, <2>2 DEF ListSound, OpenSorted
      <3>2. QED
        BY <1>1, <2>2, <3>1, AnyValueTyped DEF Release, ListSound, Without
    <2>3. QED
      BY <2>1, <2>2
  <1>3. StackSound' /\ Top' = Top
    BY <1>1 DEF StackSound, Top
  <1>4. ListSound'
    <2>1. OpenSorted'
      BY <1>1 DEF ListSound, OpenSorted, IsOpen
    <2>2. QED
      BY <1>1, <1>2, <2>1 DEF ListSound
  <1>5. QED
    BY <1>1, <1>2, <1>3, <1>4, SamePlaces

LEMMA UpvaluesStay ==
  ASSUME UpvaluesInv, UNCHANGED upvalueVars PROVE UpvaluesInv'
  <1>1. /\ StackSound /\ ListSound /\ UNCHANGED <<stack, frames, cells, listVars>>
    BY Parts DEF upvalueVars, listVars
  <1>2. StackSound' /\ Top' = Top /\ ListSound' /\ UNCHANGED <<at, held, cellOf>>
    BY <1>1, ListStays DEF StackSound, Top, listVars
  <1>3. QED
    BY <1>1, <1>2, SamePlaces

(* Return, for the last frame and for the others.                          *)
LEMMA FrameClosed ==
  ASSUME UpvaluesInv, Running, CloseUpvalues(Frame.slots)
  PROVE  /\ ListSound' /\ held' = held
         /\ \A u \in held :
              /\ cellOf'[u] = cellOf[u]
              /\ at'[u] = 0 => /\ at[u] = 0 \/ at[u] > Frame.slots - 1
                              /\ closed'[u] = Read(u)
         /\ \A u \in Upvalues : at'[u] # 0 =>
              at'[u] = at[u] /\ at[u] <= Frame.slots - 1 /\ cellOf'[u] = cellOf[u]
  <1>1. StackSound /\ FramesSound /\ ListSound
    BY Parts
  <1> PICK last \in Nat \ {0} : last = Frame.slots
    BY <1>1, FrameFacts
  <1>2. CloseUpvalues(last) /\ last = Frame.slots
    OBVIOUS
  <1>3. /\ ListSound' /\ held' = held
        /\ \A u \in Upvalues :
             /\ at'[u] = IF at[u] >= last THEN 0 ELSE at[u]
             /\ closed'[u] = IF at[u] >= last /\ u \in held THEN stack[at[u]]
                             ELSE closed[u]
             /\ cellOf'[u] = IF at[u] >= last /\ u \notin held THEN Temporary
                             ELSE cellOf[u]
    BY <1>1, <1>2, CloseSound DEF ListSound
  <1>4. \A u \in Upvalues : at[u] \in Nat
    BY OpenTyped DEF UpvaluesInv
  <1>5. \A u \in held : u \in Upvalues
    BY <1>1 DEF ListSound
  <1>6. \A u \in Upvalues : at[u] >= last <=> at[u] > Frame.slots - 1
    BY <1>2, <1>4
  <1>7. \A u \in Upvalues : ~(at[u] >= last) <=> at[u] <= Frame.slots - 1
    BY <1>2, <1>4
  <1>8. \A u \in held : at'[u] = 0 => closed'[u] = Read(u)
    BY <1>2, <1>3, <1>4, <1>5 DEF Read
  <1>9. QED
    BY <1>3, <1>5, <1>6, <1>7, <1>8

LEMMA ReturnStep ==
  ASSUME UpvaluesInv, Return PROVE UpvaluesInv' /\ \E t : Keeps(t)
  <1>1. /\ StackSound /\ FramesSound /\ VariablesPlaced
        /\ Running /\ Top >= Frame.slots + Frame.params + 1 /\ Len(frames) > 1
        /\ CloseUpvalues(Frame.slots)
        /\ stack' = Append(SubSeq(stack, 1, Frame.slots - 1), stack[Top])
        /\ cells' = Append(SubSeq(cells, 1, Frame.slots - 1), Temporary)
        /\ frames' = SubSeq(frames, 1, Len(frames) - 1)
    BY Parts DEF Return, HasTemporary, FirstFree
  <1>2. /\ Frame.slots \in Nat \ {0} /\ Frame.params \in Nat /\ Top \in Nat
        /\ Len(frames) \in Nat /\ Frame = frames[Len(frames)]
        /\ \A i \in 1 .. Len(frames) : frames[i].slots \in Nat /\ frames[i].params \in Nat
    <2>1. Top \in Nat
      BY <1>1, StackFacts
    <2>2. QED
      BY <1>1, <2>1, FrameFacts
  <1>3. Frame.slots - 1 \in 0 .. Top - 1
    <2>1. Top >= Frame.slots + Frame.params + 1
      BY <1>1
    <2>2. QED
      BY <1>2, <2>1
  <1> PICK t \in 0 .. Top - 1 : t = Frame.slots - 1
    BY <1>3
  <1>4. Top > 0 /\ t = Frame.slots - 1
    BY <1>1, <1>2
  <1>5. /\ \A i, j \in 1 .. Len(frames) :
             i < j => frames[i].slots + frames[i].params < frames[j].slots
        /\ Len(frames) <= FramesMax
    BY <1>1 DEF FramesSound
  <1> DEFINE n == Len(frames) - 1
             F == [slots : 1 .. Top, params : Nat]
             G == [slots : 1 .. Frame.slots, params : Nat]
  <1>6. /\ frames' \in Seq(F) /\ Len(frames') = n /\ n \in Nat \ {0}
        /\ \A i \in 1 .. n : frames'[i] = frames[i]
    <2>1. frames \in Seq(F)
      BY <1>1 DEF FramesSound
    <2> HIDE DEF F
    <2>2. n \in 0 .. Len(frames) /\ n \in Nat \ {0} /\ frames' = SubSeq(frames, 1, n)
      BY <1>1, <1>2, SMTT(20)
    <2> HIDE DEF n
    <2>3. QED
      BY <2>1, <2>2, Prefix
  <1>7. \A i \in 1 .. n : frames[i].slots + frames[i].params < Frame.slots
    <2> HIDE DEF n
    <2>1. n = Len(frames) - 1 /\ n \in Nat /\ Len(frames) \in Nat
      BY <1>2, <1>6 DEF n
    <2>2. \A i \in 1 .. n : /\ i \in 1 .. Len(frames) /\ Len(frames) \in 1 .. Len(frames)
                            /\ i < Len(frames)
      BY <2>1
    <2>3. Frame = frames[Len(frames)]
      BY DEF Frame
    <2>4. QED
      BY <1>5, <2>2, <2>3
  <1>8. Top' = Frame.slots
    <2>1. stack \in Seq(Values) /\ Top = Len(stack) /\ stack[Top] \in Values
      BY <1>1, <1>2, StackFacts, SMTT(20) DEF StackSound, Top
    <2>2. Len(stack') = t + 1
      BY <1>1, <1>4, <2>1, PrefixAnd
    <2>3. QED
      BY <1>2, <1>4, <2>2 DEF Top
  <1>9. frames' \in Seq(G)
    <2>1. \A f \in F : f.slots <= Frame.slots => f \in G
      BY <1>2
    <2>2. \A i \in 1 .. n : frames'[i] \in F /\ frames'[i].slots <= Frame.slots
      <3> HIDE DEF F, n
      <3>1. \A i \in 1 .. n : frames'[i] \in F
        BY <1>6
      <3>2. \A i \in 1 .. n : i \in 1 .. Len(frames)
        BY <1>2, <1>6 DEF n
      <3>3. \A i \in 1 .. n : frames'[i].slots <= Frame.slots
        <4>1. \A i \in 1 .. n : /\ frames'[i] = frames[i] /\ frames[i].slots \in Nat
                               /\ frames[i].params \in Nat
                               /\ frames[i].slots + frames[i].params < Frame.slots
          BY <1>2, <1>6, <1>7, <3>2
        <4>2. QED
          BY <1>2, <4>1, SMTT(20)
      <3>4. QED
        BY <3>1, <3>3
    <2> HIDE DEF F, G, n
    <2>3. QED
      BY <1>6, <2>1, <2>2
  <1>10. FramesSound'
    <2>1. /\ Frame' = frames[n] /\ Len(frames') <= FramesMax
          /\ Frame'.slots + Frame'.params <= Top'
      <3>1. Frame' = frames'[n]
        BY <1>6 DEF Frame
      <3>2. Frame' = frames[n] /\ n \in 1 .. Len(frames) /\ n \in 1 .. n
        BY <1>2, <1>6, <3>1, SMTT(20)
      <3>3. Frame'.slots + Frame'.params <= Top'
        <4>1. /\ Frame' = frames[n] /\ frames[n].slots + frames[n].params < Frame.slots
              /\ frames[n].slots \in Nat /\ frames[n].params \in Nat
          BY <1>2, <1>7, <3>2
        <4>2. QED
          BY <1>2, <1>8, <4>1, SMTT(20)
      <3>4. QED
        BY <1>2, <1>5, <1>6, <3>2, <3>3, BoundsAssumption
    <2>2. \A i, j \in 1 .. Len(frames') :
            i < j => frames'[i].slots + frames'[i].params < frames'[j].slots
      <3>1. \A i \in 1 .. n : i \in 1 .. Len(frames)
        BY <1>2, <1>6
      <3> HIDE DEF n
      <3>2. QED
        BY <1>5, <1>6, <3>1
    <2> HIDE DEF n
    <2>3. QED
      BY <1>8, <1>9, <2>1, <2>2 DEF FramesSound, G
  <1>11. Running' /\ frames'[1] = frames[1]
    BY <1>6 DEF Running
  <1>12. QED
    BY <1>1, <1>4, <1>10, <1>11, FrameClosed, LandStep

LEMMA ReturnFromScriptStep ==
  ASSUME UpvaluesInv, ReturnFromScript PROVE UpvaluesInv' /\ Keeps(0)
  <1>1. /\ StackSound /\ FramesSound /\ VariablesPlaced /\ ListSound
        /\ Running /\ Top >= Frame.slots + Frame.params + 1 /\ Len(frames) = 1
        /\ CloseUpvalues(Frame.slots)
        /\ stack' = SubSeq(stack, 1, Top - 2)
        /\ cells' = [i \in 1 .. Top - 2 |-> Temporary]
        /\ frames' = <<>>
    BY Parts DEF ReturnFromScript, HasTemporary, FirstFree
  <1>2. /\ Frame.slots \in Nat \ {0} /\ Frame.params \in Nat /\ Top \in Nat
        /\ Frame = frames[1] /\ StackMax \in Nat /\ Top <= StackMax
        /\ Top - 2 \in 0 .. Top
    BY <1>1, StackFacts, FrameFacts
  <1>3. StackSound' /\ Top' = Top - 2
    <2>1. stack' \in Seq(Values) /\ Len(stack') = Top - 2
      BY <1>1, <1>2, Prefix, StackFacts DEF StackSound
    <2>2. cells' \in Seq(Cells \cup {Temporary}) /\ Len(cells') = Top - 2
      BY <1>1, <1>2
    <2>3. QED
      BY <1>2, <2>1, <2>2 DEF StackSound, Top
  <1>4. FramesSound'
    BY <1>1, BoundsAssumption DEF FramesSound, Running
  <1>5. ASSUME NEW u \in Upvalues, at'[u] # 0 PROVE FALSE
    <2>1. at[u] # 0 /\ at[u] <= Frame.slots - 1
      BY <1>1, <1>5, FrameClosed
    <2>2. at[u] \in 1 .. Top /\ cells[at[u]] # Temporary
      BY <2>1, OpenIsVariable
    <2>3. Frame.slots <= at[u]
      BY <1>1, <1>2, <2>2 DEF VariablesPlaced
    <2>4. QED
      BY <1>2, <2>1, <2>2, <2>3
  <1>6. /\ ListSound' /\ held' = held
        /\ \A u \in held : cellOf'[u] = cellOf[u] /\ (at'[u] = 0 => closed'[u] = Read(u))
    BY <1>1, FrameClosed
  <1>7. \A u \in held : at[u] = 0 \/ at[u] > 0
    BY <1>1, OpenTyped DEF ListSound, UpvaluesInv
  <1>8. 0 \in 0 .. Top /\ 0 <= Top' /\ \A i \in 0 + 1 .. Top' : cells'[i] = Temporary
    BY <1>1, <1>2, <1>3
  <1>9. UpvaluesInv'
    BY <1>3, <1>4, <1>5, <1>6, <1>7, <1>8, Truncated
  <1>10. \A u \in held : Read(u)' = Read(u)
    <2>1. \A u \in held : u \in Upvalues
      BY <1>1 DEF ListSound
    <2>2. QED
      BY <1>5, <1>6, <2>1 DEF Read
  <1>11. 1 .. 0 = {}
    OBVIOUS
  <1>12. QED
    BY <1>6, <1>8, <1>9, <1>10, <1>11 DEF Keeps

LEMMA RuntimeErrorStep ==
  ASSUME UpvaluesInv, Abrupt = {}, RuntimeError PROVE UpvaluesInv' /\ Keeps(0)
  <1>1. /\ StackSound /\ ListSound /\ \A u \in held : ~IsOpen(u)
        /\ stack' = <<>> /\ cells' = <<>> /\ frames' = <<>> /\ open' = <<>>
        /\ at' = Without(at, Upvalues \ held, 0)
        /\ cellOf' = Without(cellOf, Upvalues \ held, Temporary)
        /\ UNCHANGED <<closed, held>>
    BY Parts DEF RuntimeError
  <1>2. /\ StackMax \in Nat /\ Top \in Nat /\ held \subseteq Upvalues
    BY <1>1, StackFacts DEF ListSound
  <1>3. \A u \in Upvalues : at'[u] = 0 /\ (u \in held => at[u] = 0 /\ cellOf'[u] = cellOf[u])
    BY <1>1 DEF ListSound, OpenSorted, Without
  <1>4. StackSound' /\ FramesSound' /\ Top' = 0
    BY <1>1, <1>2, BoundsAssumption DEF StackSound, FramesSound, Top, Running
  <1>5. ListSound'
    <2>1. /\ at' \in [Upvalues -> 0 .. StackMax]
          /\ cellOf' \in [Upvalues -> Cells \cup {Temporary}]
      BY <1>1, <1>2 DEF ListSound, Without
    <2>2. Len(open') = 0 /\ 1 .. Len(open') = {} /\ open' \in Seq(Upvalues)
      BY <1>1
    <2>3. OpenSorted'
      BY <1>3, <2>2 DEF OpenSorted, IsOpen
    <2>4. QED
      BY <1>1, <2>1, <2>2, <2>3 DEF ListSound
  <1>6. 0 \in 0 .. Top /\ 0 <= Top' /\ 0 + 1 .. Top' = {} /\ 1 .. 0 = {}
    BY <1>2, <1>4
  <1>7. UpvaluesInv'
    BY <1>1, <1>2, <1>3, <1>4, <1>5, <1>6, Truncated
  <1>8. \A u \in held : Read(u)' = Read(u)
    BY <1>1, <1>2, <1>3 DEF Read
  <1>9. QED
    BY <1>1, <1>2, <1>3, <1>6, <1>7, <1>8 DEF Keeps

(* Temporaries above slot t become variables that were not in use.         *)
LEMMA BecomeVariables ==
  ASSUME UpvaluesInv, StackSound', FramesSound', Top' = Top, UNCHANGED listVars,
         NEW t \in 0 .. Top, Running, Running', frames'[1] = frames[1],
         frames[1].slots <= t,
         \A i \in 1 .. t : cells'[i] = cells[i],
         \A i \in t + 1 .. Top : cells[i] = Temporary /\ cells'[i] \in Unused,
         \A i, j \in t + 1 .. Top : cells'[i] = cells'[j] => i = j
  PROVE  UpvaluesInv'
  <1>1. /\ StackSound /\ FramesSound /\ ListSound /\ VariablesPlaced /\ CapturesSound
        /\ Top \in Nat /\ Len(cells) = Top /\ Len(cells') = Top /\ t \in Nat /\ t <= Top
        /\ frames[1].slots \in Nat
    <2>1. StackSound /\ FramesSound /\ ListSound /\ VariablesPlaced /\ CapturesSound
      BY Parts
    <2>2. frames[1].slots \in Nat
      BY <2>1, FrameFacts
    <2>3. QED
      BY <2>1, <2>2, StackFacts DEF StackSound
  <1>2. \A i \in 1 .. Top : i \in 1 .. t \/ i \in t + 1 .. Top
    BY <1>1
  <1>3. \A i \in 1 .. t : i \in 1 .. Top
    BY <1>1
  <1>4. \A i \in t + 1 .. Top : i \in 1 .. Top
    BY <1>1
  <1>5. \A c \in Unused : c \in Cells /\ c \notin InScope /\ c \notin CapturedCells
    BY DEF Unused
  <1>6. \A i \in 1 .. Top : cells[i] # Temporary => cells[i] \in InScope /\ i \in 1 .. t
    BY <1>1, <1>2 DEF InScope
  <1>7. VariablesPlaced'
    <2>1. ASSUME NEW i \in 1 .. Top, cells'[i] # Temporary PROVE frames'[1].slots <= i
      <3>1. CASE i \in 1 .. t
        BY <1>1, <1>3, <2>1, <3>1 DEF VariablesPlaced
      <3>2. CASE i \in t + 1 .. Top
        BY <1>1, <3>2
      <3>3. QED
        BY <1>2, <3>1, <3>2
    <2>2. ASSUME NEW i \in 1 .. Top, NEW j \in 1 .. Top, cells'[i] = cells'[j],
                 cells'[i] # Temporary
          PROVE  i = j
      <3>1. CASE i \in 1 .. t /\ j \in 1 .. t
        BY <1>1, <1>3, <2>2, <3>1 DEF VariablesPlaced
      <3>2. CASE i \in t + 1 .. Top /\ j \in t + 1 .. Top
        BY <2>2, <3>2
      <3>3. CASE i \in 1 .. t /\ j \in t + 1 .. Top
        BY <1>5, <1>6, <2>2, <3>3
      <3>4. CASE j \in 1 .. t /\ i \in t + 1 .. Top
        BY <1>5, <1>6, <2>2, <3>4
      <3>5. QED
        BY <1>2, <3>1, <3>2, <3>3, <3>4
    <2>3. QED
      BY <2>1, <2>2 DEF VariablesPlaced
  <1>8. InScope' \subseteq InScope \cup Unused
    <2>1. \A i \in 1 .. Top : cells'[i] # Temporary => cells'[i] \in InScope \cup Unused
      BY <1>2, <1>3, <1>6
    <2>2. QED
      BY <1>1, <2>1 DEF InScope
  <1>9. UNCHANGED <<at, held, cellOf>> /\ held \subseteq Upvalues /\ ListSound'
    BY <1>1, ListStays DEF listVars, ListSound
  <1>10. \A u \in Upvalues : at[u] # 0 => at[u] \in 1 .. t
    BY <1>6, OpenIsVariable
  <1>11. \A u \in held : cellOf[u] \in CapturedCells
    BY DEF CapturedCells
  <1>12. CapturesSound'
    <2>1. \A u \in Upvalues : at[u] # 0 =>
            at[u] <= Top' /\ cells'[at[u]] = cellOf[u] /\ cellOf[u] # Temporary
      BY <1>1, <1>10 DEF CapturesSound
    <2>2. \A u \in held : at[u] = 0 => cellOf[u] \in Cells \ InScope'
      BY <1>1, <1>5, <1>8, <1>11 DEF CapturesSound
    <2>3. QED
      BY <1>1, <1>9, <2>1, <2>2 DEF CapturesSound
  <1>13. QED
    BY <1>7, <1>9, <1>12, PartsNext

LEMMA BindStep ==
  ASSUME UpvaluesInv, NEW c \in Cells, Bind(c) PROVE UpvaluesInv'
  <1>1. /\ StackSound /\ FramesSound
        /\ Running /\ Top >= Frame.slots + Frame.params + 1 /\ cells[Top] = Temporary
        /\ c \in Unused /\ cells' = [cells EXCEPT ![Top] = c]
        /\ UNCHANGED <<stack, frames, listVars>>
    BY Parts DEF Bind, HasTemporary, FirstFree
  <1>2. /\ Frame.slots \in Nat \ {0} /\ Frame.params \in Nat /\ Top \in Nat
        /\ frames[1].slots \in Nat /\ frames[1].slots <= Frame.slots
    BY <1>1, StackFacts, FrameFacts
  <1>3. Top >= 1 /\ Top - 1 \in 0 .. Top /\ frames[1].slots <= Top - 1
        /\ Frame.slots + Frame.params <= Top
    BY <1>1, <1>2
  <1>4. StackSound' /\ Top' = Top /\ FramesSound'
    <2>1. StackSound' /\ Top' = Top
      BY <1>1, <1>3 DEF StackSound, Top
    <2>2. QED
      BY <1>1, <1>2, <1>3, <2>1, SameFrames
  <1>5. /\ \A i \in 1 .. Top - 1 : cells'[i] = cells[i]
        /\ cells'[Top] = c
        /\ \A i \in Top - 1 + 1 .. Top : i = Top
    BY <1>1, <1>2, <1>3 DEF StackSound
  <1>6. Running' /\ frames'[1] = frames[1]
    BY <1>1 DEF Running
  <1> PICK t \in 0 .. Top : t = Top - 1
    BY <1>3
  <1>7. /\ \A i \in 1 .. t : cells'[i] = cells[i]
        /\ \A i \in t + 1 .. Top : i = Top
        /\ frames[1].slots <= t
    BY <1>2, <1>3, <1>5
  <1>8. QED
    BY <1>1, <1>4, <1>5, <1>6, <1>7, BecomeVariables

(* The temporaries above slot t become variables.                          *)
Enters(t) ==
  /\ t \in 0 .. Top /\ Top' = Top /\ UNCHANGED <<stack, listVars>>
  /\ \A i \in 1 .. t : cells'[i] = cells[i]
  /\ \A i \in t + 1 .. Top : cells[i] = Temporary /\ cells'[i] \in Unused

LEMMA CallStep ==
  ASSUME UpvaluesInv, NEW params \in Seq(Cells), Call(params)
  PROVE  UpvaluesInv' /\ \E t : Enters(t)
  <1>1. /\ StackSound /\ FramesSound /\ Running /\ Len(frames) < FramesMax
        /\ Len(params) < Top /\ Top - Len(params) >= Frame.slots + Frame.params + 1
        /\ \A i \in Top - Len(params) .. Top : cells[i] = Temporary
        /\ \A i \in 1 .. Len(params) : params[i] \in Unused
        /\ \A i, j \in 1 .. Len(params) : params[i] = params[j] => i = j
        /\ frames' = Append(frames, [slots |-> Top - Len(params), params |-> Len(params)])
        /\ cells' = SubSeq(cells, 1, Top - Len(params)) \o params
        /\ UNCHANGED <<stack, listVars>>
    BY Parts DEF Call, FirstFree
  <1>2. /\ Frame.slots \in Nat \ {0} /\ Frame.params \in Nat /\ Top \in Nat
        /\ frames[1].slots \in Nat /\ frames[1].slots <= Frame.slots
        /\ Len(params) \in Nat /\ Len(cells) = Top
    BY <1>1, StackFacts, FrameFacts
  <1> PICK t \in Nat : t = Top - Len(params)
    <2>1. Len(params) < Top
      BY <1>1
    <2>2. Top - Len(params) \in Nat
      BY <1>2, <2>1
    <2>3. QED
      BY <2>2
  <1>3. /\ t = Top - Len(params) /\ t \in 0 .. Top /\ t >= 1 /\ t + Len(params) = Top
        /\ t >= Frame.slots + Frame.params + 1 /\ frames[1].slots <= t
    <2>1. /\ t = Top - Len(params) /\ t >= Frame.slots + Frame.params + 1
      BY <1>1
    <2>2. QED
      BY <1>2, <2>1
  <1>4. /\ cells' \in Seq(Cells \cup {Temporary}) /\ Len(cells') = Top
        /\ \A i \in 1 .. t : cells'[i] = cells[i]
        /\ \A i \in t + 1 .. Top : cells'[i] = params[i - t] /\ i - t \in 1 .. Len(params)
    <2> DEFINE C == Cells \cup {Temporary}
               p == SubSeq(cells, 1, t)
    <2>1. params \in Seq(C) /\ cells \in Seq(C)
      BY <1>1 DEF StackSound
    <2> HIDE DEF C
    <2>2. p \in Seq(C) /\ Len(p) = t /\ \A i \in 1 .. t : p[i] = cells[i]
      BY <1>2, <1>3, <2>1, Prefix
    <2>3. cells' = p \o params
      BY <1>1, <1>3
    <2> HIDE DEF p
    <2>4. /\ cells' \in Seq(C) /\ Len(cells') = t + Len(params)
          /\ \A i \in 1 .. Len(cells') : cells'[i] = IF i <= t THEN p[i] ELSE params[i - t]
      BY <1>2, <2>1, <2>2, <2>3
    <2>5. Len(cells') = Top
      BY <1>3, <2>4
    <2>6. \A i \in 1 .. t : cells'[i] = cells[i]
      <3>1. \A i \in 1 .. t : i \in 1 .. Len(cells') /\ i <= t
        BY <1>3, <2>5
      <3>2. QED
        BY <2>2, <2>4, <3>1
    <2>7. \A i \in t + 1 .. Top : cells'[i] = params[i - t] /\ i - t \in 1 .. Len(params)
      <3>1. Top \in Nat /\ t \in Nat /\ t + Len(params) = Top /\ Len(params) \in Nat
        BY <1>2, <1>3, <2>1
      <3>2. ASSUME NEW i \in t + 1 .. Top
            PROVE  i \in 1 .. Len(cells') /\ ~(i <= t) /\ i - t \in 1 .. Len(params)
        <4>1. i \in Int /\ t + 1 <= i /\ i <= Top
          BY <3>1
        <4>2. QED
          BY <2>5, <3>1, <4>1
      <3>3. ASSUME NEW i \in t + 1 .. Top PROVE cells'[i] = params[i - t]
        BY <2>4, <3>2
      <3>4. QED
        BY <3>2, <3>3
    <2>8. QED
      BY <2>4, <2>5, <2>6, <2>7 DEF C
  <1>5. StackSound' /\ Top' = Top
    BY <1>1, <1>4 DEF StackSound, Top
  <1> DEFINE f == [slots |-> t, params |-> Len(params)]
             F == [slots : 1 .. Top, params : Nat]
             n == Len(frames)
  <1>6. /\ frames' \in Seq(F) /\ Len(frames') = n + 1 /\ n \in Nat /\ n >= 1
        /\ frames'[n + 1] = f /\ \A i \in 1 .. n : frames'[i] = frames[i]
    <2>1. frames \in Seq(F) /\ f \in F /\ frames' = Append(frames, f) /\ n \in Nat /\ n >= 1
      BY <1>1, <1>2, <1>3, FrameFacts DEF FramesSound
    <2> HIDE DEF F, f
    <2>2. QED
      BY <2>1
  <1>7. f.slots = t /\ f.params = Len(params)
    OBVIOUS
  <1> HIDE DEF f, F
  <1>8. \A i \in 1 .. n : frames[i].slots + frames[i].params < t
    <2>1. \A i, j \in 1 .. n : i < j => frames[i].slots + frames[i].params < frames[j].slots
      BY <1>1 DEF FramesSound
    <2>2. n \in 1 .. n /\ Frame = frames[n]
      BY <1>6 DEF Frame
    <2>3. \A i \in 1 .. n : frames[i].slots \in Nat /\ frames[i].params \in Nat
      BY <1>1, FrameFacts
    <2>4. frames[n].slots + frames[n].params < t
      BY <1>2, <1>3, <2>2
    <2>5. ASSUME NEW i \in 1 .. n, i # n PROVE frames[i].slots + frames[i].params < t
      <3>1. frames[i].slots + frames[i].params < frames[n].slots
        BY <1>6, <2>1, <2>2, <2>5
      <3>2. frames[n].slots <= t /\ frames[n].slots \in Nat /\ t \in Nat
        BY <1>3, <2>2, <2>3, <2>4
      <3>3. QED
        BY <2>3, <3>1, <3>2
    <2>6. QED
      BY <2>4, <2>5
  <1>9. FramesSound'
    <2>1. Frame' = f /\ Frame'.slots + Frame'.params <= Top'
      BY <1>2, <1>3, <1>5, <1>6, <1>7 DEF Frame
    <2>2. Len(frames') <= FramesMax
      BY <1>1, <1>6, BoundsAssumption
    <2>3. ASSUME NEW i \in 1 .. Len(frames'), NEW j \in 1 .. Len(frames'), i < j
          PROVE  frames'[i].slots + frames'[i].params < frames'[j].slots
      <3>1. i \in 1 .. n /\ frames'[i] = frames[i]
        BY <1>6, <2>3
      <3>2. CASE j \in 1 .. n
        BY <1>1, <1>6, <2>3, <3>1, <3>2 DEF FramesSound
      <3>3. CASE j = n + 1
        BY <1>6, <1>7, <1>8, <3>1, <3>3
      <3>4. QED
        BY <1>6, <3>2, <3>3
    <2>4. frames' \in Seq([slots : 1 .. Top', params : Nat])
      BY <1>5, <1>6 DEF F
    <2>5. QED
      BY <2>1, <2>2, <2>3, <2>4 DEF FramesSound
  <1>10. Running' /\ frames'[1] = frames[1]
    BY <1>6 DEF Running
  <1>11. \A i \in t + 1 .. Top : cells[i] = Temporary /\ cells'[i] \in Unused
    BY <1>1, <1>2, <1>3, <1>4, SMTT(20)
  <1>12. \A i, j \in t + 1 .. Top : cells'[i] = cells'[j] => i = j
    BY <1>1, <1>2, <1>3, <1>4, SMTT(20)
  <1>13. UpvaluesInv'
    BY <1>1, <1>3, <1>4, <1>5, <1>9, <1>10, <1>11, <1>12, BecomeVariables
  <1>14. Enters(t)
    BY <1>1, <1>3, <1>4, <1>5, <1>11 DEF Enters
  <1>15. QED
    BY <1>13, <1>14

LEMMA OpenOnce ==
  ASSUME UpvaluesInv, NEW u \in Upvalues, NEW w \in Upvalues, at[u] # 0, at[u] = at[w]
  PROVE  u = w
  <1>1. PICK i \in 1 .. Len(open) : open[i] = u
    BY DEF UpvaluesInv, OpenSorted, IsOpen
  <1>2. PICK j \in 1 .. Len(open) : open[j] = w
    BY DEF UpvaluesInv, OpenSorted, IsOpen
  <1>3. i = j
    BY <1>1, <1>2, Descending
  <1>4. QED
    BY <1>1, <1>2, <1>3

LEMMA CaptureStep ==
  ASSUME UpvaluesInv, NEW i \in 1 .. Top, NEW u \in Upvalues, Capture(i, u)
  PROVE  UpvaluesInv'
  <1>1. /\ StackSound /\ FramesSound /\ VariablesPlaced /\ ListSound /\ CapturesSound
        /\ Top \in Nat /\ Top <= StackMax /\ StackMax \in Nat /\ Len(cells) = Top
        /\ i \in Nat \ {0} /\ i <= StackMax
    BY Parts, StackFacts
  <1>2. /\ PushTemporary(AnyValue) /\ cells[i] # Temporary
        /\ held' = held \cup {u} /\ cellOf' = [cellOf EXCEPT ![u] = cells[i]]
        /\ closed' = closed
    BY DEF Capture, IsLocal
  <1>3. /\ StackSound' /\ FramesSound' /\ Top' = Top + 1
        /\ \A j \in 1 .. Top : cells'[j] = cells[j]
        /\ cells'[Top + 1] = Temporary /\ Running' /\ frames' = frames
    BY <1>2, PushTemporarySound, AnyValueTyped
  <1>4. /\ open' \in Seq(Upvalues) /\ at' \in [Upvalues -> 0 .. StackMax]
        /\ OpenSorted' /\ at' = [at EXCEPT ![u] = i]
        /\ \/ at[u] = i
           \/ at[u] = 0 /\ u \notin held /\ \A w \in Upvalues : at[w] # i
    BY <1>1, CaptureSound
  <1>5. cells[i] \in Cells /\ cells[i] \in InScope
    BY <1>1, <1>2, StackFacts DEF InScope
  <1>6. /\ at'[u] = i /\ cellOf'[u] = cells[i]
        /\ \A w \in Upvalues : w # u => at'[w] = at[w] /\ cellOf'[w] = cellOf[w]
    BY <1>1, <1>2, <1>4 DEF ListSound
  <1>7. ListSound'
    BY <1>1, <1>2, <1>4, <1>5 DEF ListSound
  <1>8. \A j \in 1 .. Top' : cells'[j] # Temporary => j \in 1 .. Top /\ cells'[j] = cells[j]
    BY <1>1, <1>3
  <1>9. VariablesPlaced'
    BY <1>1, <1>3, <1>8 DEF VariablesPlaced
  <1>10. InScope' \subseteq InScope
    <2>1. Len(cells') = Top'
      BY <1>3 DEF StackSound
    <2>2. QED
      BY <1>1, <1>8, <2>1 DEF InScope
  <1>11. \A w \in Upvalues : at[w] # 0 => at[w] \in 1 .. Top
    BY OpenIsVariable
  <1>12. \A w \in held : w \in Upvalues
    BY <1>1 DEF ListSound
  <1>13. ASSUME NEW w \in held, w # u PROVE cellOf[w] # cells[i]
    <2>1. CASE at[w] = 0
      BY <1>1, <1>5, <2>1 DEF CapturesSound
    <2>2. CASE at[w] # 0
      <3>1. cellOf[w] = cells[i] => at[w] = i
        BY <1>1, <1>2, <1>11, <1>12, <2>2 DEF CapturesSound, VariablesPlaced
      <3>2. at[w] = i => FALSE
        BY <1>1, <1>4, <1>12, <1>13, OpenOnce
      <3>3. QED
        BY <3>1, <3>2
    <2>3. QED
      BY <2>1, <2>2
  <1>14. CapturesSound'
    <2>1. ASSUME NEW w \in Upvalues, at'[w] # 0
          PROVE  at'[w] <= Top' /\ cells'[at'[w]] = cellOf'[w] /\ cellOf'[w] # Temporary
      <3>1. CASE w = u
        BY <1>1, <1>2, <1>3, <1>6, <3>1
      <3>2. CASE w # u
        BY <1>1, <1>3, <1>6, <1>11, <2>1, <3>2 DEF CapturesSound
      <3>3. QED
        BY <3>1, <3>2
    <2>2. \A w \in held' : at'[w] = 0 => cellOf'[w] \in Cells \ InScope'
      BY <1>1, <1>2, <1>6, <1>10, <1>12 DEF CapturesSound
    <2>3. \A v, w \in held' : cellOf'[v] = cellOf'[w] => v = w
      BY <1>1, <1>2, <1>6, <1>12, <1>13 DEF CapturesSound
    <2>4. QED
      BY <2>1, <2>2, <2>3 DEF CapturesSound
  <1>15. QED
    BY <1>3, <1>7, <1>9, <1>14, PartsNext
-----------------------------------------------------------------------------
LEMMA UpvaluesInitInv == UpvaluesInit => UpvaluesInv
  <1> SUFFICES ASSUME UpvaluesInit PROVE UpvaluesInv
    OBVIOUS
  <1>1. /\ stack = <<>> /\ frames = <<>> /\ cells = <<>> /\ open = <<>>
        /\ at = [u \in Upvalues |-> 0] /\ closed = [u \in Upvalues |-> AnyValue]
        /\ held = {} /\ cellOf = [u \in Upvalues |-> Temporary]
        /\ StackMax \in Nat /\ FramesMax \in Nat /\ AnyValue \in Values
    BY BoundsAssumption, AnyValueTyped DEF UpvaluesInit
  <1>2. StackSound /\ FramesSound /\ Top = 0
    BY <1>1 DEF StackSound, FramesSound, Top, Running
  <1>3. ListSound
    BY <1>1 DEF ListSound, OpenSorted, IsOpen
  <1>4. VariablesPlaced /\ CapturesSound
    BY <1>1, <1>2 DEF VariablesPlaced, CapturesSound
  <1>5. QED
    BY <1>2, <1>3, <1>4, Parts

LEMMA UpvaluesStep ==
  ASSUME Abrupt = {} PROVE UpvaluesInv /\ [UpvaluesNext]_upvalueVars => UpvaluesInv'
  <1> SUFFICES ASSUME UpvaluesInv, [UpvaluesNext]_upvalueVars PROVE UpvaluesInv'
    OBVIOUS
  <1>1. ASSUME NEW c \in Cells, Call(<<c>>) PROVE UpvaluesInv'
    <2>1. <<c>> \in Seq(Cells)
      OBVIOUS
    <2>2. QED
      BY <1>1, <2>1, CallStep
  <1>2. ASSUME Call(<<>>) PROVE UpvaluesInv'
    <2>1. <<>> \in Seq(Cells)
      OBVIOUS
    <2>2. QED
      BY <1>2, <2>1, CallStep
  <1>3. \A n \in 1 .. Top : n \in Nat
    BY Parts, StackFacts
  <1>4. ASSUME NEW i \in 1 .. Top,
               \/ \E v \in Values : SetLocal(i, v)
               \/ \E u \in Upvalues : Capture(i, u)
               \/ EndScope(i) \/ LeaveLoop(i)
        PROVE  UpvaluesInv'
    BY <1>3, <1>4, SetLocalStep, CaptureStep, EndScopeStep, LeaveLoopStep
  <1>5. ASSUME NEW u \in Upvalues, Release(u) \/ \E v \in Values : SetUpvalue(u, v)
        PROVE  UpvaluesInv'
    BY <1>5, ReleaseStep, SetUpvalueStep
  <1>6. ASSUME Interpret \/ Pop \/ Return \/ ReturnFromScript PROVE UpvaluesInv'
    BY <1>6, InterpretStep, PopStep, ReturnStep, ReturnFromScriptStep
  <1>7. ASSUME RuntimeError \/ EndMatchArm PROVE UpvaluesInv'
    BY <1>7, RuntimeErrorStep, EndMatchArmStep
  <1>8. ASSUME \/ \E v \in Values : Push(v)
               \/ \E c \in Cells : Bind(c)
               \/ UNCHANGED upvalueVars
        PROVE  UpvaluesInv'
    BY <1>8, PushStep, BindStep, UpvaluesStay
  <1>9. QED
    BY <1>1, <1>2, <1>4, <1>5, <1>6, <1>7, <1>8 DEF UpvaluesNext

(* The stack, the frames, the list of open upvalues and what was captured  *)
(* agree, while nothing leaves a captured variable behind.                 *)
THEOREM UpvaluesInvariant ==
  ASSUME Abrupt = {} PROVE UpvaluesSpec => []UpvaluesInv
  <1>1. QED
    BY UpvaluesInitInv, UpvaluesStep, PTL DEF UpvaluesSpec

(* Frames and upvalues stay on the stack, which stays within its bounds.   *)
THEOREM UpvaluesTyped ==
  ASSUME Abrupt = {} PROVE UpvaluesSpec => []UpvaluesTypeOK
  <1>1. UpvaluesInv => UpvaluesTypeOK
    BY DEF UpvaluesInv
  <1>2. QED
    BY <1>1, UpvaluesInvariant, PTL

(* An open upvalue points at the slot of the variable it was made for, and *)
(* that slot is live.                                                      *)
THEOREM OpenSlotsLiveTheorem ==
  ASSUME Abrupt = {} PROVE UpvaluesSpec => []OpenSlotsLive
  <1>1. UpvaluesInv => OpenSlotsLive
    BY DEF UpvaluesInv, UpvaluesTypeOK, CapturesSound, OpenSlotsLive
  <1>2. QED
    BY <1>1, UpvaluesInvariant, PTL

(* Closures that captured the same variable, and its scope, share it.      *)
THEOREM WritesAreSharedTheorem ==
  ASSUME Abrupt = {} PROVE UpvaluesSpec => []WritesAreShared
  <1>1. UpvaluesInv => WritesAreShared
    <2> SUFFICES ASSUME UpvaluesInv, NEW u \in held
                 PROVE  /\ \A w \in held : cellOf[u] = cellOf[w] => u = w
                        /\ \A i \in 1 .. Top : cells[i] = cellOf[u] => at[u] = i
      BY DEF WritesAreShared
    <2>1. /\ StackSound /\ ListSound /\ VariablesPlaced /\ CapturesSound /\ u \in Upvalues
      BY Parts DEF ListSound
    <2>2. ASSUME NEW i \in 1 .. Top, cells[i] = cellOf[u] PROVE at[u] = i
      <3>1. CASE at[u] = 0
        BY <2>1, <2>2, <3>1, CellsAssumption, StackFacts DEF CapturesSound, InScope
      <3>2. CASE at[u] # 0
        BY <2>1, <2>2, <3>2, OpenIsVariable DEF VariablesPlaced
      <3>3. QED
        BY <3>1, <3>2
    <2>3. QED
      BY <2>1, <2>2 DEF CapturesSound
  <1>2. QED
    BY <1>1, UpvaluesInvariant, PTL
-----------------------------------------------------------------------------
(* What a cell holds, for the slots and the closures that lead to it.      *)
ContentMeans ==
  /\ InScope \subseteq Cells /\ CapturedCells \subseteq Cells
  /\ \A i \in 1 .. Top : cells[i] # Temporary =>
       cells[i] \in InScope /\ Content[cells[i]] = stack[i]
  /\ \A c \in InScope : \E i \in 1 .. Top : cells[i] # Temporary /\ cells[i] = c
  /\ \A u \in held : cellOf[u] \in CapturedCells /\ Content[cellOf[u]] = Read(u)
  /\ \A c \in CapturedCells : \E u \in held : cellOf[u] = c
  /\ Content = [c \in Cells |-> Content[c]]
  /\ \A c \in Cells : c \notin InScope /\ c \notin CapturedCells => Content[c] = Dead

LEMMA ContentIs == UpvaluesInv => ContentMeans
  <1> SUFFICES ASSUME UpvaluesInv PROVE ContentMeans
    OBVIOUS
  <1>1. /\ StackSound /\ VariablesPlaced /\ ListSound /\ CapturesSound
        /\ Top \in Nat /\ Len(cells) = Top
        /\ \A i \in 1 .. Top : cells[i] \in Cells \cup {Temporary}
    BY Parts, StackFacts
  <1>2. \A u \in held : /\ u \in Upvalues /\ cellOf[u] \in Cells
                        /\ cellOf[u] \in CapturedCells
    <2>1. \A u \in held : u \in Upvalues /\ cellOf[u] \in Cells \cup {Temporary}
      BY <1>1 DEF ListSound
    <2>2. \A u \in held : cellOf[u] \in Cells
      BY <1>1, <2>1 DEF CapturesSound
    <2>3. QED
      BY <2>1, <2>2 DEF CapturedCells
  <1>3. InScope \subseteq Cells /\ CapturedCells \subseteq Cells
    BY <1>1, <1>2 DEF InScope, CapturedCells
  <1>4. \A c \in CapturedCells : \E u \in held : cellOf[u] = c
    BY DEF CapturedCells
  <1>5. \A c \in InScope : \E i \in 1 .. Top : cells[i] # Temporary /\ cells[i] = c
    BY <1>1 DEF InScope
  <1>6. \A i \in 1 .. Top : cells[i] # Temporary => cells[i] \in InScope
    BY <1>1 DEF InScope
  <1>7. ASSUME NEW u \in held PROVE Content[cellOf[u]] = Read(u)
    <2> DEFINE w == CHOOSE w \in held : cellOf[w] = cellOf[u]
    <2>1. w \in held /\ cellOf[w] = cellOf[u]
      OBVIOUS
    <2>2. w = u
      BY <1>1, <2>1 DEF CapturesSound
    <2>3. Content[cellOf[u]] = Read(w)
      BY <1>2 DEF Content
    <2>4. QED
      BY <2>2, <2>3
  <1>8. ASSUME NEW i \in 1 .. Top, cells[i] # Temporary PROVE Content[cells[i]] = stack[i]
    <2>1. CASE cells[i] \in CapturedCells
      <3>1. PICK u \in held : cellOf[u] = cells[i]
        BY <1>4, <2>1
      <3>2. at[u] # 0
        BY <1>1, <1>6, <1>8, <3>1 DEF CapturesSound
      <3>3. at[u] \in 1 .. Top /\ cells[at[u]] = cells[i]
        BY <1>2, <3>1, <3>2, OpenIsVariable
      <3>4. at[u] = i
        BY <1>1, <1>8, <3>3 DEF VariablesPlaced
      <3>5. Read(u) = stack[i]
        BY <3>2, <3>4 DEF Read
      <3>6. QED
        BY <1>7, <3>1, <3>5
    <2>2. CASE cells[i] \notin CapturedCells
      <3> DEFINE j == CHOOSE j \in 1 .. Top : cells[j] = cells[i]
      <3>1. j \in 1 .. Top /\ cells[j] = cells[i]
        BY <1>8
      <3>2. j = i
        BY <1>1, <1>8, <3>1 DEF VariablesPlaced
      <3>3. Content[cells[i]] = stack[j]
        BY <1>1, <1>3, <1>6, <1>8, <2>2 DEF Content
      <3>4. QED
        BY <3>2, <3>3
    <2>3. QED
      BY <2>1, <2>2
  <1>9. /\ Content = [c \in Cells |-> Content[c]]
        /\ \A c \in Cells : c \notin InScope /\ c \notin CapturedCells => Content[c] = Dead
    BY DEF Content
  <1>10. QED
    BY <1>2, <1>3, <1>4, <1>5, <1>6, <1>7, <1>8, <1>9 DEF ContentMeans

LEMMA ContentNext == UpvaluesInv' => ContentMeans'
  BY ContentIs, PTL

(* To know what the next state's slots and closures hold is enough.        *)
LEMMA SettledIs ==
  ASSUME UpvaluesInv', NEW values,
         \A i \in 1 .. Top' : cells'[i] # Temporary => values[cells'[i]] = stack'[i],
         \A u \in held' : values[cellOf'[u]] = Read(u)'
  PROVE  Program!Settle(values)
  <1>1. ContentMeans'
    BY ContentNext
  <1>2. ASSUME NEW c \in Cells
        PROVE  Content'[c] = IF c \in InScope' \cup CapturedCells' THEN values[c] ELSE Dead
    <2>1. CASE c \in InScope'
      <3>1. PICK i \in 1 .. Top' : cells'[i] # Temporary /\ cells'[i] = c
        BY <1>1, <2>1 DEF ContentMeans
      <3>2. Content'[c] = stack'[i]
        BY <1>1, <3>1 DEF ContentMeans
      <3>3. QED
        BY <2>1, <3>1, <3>2
    <2>2. CASE c \in CapturedCells'
      <3>1. PICK u \in held' : cellOf'[u] = c
        BY <1>1, <2>2 DEF ContentMeans
      <3>2. Content'[c] = Read(u)'
        BY <1>1, <3>1 DEF ContentMeans
      <3>3. QED
        BY <2>2, <3>1, <3>2
    <2>3. CASE c \notin InScope' /\ c \notin CapturedCells'
      BY <1>1, <2>3 DEF ContentMeans
    <2>4. QED
      BY <2>1, <2>2, <2>3
  <1>3. Content' = [c \in Cells |-> Content'[c]]
    BY <1>1 DEF ContentMeans
  <1>4. QED
    BY <1>2, <1>3 DEF Program!Settle, Program!Live

(* What only drops variables maps to Leave.                                *)
LEMMA LeaveMaps ==
  ASSUME UpvaluesInv, UpvaluesInv', NEW t, Keeps(t)
  PROVE  Program!CellsNext
  <1>1. ContentMeans /\ ContentMeans' /\ Top \in Nat /\ Top' \in Nat
    <2>1. StackSound /\ StackSound'
      BY Parts, PartsNext
    <2>2. QED
      BY <2>1, ContentIs, ContentNext, StackFacts DEF StackSound, Top
  <1>2. \A i \in 1 .. Top' : cells'[i] # Temporary =>
          i \in 1 .. Top /\ cells[i] = cells'[i] /\ stack[i] = stack'[i]
    BY <1>1 DEF Keeps
  <1>3. /\ held' = held
        /\ \A u \in held : cellOf'[u] = cellOf[u] /\ Read(u)' = Read(u)
    BY DEF Keeps
  <1> PICK C \in SUBSET Cells : C = InScope \ InScope'
    BY <1>1 DEF ContentMeans
  <1>4. InScope' \subseteq InScope
    BY <1>1, <1>2 DEF ContentMeans
  <1>5. InScope' = InScope \ C
    BY <1>4
  <1>6. CapturedCells' = CapturedCells
    BY <1>3 DEF CapturedCells
  <1>7. Program!Settle(Content)
    <2>1. \A i \in 1 .. Top' : cells'[i] # Temporary => Content[cells'[i]] = stack'[i]
      BY <1>1, <1>2 DEF ContentMeans
    <2>2. \A u \in held' : Content[cellOf'[u]] = Read(u)'
      BY <1>1, <1>3 DEF ContentMeans
    <2>3. QED
      BY <2>1, <2>2, SettledIs
  <1>8. QED
    BY <1>5, <1>6, <1>7 DEF Program!CellsNext, Program!Leave

LEMMA TopTyped == UpvaluesInv => Top \in Nat /\ StackSound
  BY Parts, StackFacts

(* The value on top becomes a variable: Declare.                           *)
LEMMA BindMaps ==
  ASSUME UpvaluesInv, UpvaluesInv', NEW c \in Cells, Bind(c) PROVE Program!CellsNext
  <1>1. /\ ContentMeans /\ ContentMeans' /\ StackSound /\ Top \in Nat
        /\ c \notin InScope /\ c \notin CapturedCells
        /\ cells' = [cells EXCEPT ![Top] = c]
        /\ UNCHANGED <<stack, frames, listVars>> /\ Running /\ cells[Top] = Temporary
        /\ Top >= Frame.slots + Frame.params + 1
    BY ContentIs, ContentNext, TopTyped DEF Bind, HasTemporary, Unused, FirstFree
  <1>2. Top \in 1 .. Top /\ Top' = Top
    <2>1. FramesSound
      BY Parts
    <2>2. QED
      BY <1>1, <2>1, FrameFacts DEF Top
  <1> PICK v \in Values : v = stack[Top]
    BY <1>1, <1>2, StackFacts
  <1>3. \A i \in 1 .. Top : cells'[i] = IF i = Top THEN c ELSE cells[i]
    BY <1>1, <1>2, StackFacts
  <1>4. UNCHANGED <<at, closed, held, cellOf, stack>>
    BY <1>1 DEF listVars
  <1>5. c # Temporary
    BY CellsAssumption
  <1>6. InScope' = InScope \cup {c}
    <2>1. ASSUME NEW d \in InScope' PROVE d \in InScope \cup {c}
      BY <1>1, <1>2, <1>3, <2>1 DEF ContentMeans
    <2>2. ASSUME NEW d \in InScope PROVE d \in InScope'
      BY <1>1, <1>2, <1>3, <2>2 DEF ContentMeans
    <2>3. c \in InScope'
      BY <1>1, <1>2, <1>3, <1>5 DEF ContentMeans
    <2>4. QED
      BY <2>1, <2>2, <2>3
  <1>7. CapturedCells' = CapturedCells
    BY <1>4 DEF CapturedCells
  <1> DEFINE values == [Content EXCEPT ![c] = v]
  <1>8. values[c] = v /\ \A d \in Cells : d # c => values[d] = Content[d]
    BY <1>1 DEF ContentMeans
  <1> HIDE DEF values
  <1>9. Program!Settle(values)
    <2>1. \A i \in 1 .. Top' : cells'[i] # Temporary => values[cells'[i]] = stack'[i]
      BY <1>1, <1>2, <1>3, <1>4, <1>8, SMTT(20) DEF ContentMeans
    <2>2. \A u \in held : Read(u)' = Read(u)
      BY <1>4 DEF Read
    <2>3. \A u \in held' : values[cellOf'[u]] = Read(u)'
      BY <1>1, <1>4, <1>8, <2>2 DEF ContentMeans
    <2>4. QED
      BY <2>1, <2>3, SettledIs
  <1>10. Program!Declare(c, v)
    BY <1>1, <1>6, <1>7, <1>9 DEF Program!Declare, Program!Live, values
  <1>11. QED
    BY <1>10 DEF Program!CellsNext

(* Whoever writes a variable writes the slot or the closed value that      *)
(* everybody else reads: Assign.                                           *)
LEMMA AssignMaps ==
  ASSUME UpvaluesInv, UpvaluesInv', NEW c \in InScope \cup CapturedCells, NEW v \in Values,
         UNCHANGED <<cells, held, cellOf>>, Top' = Top,
         \A i \in 1 .. Top : cells[i] # Temporary =>
           stack'[i] = IF cells[i] = c THEN v ELSE stack[i],
         \A u \in held : Read(u)' = IF cellOf[u] = c THEN v ELSE Read(u)
  PROVE  Program!CellsNext
  <1>1. ContentMeans /\ c \in Cells
    BY ContentIs DEF ContentMeans
  <1> DEFINE values == [Content EXCEPT ![c] = v]
  <1>2. \A d \in Cells : values[d] = IF d = c THEN v ELSE Content[d]
    BY <1>1 DEF ContentMeans
  <1> HIDE DEF values
  <1>3. Program!Settle(values)
    <2>1. \A i \in 1 .. Top' : cells'[i] # Temporary => values[cells'[i]] = stack'[i]
      BY <1>1, <1>2 DEF ContentMeans
    <2>2. \A u \in held' : values[cellOf'[u]] = Read(u)'
      BY <1>1, <1>2 DEF ContentMeans
    <2>3. QED
      BY <2>1, <2>2, SettledIs
  <1>4. InScope' = InScope /\ CapturedCells' = CapturedCells
    BY DEF InScope, CapturedCells
  <1>5. Program!Assign(c, v)
    BY <1>3, <1>4 DEF Program!Assign, Program!Live, values
  <1>6. QED
    BY <1>1, <1>5 DEF Program!CellsNext

LEMMA SetLocalMaps ==
  ASSUME UpvaluesInv, UpvaluesInv', NEW i \in 1 .. Top, NEW v \in Values, SetLocal(i, v)
  PROVE  Program!CellsNext
  <1>1. /\ ContentMeans /\ StackSound /\ VariablesPlaced /\ CapturesSound /\ ListSound
        /\ Top \in Nat /\ cells[i] # Temporary /\ stack' = [stack EXCEPT ![i] = v]
        /\ UNCHANGED <<cells, listVars>>
    BY ContentIs, TopTyped, Parts DEF SetLocal, IsLocal
  <1>2. UNCHANGED <<at, closed, held, cellOf>> /\ Top' = Top
        /\ \A j \in 1 .. Top : stack'[j] = IF j = i THEN v ELSE stack[j]
    BY <1>1 DEF listVars, StackSound, Top
  <1> PICK c \in InScope : c = cells[i]
    BY <1>1 DEF ContentMeans
  <1>3. \A j \in 1 .. Top : cells[j] # Temporary => (cells[j] = c <=> j = i)
    BY <1>1 DEF VariablesPlaced
  <1>4. ASSUME NEW u \in held PROVE Read(u)' = IF cellOf[u] = c THEN v ELSE Read(u)
    <2>1. u \in Upvalues
      BY <1>1 DEF ListSound
    <2>2. CASE at[u] = 0
      BY <1>1, <1>2, <2>2 DEF Read, CapturesSound
    <2>3. CASE at[u] # 0
      <3>1. /\ at[u] \in 1 .. Top /\ cells[at[u]] # Temporary
            /\ cells[at[u]] = cellOf[u]
        BY <2>1, <2>3, OpenIsVariable
      <3>2. QED
        BY <1>2, <1>3, <2>3, <3>1 DEF Read
    <2>4. QED
      BY <2>2, <2>3
  <1>5. QED
    BY <1>1, <1>2, <1>3, <1>4, AssignMaps

LEMMA SetUpvalueMaps ==
  ASSUME UpvaluesInv, UpvaluesInv', NEW u \in Upvalues, NEW v \in Values, SetUpvalue(u, v)
  PROVE  Program!CellsNext
  <1>1. /\ ContentMeans /\ StackSound /\ VariablesPlaced /\ CapturesSound /\ ListSound
        /\ Top \in Nat /\ u \in held /\ held \subseteq Upvalues
        /\ UNCHANGED <<cells, at, held, cellOf>>
    BY ContentIs, TopTyped, Parts DEF SetUpvalue, ListSound
  <1> PICK c \in CapturedCells : c = cellOf[u]
    BY <1>1 DEF ContentMeans
  <1>2. \A w \in held : cellOf[w] = c <=> w = u
    BY <1>1 DEF CapturesSound
  <1>3. CASE at[u] = 0
    <2>1. closed' = [closed EXCEPT ![u] = v] /\ stack' = stack /\ Top' = Top
      BY <1>3 DEF SetUpvalue, Top
    <2>2. c \notin InScope
      BY <1>1, <1>3 DEF CapturesSound
    <2>3. \A w \in held : closed'[w] = IF w = u THEN v ELSE closed[w]
      BY <1>1, <2>1 DEF ListSound
    <2>4. \A w \in held : Read(w)' = IF cellOf[w] = c THEN v ELSE Read(w)
      BY <1>1, <1>2, <1>3, <2>1, <2>3 DEF Read
    <2>5. \A i \in 1 .. Top : cells[i] # Temporary =>
            stack'[i] = IF cells[i] = c THEN v ELSE stack[i]
      BY <1>1, <2>1, <2>2 DEF ContentMeans
    <2>6. QED
      BY <1>1, <2>1, <2>4, <2>5, AssignMaps
  <1>4. CASE at[u] # 0
    <2>1. /\ at[u] \in 1 .. Top /\ cells[at[u]] # Temporary /\ cells[at[u]] = c
      BY <1>4, OpenIsVariable
    <2>2. /\ stack' = [stack EXCEPT ![at[u]] = v] /\ closed' = closed /\ Top' = Top
          /\ \A j \in 1 .. Top : stack'[j] = IF j = at[u] THEN v ELSE stack[j]
      <3>1. stack' = [stack EXCEPT ![at[u]] = v] /\ closed' = closed
        BY <1>4 DEF SetUpvalue
      <3>2. stack \in Seq(Values) /\ Top = Len(stack)
        BY <1>1 DEF StackSound, Top
      <3>3. \A j \in 1 .. Len(stack) : stack'[j] = IF j = at[u] THEN v ELSE stack[j]
        BY <3>1, <3>2
      <3>4. Len(stack') = Len(stack)
        BY <3>1, <3>2
      <3>5. QED
        BY <3>1, <3>2, <3>3, <3>4 DEF Top
    <2>3. \A i \in 1 .. Top : cells[i] # Temporary =>
            stack'[i] = IF cells[i] = c THEN v ELSE stack[i]
      BY <1>1, <2>1, <2>2 DEF VariablesPlaced
    <2>4. ASSUME NEW w \in held PROVE Read(w)' = IF cellOf[w] = c THEN v ELSE Read(w)
      <3>1. CASE at[w] = 0
        BY <1>1, <1>2, <1>4, <2>2, <3>1 DEF Read
      <3>2. CASE at[w] # 0
        <4>1. /\ at[w] \in 1 .. Top /\ w \in Upvalues /\ (at[w] = at[u] <=> w = u)
          BY <1>1, <1>4, <3>2, OpenIsVariable, OpenOnce
        <4>2. QED
          BY <1>1, <1>2, <2>2, <3>2, <4>1 DEF Read
      <3>3. QED
        BY <3>1, <3>2
    <2>5. QED
      BY <1>1, <2>2, <2>3, <2>4, AssignMaps
  <1>5. QED
    BY <1>3, <1>4

(* The arguments of a call become the variables of its parameters: Enter.  *)
LEMMA EnterMaps ==
  ASSUME UpvaluesInv, UpvaluesInv', NEW t, Enters(t) PROVE Program!CellsNext
  <1>1. /\ ContentMeans /\ ContentMeans' /\ Top \in Nat /\ Top' = Top
        /\ t \in 0 .. Top /\ UNCHANGED <<stack, at, closed, held, cellOf>>
        /\ \A i \in 1 .. t : cells'[i] = cells[i]
        /\ \A i \in t + 1 .. Top : cells[i] = Temporary /\ cells'[i] \in Unused
    BY ContentIs, ContentNext, TopTyped DEF Enters, listVars
  <1> DEFINE D == {cells'[i] : i \in t + 1 .. Top}
  <1>2. /\ \A i \in t + 1 .. Top : cells'[i] \in D
        /\ \A c \in D : \E i \in t + 1 .. Top : cells'[i] = c
    OBVIOUS
  <1>3. \A c \in D : c \in Cells /\ c \notin InScope /\ c \notin CapturedCells
    BY <1>1 DEF Unused
  <1> HIDE DEF D
  <1> PICK C \in SUBSET Cells : C = D
    BY <1>3
  <1>4. \A i \in 1 .. Top : \/ i \in 1 .. t /\ cells'[i] = cells[i]
                            \/ i \in t + 1 .. Top /\ cells'[i] \in C
    BY <1>1, <1>2
  <1>5. InScope' = InScope \cup C
    <2>1. ASSUME NEW c \in InScope' PROVE c \in InScope \cup C
      BY <1>1, <1>4, <2>1 DEF ContentMeans
    <2>2. ASSUME NEW c \in InScope PROVE c \in InScope'
      <3>1. PICK i \in 1 .. Top : cells[i] # Temporary /\ cells[i] = c
        BY <1>1 DEF ContentMeans
      <3>2. cells'[i] = c
        BY <1>1, <1>4, <3>1
      <3>3. QED
        BY <1>1, <3>1, <3>2 DEF ContentMeans
    <2>3. ASSUME NEW c \in C PROVE c \in InScope'
      <3>1. PICK i \in t + 1 .. Top : cells'[i] = c
        BY <1>2
      <3>2. i \in 1 .. Top' /\ c # Temporary
        BY <1>1, CellsAssumption
      <3>3. QED
        BY <1>1, <3>1, <3>2 DEF ContentMeans
    <2>4. QED
      BY <2>1, <2>2, <2>3
  <1>6. CapturedCells' = CapturedCells
    BY <1>1 DEF CapturedCells
  <1> PICK new : new = [c \in C |-> Content'[c]]
    OBVIOUS
  <1>7. new \in [C -> Values] /\ \A c \in C : new[c] = Content'[c]
    <2>1. ASSUME NEW c \in C PROVE Content'[c] \in Values
      <3>1. PICK i \in 1 .. Top : cells'[i] # Temporary /\ cells'[i] = c
        BY <1>1, <1>5 DEF ContentMeans
      <3>2. Content'[c] = stack[i] /\ stack[i] \in Values
        BY <1>1, <3>1, TopTyped, StackFacts DEF ContentMeans
      <3>3. QED
        BY <3>2
    <2>2. QED
      BY <2>1
  <1> DEFINE values == [c \in Cells |-> IF c \in C THEN new[c] ELSE Content[c]]
  <1>8. /\ \A c \in C : values[c] = Content'[c]
        /\ \A c \in Cells : c \notin C => values[c] = Content[c]
    BY <1>7
  <1> HIDE DEF values
  <1>9. Program!Settle(values)
    <2>1. ASSUME NEW i \in 1 .. Top', cells'[i] # Temporary
          PROVE  values[cells'[i]] = stack'[i]
      <3>1. CASE i \in 1 .. t /\ cells'[i] = cells[i]
        <4>1. cells[i] \in InScope /\ Content[cells[i]] = stack[i]
          BY <1>1, <2>1, <3>1 DEF ContentMeans
        <4>2. QED
          BY <1>1, <1>3, <1>8, <3>1, <4>1 DEF ContentMeans
      <3>2. CASE cells'[i] \in C
        BY <1>1, <1>8, <2>1, <3>2 DEF ContentMeans
      <3>3. QED
        BY <1>1, <1>4, <3>1, <3>2
    <2>2. ASSUME NEW u \in held' PROVE values[cellOf'[u]] = Read(u)'
      <3>1. cellOf[u] \in CapturedCells /\ Content[cellOf[u]] = Read(u)
        BY <1>1 DEF ContentMeans
      <3>2. cellOf'[u] = cellOf[u] /\ Read(u)' = Read(u)
        BY <1>1 DEF Read
      <3>3. QED
        BY <1>1, <1>3, <1>8, <3>1, <3>2 DEF ContentMeans
    <2>3. QED
      BY <2>1, <2>2, SettledIs
  <1>10. Program!Enter(C)
    BY <1>3, <1>5, <1>6, <1>7, <1>9 DEF Program!Enter, Program!Live, values
  <1>11. QED
    BY <1>10 DEF Program!CellsNext

(* A closure captures a variable that is in scope.                         *)
LEMMA CaptureMaps ==
  ASSUME UpvaluesInv, UpvaluesInv', NEW i \in 1 .. Top, NEW u \in Upvalues, Capture(i, u)
  PROVE  Program!CellsNext
  <1>1. /\ ContentMeans /\ ContentMeans' /\ CapturesSound /\ ListSound
        /\ Top \in Nat /\ Top <= StackMax /\ i \in Nat \ {0} /\ i <= StackMax
    BY ContentIs, ContentNext, TopTyped, Parts, StackFacts
  <1>2. /\ PushTemporary(AnyValue) /\ cells[i] # Temporary
        /\ held' = held \cup {u} /\ cellOf' = [cellOf EXCEPT ![u] = cells[i]]
        /\ closed' = closed
    BY DEF Capture, IsLocal
  <1>3. /\ Top' = Top + 1
        /\ \A j \in 1 .. Top : cells'[j] = cells[j] /\ stack'[j] = stack[j]
        /\ cells'[Top + 1] = Temporary
    BY <1>2, PushTemporarySound, AnyValueTyped
  <1>4. /\ at' = [at EXCEPT ![u] = i]
        /\ \/ at[u] = i
           \/ at[u] = 0 /\ u \notin held
    BY <1>1, CaptureSound
  <1> PICK c \in InScope : c = cells[i]
    BY <1>1, <1>2 DEF ContentMeans
  <1>5. /\ at'[u] = i /\ cellOf'[u] = c
        /\ \A w \in Upvalues : w # u => at'[w] = at[w] /\ cellOf'[w] = cellOf[w]
        /\ \A w \in held : w \in Upvalues
    BY <1>1, <1>2, <1>4 DEF ListSound
  <1>6. u \in held => cellOf[u] = c
    BY <1>1, <1>4 DEF CapturesSound
  <1>7. \A j \in 1 .. Top' : \/ j \in 1 .. Top /\ cells'[j] = cells[j] /\ stack'[j] = stack[j]
                             \/ cells'[j] = Temporary
    BY <1>1, <1>3
  <1>8. \A j \in 1 .. Top : j \in 1 .. Top'
    BY <1>1, <1>3
  <1>9. InScope' = InScope
    <2>1. ASSUME NEW d \in InScope' PROVE d \in InScope
      BY <1>1, <1>7, <2>1 DEF ContentMeans
    <2>2. ASSUME NEW d \in InScope PROVE d \in InScope'
      BY <1>1, <1>3, <1>8, <2>2 DEF ContentMeans
    <2>3. QED
      BY <2>1, <2>2
  <1>10. CapturedCells' = CapturedCells \cup {c}
    <2>1. \A w \in held : cellOf'[w] = cellOf[w]
      BY <1>5, <1>6
    <2>2. ASSUME NEW d \in CapturedCells' PROVE d \in CapturedCells \cup {c}
      BY <1>1, <1>2, <1>5, <2>1, <2>2, SMTT(20) DEF ContentMeans
    <2>3. ASSUME NEW d \in CapturedCells PROVE d \in CapturedCells'
      BY <1>1, <1>2, <2>1, <2>3 DEF ContentMeans
    <2>4. c \in CapturedCells'
      BY <1>1, <1>2, <1>5 DEF ContentMeans
    <2>5. QED
      BY <2>2, <2>3, <2>4
  <1>11. Program!Settle(Content)
    <2>1. \A j \in 1 .. Top' : cells'[j] # Temporary => Content[cells'[j]] = stack'[j]
      BY <1>1, <1>7 DEF ContentMeans
    <2>2. ASSUME NEW w \in held' PROVE Content[cellOf'[w]] = Read(w)'
      <3>1. CASE w = u
        <4>1. Read(w)' = stack[i]
          BY <1>1, <1>3, <1>5, <3>1 DEF Read
        <4>2. QED
          BY <1>1, <1>2, <1>5, <3>1, <4>1 DEF ContentMeans
      <3>2. CASE w # u
        <4>1. w \in held /\ w \in Upvalues /\ at'[w] = at[w] /\ cellOf'[w] = cellOf[w]
          BY <1>2, <1>5, <3>2
        <4>2. at[w] # 0 => at[w] \in 1 .. Top
          BY <4>1, OpenIsVariable
        <4>3. Read(w)' = Read(w)
          BY <1>2, <1>3, <4>1, <4>2 DEF Read
        <4>4. QED
          BY <1>1, <4>1, <4>3 DEF ContentMeans
      <3>3. QED
        BY <3>1, <3>2
    <2>3. QED
      BY <2>1, <2>2, SettledIs
  <1>12. Content' = Content
    <2>1. Content' = [d \in Cells |-> IF d \in InScope' \cup CapturedCells' THEN Content[d]
                                      ELSE Dead]
      BY <1>11 DEF Program!Settle, Program!Live
    <2>2. \A d \in Cells : d \notin InScope' \cup CapturedCells' => Content[d] = Dead
      BY <1>1, <1>9, <1>10 DEF ContentMeans
    <2>3. Content = [d \in Cells |-> Content[d]]
      BY <1>1 DEF ContentMeans
    <2>4. \A d \in Cells : Content'[d] = Content[d]
      BY <2>1, <2>2
    <2>5. QED
      BY <2>1, <2>2, <2>3
  <1>13. Program!Capture(c)
    BY <1>9, <1>10, <1>12 DEF Program!Capture
  <1>14. c \in Cells
    BY <1>1 DEF ContentMeans
  <1>15. QED
    BY <1>13, <1>14 DEF Program!CellsNext

(* The last closure that holds a variable goes.                            *)
LEMMA ReleaseMaps ==
  ASSUME UpvaluesInv, UpvaluesInv', NEW u \in Upvalues, Release(u) PROVE Program!CellsNext
  <1>1. /\ ContentMeans /\ CapturesSound /\ ListSound /\ StackSound
        /\ u \in held /\ held' = held \ {u}
        /\ UNCHANGED <<stack, frames, cells, open, at>>
    BY ContentIs, TopTyped, Parts DEF Release, stackVars
  <1>2. \A w \in held' : closed'[w] = closed[w] /\ cellOf'[w] = cellOf[w]
    <2>1. CASE IsOpen(u)
      BY <1>1, <2>1 DEF Release
    <2>2. CASE ~IsOpen(u)
      BY <1>1, <2>2 DEF Release, ListSound, Without
    <2>3. QED
      BY <2>1, <2>2
  <1> PICK c \in Cells : c = cellOf[u]
    BY <1>1 DEF ContentMeans
  <1>3. InScope' = InScope /\ Top' = Top
    BY <1>1 DEF InScope, Top
  <1>4. CapturedCells' = CapturedCells \ {c}
    <2>1. CapturedCells' = {cellOf[w] : w \in held \ {u}}
      BY <1>1, <1>2 DEF CapturedCells
    <2>2. \A w \in held : cellOf[w] = c <=> w = u
      BY <1>1 DEF CapturesSound
    <2>3. QED
      BY <2>1, <2>2 DEF CapturedCells
  <1>5. Program!Settle(Content)
    <2>1. \A i \in 1 .. Top' : cells'[i] # Temporary => Content[cells'[i]] = stack'[i]
      BY <1>1, <1>3 DEF ContentMeans
    <2>2. \A w \in held' : Content[cellOf'[w]] = Read(w)'
      BY <1>1, <1>2 DEF ContentMeans, Read
    <2>3. QED
      BY <2>1, <2>2, SettledIs
  <1>6. Program!Release({c})
    BY <1>3, <1>4, <1>5 DEF Program!Release
  <1>7. {c} \in SUBSET Cells
    OBVIOUS
  <1>8. QED
    BY <1>6, <1>7 DEF Program!CellsNext

LEMMA CellsStay ==
  ASSUME UNCHANGED upvalueVars PROVE UNCHANGED Program!cellVars
  BY DEF upvalueVars, Program!cellVars, InScope, CapturedCells, Content, Read, Top

LEMMA CellsInitMaps == UpvaluesInit => Program!CellsInit
  <1> SUFFICES ASSUME UpvaluesInit PROVE Program!CellsInit
    OBVIOUS
  <1>1. InScope = {} /\ CapturedCells = {}
    BY DEF UpvaluesInit, InScope, CapturedCells
  <1>2. Content = [c \in Cells |-> Dead]
    BY <1>1 DEF Content
  <1>3. QED
    BY <1>1, <1>2 DEF Program!CellsInit

LEMMA StepMaps ==
  ASSUME Abrupt = {}
  PROVE  UpvaluesInv /\ UpvaluesInv' /\ [UpvaluesNext]_upvalueVars
           => [Program!CellsNext]_(Program!cellVars)
  <1> SUFFICES ASSUME UpvaluesInv, UpvaluesInv', [UpvaluesNext]_upvalueVars
               PROVE  [Program!CellsNext]_(Program!cellVars)
    OBVIOUS
  <1>1. ASSUME NEW params \in Seq(Cells), Call(params) PROVE Program!CellsNext
    BY <1>1, CallStep, EnterMaps
  <1>2. <<>> \in Seq(Cells) /\ \A c \in Cells : <<c>> \in Seq(Cells)
    OBVIOUS
  <1>3. ASSUME \E t : Keeps(t) PROVE Program!CellsNext
    BY <1>3, LeaveMaps
  <1>4. \A n \in 1 .. Top : n \in Nat
    BY Parts, StackFacts
  <1>5. ASSUME NEW i \in 1 .. Top,
               \/ \E v \in Values : SetLocal(i, v)
               \/ \E u \in Upvalues : Capture(i, u)
        PROVE  Program!CellsNext
    BY <1>5, SetLocalMaps, CaptureMaps
  <1>6. ASSUME NEW i \in 1 .. Top, EndScope(i) \/ LeaveLoop(i) PROVE Program!CellsNext
    BY <1>3, <1>4, <1>6, EndScopeStep, LeaveLoopStep
  <1>7. ASSUME NEW u \in Upvalues, Release(u) \/ \E v \in Values : SetUpvalue(u, v)
        PROVE  Program!CellsNext
    BY <1>7, ReleaseMaps, SetUpvalueMaps
  <1>8. ASSUME \/ Interpret \/ Pop \/ Return \/ ReturnFromScript
               \/ RuntimeError \/ EndMatchArm \/ \E v \in Values : Push(v)
        PROVE  Program!CellsNext
    <2>1. \E t : Keeps(t)
      BY <1>8, InterpretStep, PopStep, ReturnStep, ReturnFromScriptStep,
         RuntimeErrorStep, EndMatchArmStep, PushStep
    <2>2. QED
      BY <1>3, <2>1
  <1>9. ASSUME NEW c \in Cells, Bind(c) PROVE Program!CellsNext
    BY <1>9, BindMaps
  <1>10. CASE UNCHANGED upvalueVars
    BY <1>10, CellsStay
  <1>11. CASE UpvaluesNext
    BY <1>1, <1>2, <1>5, <1>6, <1>7, <1>8, <1>9, <1>11 DEF UpvaluesNext
  <1>12. QED
    BY <1>10, <1>11

(* Slots, frames and upvalues are an implementation of variables that are  *)
(* cells: every instruction does to the stack what the program expects of  *)
(* its variables.                                                          *)
THEOREM StackHoldsVariables ==
  ASSUME Abrupt = {} PROVE UpvaluesSpec => ImplementsVariables
  <1>1. QED
    BY CellsInitMaps, StepMaps, UpvaluesInvariant, PTL
       DEF UpvaluesSpec, ImplementsVariables, Program!CellsSpec
=============================================================================
