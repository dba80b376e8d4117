---------------------------- MODULE TableProofs ----------------------------
(***************************************************************************)
(* Proofs about Table and StringTable, for every hash function, every set  *)
(* of keys, texts and values and every first capacity of at least two: the *)
(* probe always finds its key or an empty slot, the intern table lists     *)
(* what lives, and any other table is a map.                               *)
(***************************************************************************)
EXTENDS StringTable, FiniteSetTheorems, TLAPS

(* Every non-empty set of naturals has a least member: `Least` is one.     *)
LEMMA LeastIsLeast ==
  ASSUME NEW D \in SUBSET Nat, D # {}
  PROVE  Least(D) \in D /\ \A e \in D : Least(D) <= e
  <1> DEFINE R == OpToRel(<, Nat)
  <1>1. IsWellFoundedOn(R, Nat)
    BY NatLessThanWellFounded
  <1>2. \A x, y \in Nat : x < y => <<x, y>> \in R
    BY Zenon DEF OpToRel
  <1> HIDE DEF R
  <1>3. PICK x \in D : \A y \in D : <<y, x>> \notin R
    BY <1>1, WFMin
  <1>4. \A y \in D : ~ (y < x)
    BY <1>2, <1>3, Zenon
  <1>5. \A y \in D : x <= y
    BY <1>4
  <1>6. QED
    BY <1>5, Zenon DEF Least

LEMMA DivisionExists ==
  ASSUME NEW a \in Nat, NEW n \in Nat \ {0}
  PROVE  a % n \in Indices(n) /\ \E q \in Nat : a = n * q + (a % n)
  <1>1. a % n \in Indices(n)
    BY DEF Indices
  <1>2. a \div n \in Nat
    OBVIOUS
  <1>3. a = n * (a \div n) + (a % n)
    BY Z3T(30)
  <1>4. QED
    BY <1>1, <1>2, <1>3

LEMMA RemainderIs ==
  ASSUME NEW q \in Nat, NEW n \in Nat \ {0}, NEW i \in Indices(n)
  PROVE  (n * q + i) % n = i
  BY DEF Indices

(* A probe stays in the array and, in n steps, meets every entry of it.    *)
LEMMA ProbeMeetsAll ==
  ASSUME NEW n \in Nat \ {0}, NEW k \in Keys
  PROVE  /\ \A d \in Nat : At(n, k, d) \in Indices(n)
         /\ \A i \in Indices(n) : \E d \in Indices(n) : At(n, k, d) = i
  <1>1. Hash[k] \in Nat
    BY HashAssumption
  <1>2. ASSUME NEW d \in Nat PROVE At(n, k, d) \in Indices(n)
    <2>1. Hash[k] + d \in Nat
      BY <1>1
    <2>2. QED
      BY <2>1, DivisionExists DEF At
  <1>3. ASSUME NEW i \in Indices(n)
        PROVE  \E d \in Indices(n) : At(n, k, d) = i
    <2> DEFINE h == Hash[k]
               r == h % n
    <2> PICK q \in Nat : h = n * q + r
      BY <1>1, DivisionExists
    <2>1. r \in Indices(n) /\ h \in Nat
      BY <1>1, DivisionExists
    <2> HIDE DEF r, h
    <2>2. CASE i >= r
      <3>1. i - r \in Indices(n) /\ h + (i - r) = n * q + i
        BY <2>1, <2>2 DEF Indices
      <3>2. QED
        BY <3>1, RemainderIs DEF At, h
    <2>3. CASE i < r
      <3>1. q + 1 \in Nat /\ i - r + n \in Indices(n)
        BY <2>1, <2>3 DEF Indices
      <3>2. h + (i - r + n) = n * (q + 1) + i
        BY <2>1, <1>3 DEF Indices
      <3>3. QED
        BY <3>1, <3>2, RemainderIs DEF At, h
    <2>4. QED
      BY <2>1, <2>2, <2>3 DEF Indices
  <1>4. QED
    BY <1>2, <1>3

LEMMA SlotCases ==
  /\ \A s \in Slot : HasKey(s) => s \in Entries
  /\ \A k \in Keys, v \in Values : /\ [key |-> k, value |-> v] \in Slot
                                   /\ HasKey([key |-> k, value |-> v])
  /\ Empty \in Slot /\ Tombstone \in Slot /\ ~HasKey(Empty) /\ ~HasKey(Tombstone)
  BY EntriesAssumption DEF Slot, HasKey, Entries
-----------------------------------------------------------------------------
(* findEntry finds a key that is in the array.                             *)
LEMMA FindEntryFinds ==
  ASSUME NEW n \in Nat \ {0}, NEW array \in [Indices(n) -> Slot],
         Searchable(array, n), NEW i \in Indices(n), HasKey(array[i])
  PROVE  FindEntry(array, n, array[i].key) = i
  <1> DEFINE k == array[i].key
             D == {d \in Indices(n) : StopsAt(array, n, k, d)}
             stop == Least(D)
  <1>1. k \in Keys
    BY SlotCases DEF Entries
  <1>2. PICK d \in Indices(n) : /\ At(n, k, d) = i
                                /\ \A e \in 0 .. d - 1 : array[At(n, k, e)] # Empty
    BY DEF Searchable, KeysReached, NoGap
  <1>3. d \in D
    BY <1>2 DEF StopsAt, Holds
  <1>4. stop \in D /\ stop <= d
    <2>1. D \in SUBSET Nat
      BY DEF Indices
    <2> HIDE DEF D
    <2>2. QED
      BY <1>3, <2>1, LeastIsLeast
  <1>5. array[At(n, k, stop)] # Empty
    <2>1. CASE stop = d
      BY <2>1, <1>2, SlotCases
    <2>2. CASE stop # d
      BY <2>2, <1>2, <1>4 DEF Indices
    <2>3. QED
      BY <2>1, <2>2
  <1>6. Holds(array, At(n, k, stop), k)
    BY <1>4, <1>5 DEF StopsAt
  <1>7. At(n, k, stop) = i
    <2>1. At(n, k, stop) \in Indices(n)
      BY <1>1, <1>4, ProbeMeetsAll DEF Indices
    <2>2. QED
      BY <1>6, <2>1 DEF Holds, Searchable, KeysDistinct
  <1>8. QED
    BY <1>6, <1>7 DEF FindEntry

(* For a key that is not in the array it finds a free slot, which a later  *)
(* probe for that key will reach.                                          *)
LEMMA FindEntryFree ==
  ASSUME NEW n \in Nat \ {0}, NEW array \in [Indices(n) -> Slot],
         Terminates(array, n), NEW k \in Keys,
         \A i \in Indices(n) : ~Holds(array, i, k)
  PROVE  /\ FindEntry(array, n, k) \in Indices(n)
         /\ ~HasKey(array[FindEntry(array, n, k)])
         /\ NoGap(array, n, k, FindEntry(array, n, k))
  <1> DEFINE D == {d \in Indices(n) : StopsAt(array, n, k, d)}
             stop == Least(D)
             passed == {d \in 0 .. stop - 1 : array[At(n, k, d)] = Tombstone}
  <1>1. D # {}
    BY ProbeMeetsAll DEF Terminates, StopsAt
  <1>2. stop \in D /\ \A e \in D : stop <= e
    <2>1. D \in SUBSET Nat
      BY DEF Indices
    <2> HIDE DEF D
    <2>2. QED
      BY <1>1, <2>1, LeastIsLeast
  <1>3. stop \in Indices(n) /\ At(n, k, stop) \in Indices(n)
    BY <1>2, ProbeMeetsAll DEF Indices
  <1>4. \A e \in 0 .. stop - 1 : array[At(n, k, e)] # Empty
    BY <1>2, <1>3 DEF StopsAt, Indices
  <1>5. array[At(n, k, stop)] = Empty
    BY <1>2, <1>3 DEF StopsAt
  <1> HIDE DEF stop
  <1>6. CASE passed = {}
    <2>1. FindEntry(array, n, k) = At(n, k, stop)
      BY <1>6 DEF FindEntry, stop
    <2>2. QED
      BY <2>1, <1>3, <1>4, <1>5, SlotCases DEF NoGap
  <1>7. CASE passed # {}
    <2> DEFINE first == Least(passed)
    <2>1. FindEntry(array, n, k) = At(n, k, first)
      BY <1>3, <1>7 DEF FindEntry, stop
    <2>2. first \in passed
      <3>1. passed \in SUBSET Nat
        BY <1>3 DEF Indices
      <3> HIDE DEF passed
      <3>2. QED
        BY <1>7, <3>1, LeastIsLeast
    <2>3. first \in Indices(n) /\ first < stop
      BY <2>2, <1>3 DEF Indices
    <2>4. At(n, k, first) \in Indices(n)
      BY <2>3, ProbeMeetsAll DEF Indices
    <2>5. array[At(n, k, first)] = Tombstone
      BY <2>2
    <2> HIDE DEF first
    <2>6. \A e \in 0 .. first - 1 : array[At(n, k, e)] # Empty
      BY <2>3, <1>3, <1>4 DEF Indices
    <2>7. QED
      BY <2>1, <2>3, <2>4, <2>5, <2>6, SlotCases DEF NoGap
  <1>8. QED
    BY <1>6, <1>7

(* In either case: where set writes.                                       *)
LEMMA FindEntryFits ==
  ASSUME NEW n \in Nat \ {0}, NEW array \in [Indices(n) -> Slot],
         Searchable(array, n), Terminates(array, n), NEW k \in Keys
  PROVE  LET i == FindEntry(array, n, k)
         IN /\ i \in Indices(n) /\ NoGap(array, n, k, i)
            /\ HasKey(array[i]) => array[i].key = k
            /\ \A j \in Indices(n) : Holds(array, j, k) => j = i
  <1>1. CASE \E j \in Indices(n) : Holds(array, j, k)
    <2> PICK j \in Indices(n) : Holds(array, j, k)
      BY <1>1
    <2>1. FindEntry(array, n, k) = j
      BY FindEntryFinds DEF Holds
    <2>2. QED
      BY <2>1 DEF Holds, Searchable, KeysReached, KeysDistinct
  <1>2. CASE \A j \in Indices(n) : ~Holds(array, j, k)
    BY <1>2, FindEntryFree
  <1>3. QED
    BY <1>1, <1>2
-----------------------------------------------------------------------------
(* What set does to an array in which every key can be found.              *)
WithPair(array, n, k, v) ==
  [array EXCEPT ![FindEntry(array, n, k)] = [key |-> k, value |-> v]]

IsPut(array, n, k, v, i, put) ==
  /\ i \in Indices(n)
  /\ put \in [Indices(n) -> Slot]
  /\ \A j \in Indices(n) : put[j] = IF j = i THEN [key |-> k, value |-> v]
                                             ELSE array[j]
  /\ Searchable(put, n)
  /\ Used(put, n) = Used(array, n) \cup {i}
  /\ Pairs(put, Indices(n)) =
       {p \in Pairs(array, Indices(n)) : p.key # k} \cup {[key |-> k, value |-> v]}
  /\ HasKey(array[i]) <=> \E p \in Pairs(array, Indices(n)) : p.key = k

LEMMA PutSound ==
  ASSUME NEW n \in Nat \ {0}, NEW array \in [Indices(n) -> Slot],
         Searchable(array, n), Terminates(array, n),
         NEW k \in Keys, NEW v \in Values
  PROVE  IsPut(array, n, k, v, FindEntry(array, n, k), WithPair(array, n, k, v))
  <1> DEFINE new == [key |-> k, value |-> v]
             i == FindEntry(array, n, k)
             put == WithPair(array, n, k, v)
  <1>1. /\ i \in Indices(n) /\ NoGap(array, n, k, i)
        /\ HasKey(array[i]) => array[i].key = k
        /\ \A j \in Indices(n) : Holds(array, j, k) => j = i
    BY FindEntryFits
  <1>2. new \in Slot /\ HasKey(new) /\ new.key = k /\ new # Empty
    BY SlotCases
  <1>a. put = [array EXCEPT ![i] = new]
    BY DEF WithPair
  <1> HIDE DEF new, i, put
  <1>3. /\ put \in [Indices(n) -> Slot] /\ put[i] = new
        /\ \A j \in Indices(n) : j # i => put[j] = array[j]
    BY <1>1, <1>2, <1>a
  <1>4. \A j \in Indices(n) : array[j] # Empty => put[j] # Empty
    BY <1>2, <1>3
  <1>5. KeysDistinct(put, n)
    BY <1>1, <1>2, <1>3 DEF KeysDistinct, Searchable, Holds
  <1>6. ASSUME NEW key \in Keys, NEW j \in Indices(n), NoGap(array, n, key, j)
        PROVE  NoGap(put, n, key, j)
    <2> PICK d \in Indices(n) : /\ At(n, key, d) = j
                                /\ \A e \in 0 .. d - 1 : array[At(n, key, e)] # Empty
      BY <1>6 DEF NoGap
    <2>1. \A e \in 0 .. d - 1 : At(n, key, e) \in Indices(n)
      <3>1. \A e \in 0 .. d - 1 : e \in Nat
        BY DEF Indices
      <3>2. QED
        BY <3>1, ProbeMeetsAll
    <2>2. QED
      BY <2>1, <1>4 DEF NoGap
  <1>7. KeysReached(put, n)
    <2> SUFFICES ASSUME NEW j \in Indices(n), HasKey(put[j])
                 PROVE  NoGap(put, n, put[j].key, j)
      BY DEF KeysReached
    <2>1. CASE j = i
      BY <2>1, <1>1, <1>2, <1>3, <1>6
    <2>2. CASE j # i
      <3>1. HasKey(array[j]) /\ put[j] = array[j] /\ array[j].key \in Keys
        BY <2>2, <1>3, SlotCases DEF Entries
      <3>2. QED
        BY <3>1, <1>6 DEF Searchable, KeysReached
    <2>3. QED
      BY <2>1, <2>2
  <1>8. Used(put, n) = Used(array, n) \cup {i}
    BY <1>1, <1>2, <1>3 DEF Used
  <1>9. Pairs(put, Indices(n)) =
          {p \in Pairs(array, Indices(n)) : p.key # k} \cup {new}
    <2>1. ASSUME NEW p \in Pairs(put, Indices(n))
          PROVE  p \in {q \in Pairs(array, Indices(n)) : q.key # k} \cup {new}
      <3> PICK j \in Indices(n) : HasKey(put[j]) /\ p = put[j]
        BY DEF Pairs
      <3>1. CASE j # i
        BY <3>1, <1>1, <1>3 DEF Pairs, Holds
      <3>2. QED
        BY <3>1, <1>3
    <2>2. ASSUME NEW p \in Pairs(array, Indices(n)), p.key # k
          PROVE  p \in Pairs(put, Indices(n))
      <3> PICK j \in Indices(n) : HasKey(array[j]) /\ p = array[j]
        BY DEF Pairs
      <3>1. j # i
        BY <1>1, <2>2
      <3>2. QED
        BY <3>1, <1>3 DEF Pairs
    <2>3. new \in Pairs(put, Indices(n))
      BY <1>1, <1>2, <1>3 DEF Pairs
    <2>4. QED
      BY <2>1, <2>2, <2>3
  <1>10. HasKey(array[i]) <=> \E p \in Pairs(array, Indices(n)) : p.key = k
    BY <1>1 DEF Pairs, Holds
  <1>11. QED
    BY <1>1, <1>2, <1>3, <1>5, <1>7, <1>8, <1>9, <1>10 DEF IsPut, Searchable, new, i, put

(* A tombstone keeps every other probe going.                              *)
IsBuried(array, n, i, buried) ==
  /\ buried \in [Indices(n) -> Slot]
  /\ Searchable(buried, n)
  /\ Used(buried, n) = Used(array, n)
  /\ Terminates(array, n) => Terminates(buried, n)
  /\ Pairs(buried, Indices(n)) = Pairs(array, Indices(n)) \ {array[i]}

LEMMA BurySound ==
  ASSUME NEW n \in Nat \ {0}, NEW array \in [Indices(n) -> Slot],
         Searchable(array, n), NEW i \in Indices(n), HasKey(array[i])
  PROVE  IsBuried(array, n, i, [array EXCEPT ![i] = Tombstone])
  <1> DEFINE buried == [array EXCEPT ![i] = Tombstone]
  <1>1. /\ buried \in [Indices(n) -> Slot] /\ buried[i] = Tombstone
        /\ \A j \in Indices(n) : j # i => buried[j] = array[j]
        /\ array[i] # Empty /\ Tombstone # Empty
    BY SlotCases, MarkersAssumption
  <1> HIDE DEF buried
  <1>2. \A j \in Indices(n) : array[j] # Empty <=> buried[j] # Empty
    BY <1>1
  <1>3. \A j \in Indices(n) : HasKey(buried[j]) <=> HasKey(array[j]) /\ j # i
    BY <1>1, SlotCases
  <1>4. KeysDistinct(buried, n)
    BY <1>1, <1>3 DEF KeysDistinct, Searchable
  <1>5. KeysReached(buried, n)
    <2> SUFFICES ASSUME NEW j \in Indices(n), HasKey(buried[j])
                 PROVE  NoGap(buried, n, buried[j].key, j)
      BY DEF KeysReached
    <2> DEFINE key == array[j].key
    <2>1. buried[j] = array[j] /\ HasKey(array[j]) /\ key \in Keys
      BY <1>1, <1>3, SlotCases DEF Entries
    <2> HIDE DEF key
    <2>2. PICK d \in Indices(n) : /\ At(n, key, d) = j
                                  /\ \A e \in 0 .. d - 1 : array[At(n, key, e)] # Empty
      BY <2>1 DEF Searchable, KeysReached, NoGap, key
    <2>3. \A e \in 0 .. d - 1 : At(n, key, e) \in Indices(n)
      <3>1. \A e \in 0 .. d - 1 : e \in Nat
        BY DEF Indices
      <3>2. QED
        BY <2>1, <3>1, ProbeMeetsAll
    <2>4. NoGap(buried, n, key, j)
      BY <2>2, <2>3, <1>2 DEF NoGap
    <2>5. QED
      BY <2>1, <2>4 DEF key
  <1>6. Pairs(buried, Indices(n)) = Pairs(array, Indices(n)) \ {array[i]}
    <2>1. \A j \in Indices(n) : j # i /\ HasKey(array[j]) => array[j] # array[i]
      BY DEF Searchable, KeysDistinct
    <2>2. QED
      BY <2>1, <1>1, <1>3 DEF Pairs
  <1>7. QED
    BY <1>1, <1>2, <1>4, <1>5, <1>6
    DEF IsBuried, Searchable, Used, Terminates, buried

(* A key that is found has the value of its only pair.                     *)
LEMMA ValueOfPair ==
  ASSUME NEW n \in Nat \ {0}, NEW array \in [Indices(n) -> Slot],
         Searchable(array, n), Terminates(array, n), NEW k \in Keys
  PROVE  /\ \A p \in Pairs(array, Indices(n)) :
               p.key = k => p.value \in Values /\ ValueOf(array, n, k) = p.value
         /\ (\A p \in Pairs(array, Indices(n)) : p.key # k)
               => ValueOf(array, n, k) = Absent
  <1> DEFINE i == FindEntry(array, n, k)
  <1>1. /\ i \in Indices(n)
        /\ HasKey(array[i]) => array[i].key = k
        /\ \A j \in Indices(n) : Holds(array, j, k) => j = i
    BY FindEntryFits
  <1>2. ValueOf(array, n, k) = IF HasKey(array[i]) THEN array[i].value ELSE Absent
    BY DEF ValueOf
  <1> HIDE DEF i
  <1>3. ASSUME NEW p \in Pairs(array, Indices(n)), p.key = k
        PROVE  p.value \in Values /\ ValueOf(array, n, k) = p.value
    <2> PICK j \in Indices(n) : HasKey(array[j]) /\ p = array[j]
      BY DEF Pairs
    <2>1. p \in Entries /\ j = i
      BY <1>1, <1>3, SlotCases DEF Holds
    <2>2. QED
      BY <2>1, <1>2 DEF Entries
  <1>4. QED
    BY <1>1, <1>2, <1>3 DEF Pairs

(* A count below the capacity leaves an empty slot.                        *)
LEMMA RoomLeft ==
  ASSUME NEW n \in Nat, NEW array \in [Indices(n) -> Slot]
  PROVE  /\ IsFiniteSet(Used(array, n)) /\ Cardinality(Used(array, n)) \in 0 .. n
         /\ Cardinality(Used(array, n)) < n => Terminates(array, n)
  <1>1. IsFiniteSet(Indices(n)) /\ Cardinality(Indices(n)) = n
    BY FS_Interval DEF Indices
  <1>2. Used(array, n) \in SUBSET Indices(n)
    BY DEF Used
  <1>3. /\ IsFiniteSet(Used(array, n))
        /\ Cardinality(Used(array, n)) <= n
        /\ Used(array, n) = Indices(n) => Cardinality(Used(array, n)) = n
    BY <1>1, <1>2, FS_Subset
  <1>4. Cardinality(Used(array, n)) \in Nat
    BY <1>3, FS_CardinalityType
  <1>5. QED
    BY <1>3, <1>4 DEF Used, Terminates
-----------------------------------------------------------------------------
LEMMA DoingCases ==
  /\ Nothing \in Doing /\ Nothing.op = "none"
  /\ \A k \in Keys, v \in Values :
       LET s == [op |-> "set", key |-> k, value |-> v]
       IN s \in Doing /\ s.op = "set" /\ s.key = k /\ s.value = v
  /\ \A dead \in SUBSET Keys :
       LET p == [op |-> "purge", dead |-> dead]
       IN p \in Doing /\ p.op = "purge" /\ p.dead = dead
  /\ \A d \in Doing : /\ d.op \in {"none", "set", "purge"}
                      /\ d.op = "none" => d = Nothing
                      /\ d.op = "set" => d.key \in Keys /\ d.value \in Values
                      /\ d.op = "purge" => d.dead \subseteq Keys
  BY DEF Nothing, Doing

(* A grown table has room for all keys of the old one and for one more.    *)
LEMMA GrownIsLarger ==
  ASSUME TableInv
  PROVE  /\ GrownCapacity \in Nat /\ GrownCapacity >= MinCapacity
         /\ capacity < GrownCapacity
         /\ GrownCapacity \in {MinCapacity, 2 * capacity}
         /\ 4 * (capacity + 1) <= 3 * GrownCapacity
  BY CapacityAssumption DEF TableInv, TableTypeOK, CapacitySound, GrownCapacity

LEMMA BlankSound ==
  ASSUME NEW n \in Nat
  PROVE  /\ Blank(n) \in [Indices(n) -> Slot]
         /\ Searchable(Blank(n), n)
         /\ Used(Blank(n), n) = {}
         /\ Cardinality(Used(Blank(n), n)) = 0
         /\ Pairs(Blank(n), Indices(n)) = {}
         /\ n # 0 => Terminates(Blank(n), n)
  <1>1. /\ Blank(n) \in [Indices(n) -> Slot]
        /\ \A i \in Indices(n) : Blank(n)[i] = Empty /\ ~HasKey(Blank(n)[i])
    BY SlotCases DEF Blank
  <1>2. Searchable(Blank(n), n)
    BY <1>1 DEF Searchable, KeysDistinct, KeysReached
  <1>3. Used(Blank(n), n) = {} /\ Pairs(Blank(n), Indices(n)) = {}
    BY <1>1 DEF Used, Pairs
  <1>4. Cardinality(Used(Blank(n), n)) = 0
    BY <1>3, FS_EmptySet
  <1>5. n # 0 => Terminates(Blank(n), n)
    <2>1. n # 0 => 0 \in Indices(n)
      BY DEF Indices
    <2>2. QED
      BY <1>1, <2>1 DEF Terminates
  <1>6. QED
    BY <1>1, <1>2, <1>3, <1>4, <1>5

LEMMA TableInitInv == TableInit => TableInv
  <1> SUFFICES ASSUME TableInit PROVE TableInv
    OBVIOUS
  <1>1. /\ Blank(0) \in [Indices(0) -> Slot] /\ Searchable(Blank(0), 0)
        /\ Cardinality(Used(Blank(0), 0)) = 0
    BY BlankSound
  <1>2. TableTypeOK
    BY <1>1, DoingCases DEF TableInit, TableTypeOK
  <1>3. QED
    BY <1>1, <1>2, DoingCases
    DEF TableInit, TableInv, CountExact, LoadBounded, CapacitySound, GrowthSound

LEMMA GetInv ==
  ASSUME TableInv, NEW k \in Keys, Get(k) PROVE TableInv'
  <1>1. reply' \in Values \cup {Absent}
    <2>1. CASE count = 0
      BY <2>1 DEF Get
    <2>2. CASE count # 0
      <3>1. capacity # 0
        BY <2>2, RoomLeft, DoingCases DEF Get, TableInv, TableTypeOK, CountExact
      <3>2. capacity \in Nat \ {0} /\ Terminates(slots, capacity)
        BY <3>1 DEF TableInv, TableTypeOK, CapacitySound
      <3>3. ValueOf(slots, capacity, k) \in Values \cup {Absent}
        BY <3>2, ValueOfPair DEF TableInv, TableTypeOK
      <3>4. QED
        BY <2>2, <3>3 DEF Get
    <2>3. QED
      BY <2>1, <2>2
  <1>2. TableTypeOK'
    BY <1>1 DEF Get, TableInv, TableTypeOK
  <1>3. QED
    BY <1>2 DEF Get, TableInv, CountExact, LoadBounded, CapacitySound, GrowthSound,
                GrownCapacity

(* The count that set leaves is the number of slots in use.                *)
LEMMA CountStays ==
  ASSUME NEW n \in Nat \ {0}, NEW array \in [Indices(n) -> Slot],
         NEW i \in Indices(n), count = Cardinality(Used(array, n))
  PROVE  /\ CountWith(array[i]) = Cardinality(Used(array, n) \cup {i})
         /\ CountWith(array[i]) <= count + 1
         /\ CountWith(array[i]) \in Nat
  <1>1. IsFiniteSet(Used(array, n)) /\ count \in Nat
    BY RoomLeft
  <1>2. i \in Used(array, n) <=> array[i] # Empty
    BY DEF Used
  <1>3. Cardinality(Used(array, n) \cup {i}) =
          IF i \in Used(array, n) THEN count ELSE count + 1
    BY <1>1, FS_AddElement
  <1>4. QED
    BY <1>1, <1>2, <1>3 DEF CountWith

LEMMA SetInv ==
  ASSUME TableInv, NEW k \in Keys, NEW v \in Values, Set(k, v) PROVE TableInv'
  <1> DEFINE i == FindEntry(slots, capacity, k)
  <1>1. /\ 4 * (count + 1) <= 3 * capacity /\ count \in Nat
        /\ count = Cardinality(Used(slots, capacity))
        /\ capacity \in Nat \ {0} /\ capacity >= MinCapacity
    BY DoingCases
    DEF Set, IsFull, TableInv, TableTypeOK, CountExact, CapacitySound
  <1>a. /\ slots \in [Indices(capacity) -> Slot]
        /\ Searchable(slots, capacity) /\ Terminates(slots, capacity)
        /\ capacity \in Nat \ {0}
    BY <1>1 DEF TableInv, TableTypeOK, CapacitySound
  <1>2. /\ i = FindEntry(slots, capacity, k)
        /\ slots' = WithPair(slots, capacity, k, v)
        /\ count' = CountWith(slots[i])
    BY DEF Set, Store, WithPair
  <1> HIDE DEF i
  <1>3. /\ i \in Indices(capacity) /\ slots' \in [Indices(capacity) -> Slot]
        /\ Searchable(slots', capacity)
        /\ Used(slots', capacity) = Used(slots, capacity) \cup {i}
    <2>1. IsPut(slots, capacity, k, v, i, slots')
      BY <1>a, <1>2, PutSound
    <2>2. QED
      BY <2>1 DEF IsPut
  <1>4. /\ count' = Cardinality(Used(slots', capacity))
        /\ count' <= count + 1 /\ count' \in Nat
    BY <1>1, <1>a, <1>2, <1>3, CountStays
  <1>5. Terminates(slots', capacity)
    <2>1. count' < capacity
      BY <1>1, <1>4
    <2>2. QED
      BY <1>1, <1>3, <1>4, <2>1, RoomLeft
  <1>6. doing' = Nothing /\ reply' \in BOOLEAN /\ UNCHANGED <<capacity, fresh, cursor>>
    BY DEF Set, Store, HasKey
  <1>7. TableTypeOK'
    BY <1>3, <1>4, <1>6, DoingCases DEF TableInv, TableTypeOK
  <1>8. CountExact' /\ LoadBounded' /\ CapacitySound' /\ GrowthSound'
    BY <1>1, <1>4, <1>5, <1>6, DoingCases
    DEF CountExact, LoadBounded, CapacitySound, GrowthSound
  <1>9. QED
    BY <1>3, <1>6, <1>7, <1>8 DEF TableInv

LEMMA SetAndGrowInv ==
  ASSUME TableInv, NEW k \in Keys, NEW v \in Values, SetAndGrow(k, v)
  PROVE  TableInv'
  <1>1. GrownCapacity \in Nat /\ GrownCapacity \in {MinCapacity, 2 * capacity}
    BY GrownIsLarger
  <1>2. /\ fresh' \in [Indices(GrownCapacity) -> Slot]
        /\ Searchable(fresh', GrownCapacity)
        /\ Cardinality(Used(fresh', GrownCapacity)) = 0
        /\ Pairs(fresh', Indices(GrownCapacity)) = {}
    BY <1>1, BlankSound DEF SetAndGrow
  <1>3. /\ count' = 0 /\ cursor' = 0 /\ UNCHANGED <<slots, capacity, reply>>
        /\ doing' \in Doing /\ doing'.op = "set" /\ GrownCapacity' = GrownCapacity
    BY DoingCases DEF SetAndGrow, GrownCapacity
  <1>4. TableTypeOK'
    BY <1>1, <1>2, <1>3 DEF TableInv, TableTypeOK
  <1>5. /\ Pairs(slots', Indices(cursor')) = {}
        /\ \A i \in Indices(GrownCapacity) : fresh'[i] # Tombstone
    BY <1>3, MarkersAssumption DEF Pairs, Indices, SetAndGrow, Blank
  <1>6. QED
    BY <1>2, <1>3, <1>4, <1>5
    DEF TableInv, TableTypeOK, CountExact, LoadBounded, CapacitySound, GrowthSound

(* What holds at every step of adjustCapacity's loop and after it.         *)
LEMMA WhileGrowing ==
  ASSUME TableInv, doing.op = "set"
  PROVE  /\ GrownCapacity \in Nat \ {0}
         /\ fresh \in [Indices(GrownCapacity) -> Slot]
         /\ Searchable(fresh, GrownCapacity) /\ Terminates(fresh, GrownCapacity)
         /\ count = Cardinality(Used(fresh, GrownCapacity))
         /\ count <= cursor /\ cursor <= capacity /\ count \in Nat
         /\ doing.key \in Keys /\ doing.value \in Values
         /\ slots \in [Indices(capacity) -> Slot] /\ cursor \in Nat /\ capacity \in Nat
  <1>1. GrownCapacity \in Nat \ {0} /\ capacity < GrownCapacity
    BY GrownIsLarger, CapacityAssumption
  <1>2. /\ fresh \in [Indices(GrownCapacity) -> Slot] /\ Searchable(fresh, GrownCapacity)
        /\ count = Cardinality(Used(fresh, GrownCapacity))
        /\ count <= cursor /\ cursor <= capacity /\ count \in Nat
        /\ slots \in [Indices(capacity) -> Slot] /\ cursor \in Nat /\ capacity \in Nat
        /\ doing \in Doing
    BY DEF TableInv, TableTypeOK, GrowthSound, CountExact, CapacitySound
  <1>3. Terminates(fresh, GrownCapacity)
    <2>1. Cardinality(Used(fresh, GrownCapacity)) < GrownCapacity
      BY <1>1, <1>2
    <2>2. QED
      BY <1>1, <1>2, <2>1, RoomLeft
  <1>4. QED
    BY <1>1, <1>2, <1>3, DoingCases

LEMMA ReinsertInv ==
  ASSUME TableInv, Reinsert PROVE TableInv'
  <1> DEFINE n == GrownCapacity
  <1>0. /\ doing.op = "set" /\ cursor < capacity /\ cursor' = cursor + 1
        /\ UNCHANGED <<slots, capacity, doing, reply>> /\ n' = n
    BY DEF Reinsert, GrownCapacity
  <1>1. /\ n \in Nat \ {0} /\ fresh \in [Indices(n) -> Slot]
        /\ Searchable(fresh, n) /\ Terminates(fresh, n)
        /\ count = Cardinality(Used(fresh, n))
        /\ count <= cursor /\ cursor <= capacity /\ count \in Nat
        /\ slots \in [Indices(capacity) -> Slot] /\ cursor \in Nat /\ capacity \in Nat
    BY <1>0, WhileGrowing
  <1>2. /\ Pairs(fresh, Indices(n)) = Pairs(slots, Indices(cursor))
        /\ \A i \in Indices(n) : fresh[i] # Tombstone
    BY <1>0 DEF TableInv, GrowthSound
  <1>3. n \in {MinCapacity, 2 * capacity} /\ Searchable(slots, capacity)
    BY GrownIsLarger DEF TableInv
  <1> HIDE DEF n
  <1>4. cursor \in Indices(capacity) /\ Indices(cursor + 1) = Indices(cursor) \cup {cursor}
    BY <1>0, <1>1 DEF Indices
  <1>5. /\ fresh' \in [Indices(n) -> Slot] /\ Searchable(fresh', n)
        /\ count' = Cardinality(Used(fresh', n)) /\ count' <= cursor' /\ count' \in Nat
        /\ Pairs(fresh', Indices(n)) = Pairs(slots, Indices(cursor'))
        /\ \A i \in Indices(n) : fresh'[i] # Tombstone
    <2>1. CASE ~HasKey(slots[cursor])
      <3>1. fresh' = fresh /\ count' = count
        BY <2>1 DEF Reinsert
      <3>2. Pairs(slots, Indices(cursor + 1)) = Pairs(slots, Indices(cursor))
        BY <2>1, <1>4 DEF Pairs
      <3>3. QED
        BY <3>1, <3>2, <1>0, <1>1, <1>2
    <2>2. CASE HasKey(slots[cursor])
      <3> DEFINE k == slots[cursor].key
                 v == slots[cursor].value
                 i == FindEntry(fresh, n, k)
      <3>1. slots[cursor] = [key |-> k, value |-> v] /\ k \in Keys /\ v \in Values
        BY <2>2, <1>1, <1>4, SlotCases DEF Entries
      <3>2. fresh' = WithPair(fresh, n, k, v) /\ count' = count + 1
        BY <2>2, <3>1 DEF Reinsert, WithPair, n
      <3>3. \A p \in Pairs(fresh, Indices(n)) : p.key # k
        <4>1. \A j \in Indices(cursor) : j \in Indices(capacity) /\ j # cursor
          BY <1>0, <1>1 DEF Indices
        <4>2. QED
          BY <4>1, <1>2, <1>3, <1>4, <2>2 DEF Pairs, Searchable, KeysDistinct
      <3>4. i = FindEntry(fresh, n, k)
        OBVIOUS
      <3> HIDE DEF k, v, i
      <3>5. IsPut(fresh, n, k, v, i, fresh')
        BY <1>1, <3>1, <3>2, <3>4, PutSound
      <3>6. fresh[i] = Empty
        BY <3>3, <3>5, <1>1, <1>2 DEF HasKey, IsPut
      <3>7. count' = Cardinality(Used(fresh', n))
        BY <1>1, <3>2, <3>5, <3>6, CountStays DEF CountWith, IsPut
      <3>8. Pairs(slots, Indices(cursor + 1)) = Pairs(slots, Indices(cursor)) \cup {slots[cursor]}
        BY <2>2, <1>4 DEF Pairs
      <3>9. Pairs(fresh', Indices(n)) = Pairs(slots, Indices(cursor'))
        BY <1>0, <1>2, <3>1, <3>3, <3>5, <3>8 DEF IsPut
      <3>10. \A j \in Indices(n) : fresh'[j] # Tombstone
        BY <1>1, <1>2, <3>1, <3>2, <3>5, SlotCases DEF IsPut
      <3>11. QED
        BY <1>0, <1>1, <3>2, <3>5, <3>7, <3>9, <3>10 DEF IsPut
    <2>3. QED
      BY <2>1, <2>2
  <1>6. TableTypeOK'
    BY <1>0, <1>1, <1>3, <1>5 DEF TableInv, TableTypeOK
  <1>7. QED
    BY <1>0, <1>1, <1>5, <1>6
    DEF TableInv, CountExact, LoadBounded, CapacitySound, GrowthSound, n

LEMMA InstallInv ==
  ASSUME TableInv, Install PROVE TableInv'
  <1> DEFINE n == GrownCapacity
             k == doing.key
             v == doing.value
             i == FindEntry(fresh, n, k)
  <1>0. /\ doing.op = "set" /\ cursor = capacity
        /\ i = FindEntry(fresh, n, k) /\ slots' = WithPair(fresh, n, k, v)
        /\ count' = CountWith(fresh[i]) /\ reply' \in BOOLEAN
        /\ capacity' = n /\ fresh' = Blank(0) /\ cursor' = 0 /\ doing' = Nothing
    BY DEF Install, WithPair, HasKey
  <1>1. /\ n \in Nat \ {0} /\ fresh \in [Indices(n) -> Slot]
        /\ Searchable(fresh, n) /\ Terminates(fresh, n)
        /\ count = Cardinality(Used(fresh, n))
        /\ count <= cursor /\ count \in Nat
        /\ k \in Keys /\ v \in Values
    BY <1>0, WhileGrowing
  <1>2. n >= MinCapacity /\ capacity < n /\ 4 * (capacity + 1) <= 3 * n
    BY GrownIsLarger
  <1>3. capacity \in Nat
    BY DEF TableInv, TableTypeOK
  <1> HIDE DEF n, k, v, i
  <1>4. IsPut(fresh, n, k, v, i, slots')
    BY <1>0, <1>1, PutSound
  <1>5. /\ count' = Cardinality(Used(slots', n)) /\ count' <= count + 1 /\ count' \in Nat
    BY <1>0, <1>1, <1>4, CountStays DEF IsPut
  <1>6. 4 * count' <= 3 * n
    BY <1>0, <1>1, <1>2, <1>3, <1>5
  <1>7. Terminates(slots', n)
    <2>1. count' < n
      BY <1>1, <1>5, <1>6
    <2>2. QED
      BY <1>1, <1>4, <1>5, <2>1, RoomLeft DEF IsPut
  <1>8. TableTypeOK'
    BY <1>0, <1>1, <1>4, <1>5, BlankSound, DoingCases DEF TableTypeOK, IsPut
  <1>9. CountExact' /\ LoadBounded' /\ CapacitySound' /\ GrowthSound'
    BY <1>0, <1>2, <1>5, <1>6, <1>7, DoingCases
    DEF CountExact, LoadBounded, CapacitySound, GrowthSound
  <1>10. QED
    BY <1>0, <1>4, <1>8, <1>9 DEF TableInv, IsPut

LEMMA NoPairs ==
  ASSUME TableInv, doing.op # "set", count = 0
  PROVE  Pairs(slots, Indices(capacity)) = {}
  <1>1. IsFiniteSet(Used(slots, capacity)) /\ Cardinality(Used(slots, capacity)) = 0
    BY RoomLeft DEF TableInv, TableTypeOK, CountExact
  <1>2. Used(slots, capacity) = {}
    BY <1>1, FS_EmptySet
  <1>3. QED
    BY <1>2 DEF Used, Pairs, HasKey

(* remove, by a program or by removeWhite: what it does to the pairs.      *)
LEMMA RemoveKeySound ==
  ASSUME TableInv, doing.op # "set", NEW k \in Keys, RemoveKey(k)
  PROVE  /\ slots' \in [Indices(capacity) -> Slot] /\ count' = count
         /\ Searchable(slots', capacity) /\ Used(slots', capacity) = Used(slots, capacity)
         /\ capacity # 0 => Terminates(slots', capacity)
         /\ Pairs(slots', Indices(capacity)) =
              {p \in Pairs(slots, Indices(capacity)) : p.key # k}
         /\ slots' = slots <=> \A p \in Pairs(slots, Indices(capacity)) : p.key # k
         /\ \A j \in Indices(capacity) : HasKey(slots'[j]) => slots'[j] = slots[j]
  <1> DEFINE i == FindEntry(slots, capacity, k)
             A == Pairs(slots, Indices(capacity))
  <1>1. /\ slots \in [Indices(capacity) -> Slot] /\ Searchable(slots, capacity)
        /\ capacity \in Nat /\ (capacity # 0 => Terminates(slots, capacity))
        /\ count \in Nat
    BY DEF TableInv, TableTypeOK, CapacitySound
  <1>2. CASE count = 0
    <2>1. A = {}
      BY <1>2, NoPairs
    <2>2. slots' = slots /\ count' = count
      BY <1>1, <1>2 DEF RemoveKey
    <2>3. QED
      BY <1>1, <2>1, <2>2
  <1>3. CASE count # 0
    <2>1. capacity \in Nat \ {0} /\ Terminates(slots, capacity)
      <3>1. count <= capacity
        BY <1>1, RoomLeft DEF TableInv, CountExact
      <3>2. QED
        BY <1>1, <1>3, <3>1
    <2>2. /\ i \in Indices(capacity)
          /\ HasKey(slots[i]) => slots[i].key = k
          /\ \A j \in Indices(capacity) : Holds(slots, j, k) => j = i
      BY <1>1, <2>1, FindEntryFits
    <2>3. CASE HasKey(slots[i])
      <3>1. slots' = [slots EXCEPT ![i] = Tombstone] /\ count' = count
        BY <1>1, <1>3, <2>3 DEF RemoveKey, Buried
      <3> HIDE DEF i
      <3>2. /\ slots' \in [Indices(capacity) -> Slot] /\ Searchable(slots', capacity)
            /\ Used(slots', capacity) = Used(slots, capacity)
            /\ Terminates(slots', capacity)
            /\ Pairs(slots', Indices(capacity)) = A \ {slots[i]}
        <4>1. IsBuried(slots, capacity, i, slots')
          BY <1>1, <2>1, <2>2, <2>3, <3>1, BurySound
        <4>2. QED
          BY <2>1, <4>1 DEF IsBuried
      <3>3. \A p \in A : p.key = k <=> p = slots[i]
        BY <2>2, <2>3 DEF Pairs, Holds
      <3>4. slots[i] \in A /\ slots' # slots
        BY <1>1, <2>2, <2>3, <3>1, SlotCases DEF Pairs
      <3>5. \A j \in Indices(capacity) : HasKey(slots'[j]) => slots'[j] = slots[j]
        BY <1>1, <2>2, <3>1, SlotCases
      <3>6. QED
        BY <3>1, <3>2, <3>3, <3>4, <3>5
    <2>4. CASE ~HasKey(slots[i])
      <3>1. slots' = slots /\ count' = count
        BY <2>4 DEF RemoveKey
      <3>2. \A p \in A : p.key # k
        BY <2>2, <2>4 DEF Pairs, Holds
      <3>3. QED
        BY <1>1, <3>1, <3>2
    <2>5. QED
      BY <2>3, <2>4
  <1>4. QED
    BY <1>2, <1>3

LEMMA RemoveKeyInv ==
  ASSUME TableInv, doing.op # "set", NEW k \in Keys, RemoveKey(k),
         UNCHANGED <<capacity, fresh>>, doing' \in Doing, doing'.op # "set",
         cursor' \in Nat, doing'.op # "none" => cursor' <= capacity,
         reply' \in Values \cup BOOLEAN \cup {Absent}
  PROVE  TableInv'
  <1>1. /\ slots' \in [Indices(capacity) -> Slot] /\ count' = count
        /\ Searchable(slots', capacity) /\ Used(slots', capacity) = Used(slots, capacity)
        /\ capacity # 0 => Terminates(slots', capacity)
    BY RemoveKeySound
  <1>2. TableTypeOK'
    BY <1>1 DEF TableInv, TableTypeOK
  <1>3. CountExact' /\ LoadBounded' /\ CapacitySound' /\ GrowthSound'
    BY <1>1 DEF TableInv, CountExact, LoadBounded, CapacitySound, GrowthSound
  <1>4. QED
    BY <1>1, <1>2, <1>3 DEF TableInv

LEMMA RemoveInv ==
  ASSUME TableInv, NEW k \in Keys, Remove(k) PROVE TableInv'
  <1>1. /\ doing.op = "none" /\ doing' = doing /\ cursor' = cursor /\ RemoveKey(k)
        /\ reply' \in BOOLEAN /\ UNCHANGED <<capacity, fresh>>
    BY DoingCases DEF Remove
  <1>2. QED
    BY <1>1, RemoveKeyInv DEF TableInv, TableTypeOK

LEMMA TableStays ==
  ASSUME TableInv, UNCHANGED tableVars PROVE TableInv'
  BY DEF TableInv, TableTypeOK, CountExact, LoadBounded, CapacitySound, GrowthSound,
         GrownCapacity, tableVars

LEMMA TableStep == TableInv /\ [TableNext]_tableVars => TableInv'
  <1> SUFFICES ASSUME TableInv, [TableNext]_tableVars PROVE TableInv'
    OBVIOUS
  <1>1. ASSUME NEW k \in MapKeys,
               \/ Get(k) \/ Remove(k)
               \/ \E v \in Values : Set(k, v) \/ SetAndGrow(k, v)
        PROVE  TableInv'
    BY <1>1, MapKeysAssumption, GetInv, RemoveInv, SetInv, SetAndGrowInv
  <1>2. CASE Grow
    BY <1>2, ReinsertInv, InstallInv DEF Grow
  <1>3. CASE UNCHANGED tableVars
    BY <1>3, TableStays
  <1>4. QED
    BY <1>1, <1>2, <1>3 DEF TableNext

(* The inductive invariant of a hash table: the count is exact, every      *)
(* array findEntry searches has an empty slot, and every key can be found, *)
(* also in the array that adjustCapacity is filling.                       *)
THEOREM TableInvariant == TableSpec => []TableInv
  <1>1. QED
    BY TableInitInv, TableStep, PTL DEF TableSpec

LEMMA ProbesEndInv == TableInv => ProbesEnd
  <1> SUFFICES ASSUME TableInv PROVE ProbesEnd
    OBVIOUS
  <1>1. ASSUME count > 0 PROVE Terminates(slots, capacity)
    <2>1. count <= capacity
      <3>1. CASE doing.op = "set"
        BY <3>1, WhileGrowing
      <3>2. CASE doing.op # "set"
        BY <3>2, RoomLeft DEF TableInv, TableTypeOK, CountExact
      <3>3. QED
        BY <3>1, <3>2
    <2>2. QED
      BY <1>1, <2>1 DEF TableInv, TableTypeOK, CapacitySound
  <1>2. QED
    BY <1>1, WhileGrowing DEF ProbesEnd

LEMMA KeysOnceInv == TableInv => KeysOnce
  BY DEF TableInv, Searchable, KeysOnce

-----------------------------------------------------------------------------
(* The intern table, and the tables that are maps.                         *)
Stored == Pairs(slots, Indices(capacity))

LEMMA NilTyped == Nil \in Values
  BY NilAssumption DEF Nil

(* What the two ways through set make of the pairs.                        *)
LEMMA SetPairs ==
  ASSUME TableInv, NEW k \in Keys, NEW v \in Values, Set(k, v)
  PROVE  /\ Stored' = {p \in Stored : p.key # k} \cup {[key |-> k, value |-> v]}
         /\ reply' = (\A p \in Stored : p.key # k)
         /\ doing' = Nothing
  <1>1. /\ slots \in [Indices(capacity) -> Slot] /\ Searchable(slots, capacity)
        /\ capacity \in Nat \ {0} /\ Terminates(slots, capacity)
    BY DEF TableInv, TableTypeOK, CapacitySound, Set, IsFull
  <1> DEFINE i == FindEntry(slots, capacity, k)
  <1>2. /\ i = FindEntry(slots, capacity, k)
        /\ slots' = WithPair(slots, capacity, k, v) /\ reply' = ~HasKey(slots[i])
        /\ doing' = Nothing /\ capacity' = capacity
    BY DEF Set, Store, WithPair
  <1> HIDE DEF i
  <1>3. IsPut(slots, capacity, k, v, i, slots')
    BY <1>1, <1>2, PutSound
  <1>4. QED
    BY <1>2, <1>3 DEF IsPut, Stored

LEMMA InstallPairs ==
  ASSUME TableInv, Install
  PROVE  /\ Stored' = {p \in Stored : p.key # doing.key}
                        \cup {[key |-> doing.key, value |-> doing.value]}
         /\ reply' = (\A p \in Stored : p.key # doing.key)
         /\ doing' = Nothing
  <1> DEFINE n == GrownCapacity
             i == FindEntry(fresh, n, doing.key)
  <1>1. /\ doing.op = "set" /\ cursor = capacity
        /\ i = FindEntry(fresh, n, doing.key)
        /\ slots' = WithPair(fresh, n, doing.key, doing.value)
        /\ reply' = ~HasKey(fresh[i]) /\ doing' = Nothing /\ capacity' = n
    BY DEF Install, WithPair
  <1>2. /\ n \in Nat \ {0} /\ fresh \in [Indices(n) -> Slot]
        /\ Searchable(fresh, n) /\ Terminates(fresh, n)
        /\ doing.key \in Keys /\ doing.value \in Values
    BY <1>1, WhileGrowing
  <1>3. Pairs(fresh, Indices(n)) = Stored
    BY <1>1 DEF TableInv, GrowthSound, Stored
  <1> HIDE DEF n, i
  <1>4. IsPut(fresh, n, doing.key, doing.value, i, slots')
    BY <1>1, <1>2, PutSound
  <1>5. QED
    BY <1>1, <1>3, <1>4 DEF IsPut, Stored

LEMMA RemovePairs ==
  ASSUME TableInv, doing.op # "set", NEW k \in Keys, RemoveKey(k), UNCHANGED capacity
  PROVE  /\ Stored' = {p \in Stored : p.key # k}
         /\ slots' = slots <=> \A p \in Stored : p.key # k
  BY RemoveKeySound DEF Stored

LEMMA KeysWith ==
  ASSUME NEW S, NEW k, NEW v
  PROVE  {p.key : p \in {q \in S : q.key # k} \cup {[key |-> k, value |-> v]}}
           = {p.key : p \in S} \cup {k}
  <1> DEFINE new == [key |-> k, value |-> v]
             kept == {q \in S : q.key # k}
  <1>1. new.key = k
    OBVIOUS
  <1> HIDE DEF new
  <1>2. {p.key : p \in kept \cup {new}} \subseteq {p.key : p \in S} \cup {k}
    BY <1>1
  <1>3. {p.key : p \in S} \cup {k} \subseteq {p.key : p \in kept \cup {new}}
    BY <1>1
  <1>4. QED
    BY <1>2, <1>3 DEF new

LEMMA StoredTyped == TableInv => Stored \subseteq Entries
  BY SlotCases DEF TableInv, TableTypeOK, Stored, Pairs
-----------------------------------------------------------------------------
(* findString misses no string of the table that has the text.             *)
LEMMA FindStringMisses ==
  ASSUME TableInv, doing = Nothing, NEW k \in Keys, FindString(k) = Absent
  PROVE  \A l \in Listed : Text[l] # Text[k]
  <1> SUFFICES ASSUME NEW l \in Listed, Text[l] = Text[k] PROVE FALSE
    OBVIOUS
  <1>1. PICK j \in Indices(capacity) : HasKey(slots[j]) /\ slots[j].key = l
    BY DEF Listed, Pairs
  <1>2. /\ slots \in [Indices(capacity) -> Slot] /\ capacity \in Nat \ {0}
        /\ Searchable(slots, capacity) /\ count = Cardinality(Used(slots, capacity))
    BY <1>1, DoingCases DEF TableInv, TableTypeOK, CountExact, Indices
  <1>3. l \in Keys
    BY <1>1, <1>2, SlotCases DEF Entries
  <1>4. \A d \in Nat : At(capacity, l, d) = At(capacity, k, d)
    BY <1>3, TextAssumption DEF At
  <1>5. PICK d \in Indices(capacity) :
          /\ At(capacity, k, d) = j
          /\ \A e \in 0 .. d - 1 : slots[At(capacity, k, e)] # Empty
    BY <1>1, <1>2, <1>4 DEF Searchable, KeysReached, NoGap, Indices
  <1> DEFINE stops == {e \in Indices(capacity) :
                         LET s == slots[At(capacity, k, e)]
                         IN s = Empty \/ (HasKey(s) /\ Text[s.key] = Text[k])}
             stop == Least(stops)
             s == slots[At(capacity, k, stop)]
  <1>6. stop \in stops /\ stop <= d /\ stop \in Indices(capacity)
    <2>1. d \in stops /\ stops \in SUBSET Nat /\ stops \subseteq Indices(capacity)
      BY <1>1, <1>5 DEF Indices
    <2> HIDE DEF stops
    <2>2. QED
      BY <2>1, LeastIsLeast
  <1>7. s # Empty
    <2>1. CASE stop = d
      BY <2>1, <1>1, <1>5, SlotCases
    <2>2. CASE stop # d
      <3> HIDE DEF stop, stops
      <3>1. stop \in 0 .. d - 1
        BY <1>1, <1>5, <1>6, <2>2 DEF Indices
      <3>2. slots[At(capacity, k, stop)] # Empty
        BY <1>5, <3>1
      <3>3. QED
        BY <3>2
    <2>3. QED
      BY <2>1, <2>2
  <1>8. HasKey(s)
    BY <1>6, <1>7
  <1>9. At(capacity, k, stop) \in Indices(capacity)
    <2> HIDE DEF stop, stops
    <2>1. stop \in Nat
      BY <1>2, <1>6 DEF Indices
    <2>2. QED
      BY <1>2, <2>1, ProbeMeetsAll
  <1>10. count # 0
    <2>1. IsFiniteSet(Used(slots, capacity)) /\ j \in Used(slots, capacity)
      BY <1>1, <1>2, RoomLeft, SlotCases DEF Used
    <2>2. QED
      BY <1>2, <2>1, FS_EmptySet
  <1>11. FindString(k) = s.key
    BY <1>8, <1>10 DEF FindString
  <1>12. s.key \in Keys
    BY <1>2, <1>8, <1>9, SlotCases DEF Entries
  <1>13. QED
    BY <1>11, <1>12, NilAssumption

(* Steps of the collector leave the table as it is or remove keys.         *)
LEMMA TableSame ==
  ASSUME TableInv, doing.op # "set", UNCHANGED <<slots, capacity, count, fresh, reply>>,
         doing' \in Doing, doing'.op # "set", cursor' \in Nat,
         doing'.op # "none" => cursor' <= capacity
  PROVE  TableInv'
  BY DEF TableInv, TableTypeOK, CountExact, LoadBounded, CapacitySound, GrowthSound

(* What the intern table is about, without the table itself.               *)
StringsInv == ListInv /\ TextsOnce /\ WantedIsNew

LEMMA InternStep ==
  ASSUME TableInv, StringsInv, NEW k \in Keys, Intern(k)
  PROVE  TableInv' /\ StringsInv'
  <1>1. TableInv'
    BY TableStays DEF Intern
  <1>2. \A l \in alive : Text[l] # Text[k]
    BY FindStringMisses, DoingCases DEF Intern, StringsInv, ListInv
  <1>3. QED
    BY <1>1, <1>2
    DEF Intern, StringsInv, ListInv, TextsOnce, WantedIsNew, Listed, tableVars

LEMMA NewStringStep ==
  ASSUME TableInv, StringsInv, NEW k \in Keys, NewString(k)
  PROVE  TableInv' /\ StringsInv'
  <1>1. TableInv'
    BY SetInv, SetAndGrowInv, NilTyped DEF NewString
  <1>2. TextsOnce' /\ WantedIsNew' /\ alive' \subseteq Keys
    BY DEF NewString, StringsInv, TextsOnce, WantedIsNew, ListInv
  <1>3. doing = Nothing /\ Listed = alive /\ alive' = alive \cup {k} /\ k \notin alive
    BY DoingCases DEF NewString, Set, SetAndGrow, StringsInv, ListInv
  <1>4. CASE Set(k, Nil)
    <2>1. /\ Stored' = {p \in Stored : p.key # k} \cup {[key |-> k, value |-> Nil]}
          /\ doing' = Nothing
      BY <1>4, SetPairs, NilTyped
    <2>2. Listed' = {p.key : p \in Stored'} /\ Listed = {p.key : p \in Stored}
      BY DEF Listed, Stored
    <2>3. Listed' = Listed \cup {k}
      BY <2>1, <2>2, KeysWith, Zenon
    <2>4. Listed' = alive'
      BY <1>3, <2>3
    <2>5. QED
      BY <1>1, <1>2, <2>1, <2>4, DoingCases DEF StringsInv, ListInv
  <1>5. CASE SetAndGrow(k, Nil)
    <2>1. Listed' = Listed /\ doing'.op = "set" /\ doing'.key = k
      BY <1>5 DEF SetAndGrow, Listed
    <2>2. QED
      BY <1>1, <1>2, <1>3, <2>1 DEF StringsInv, ListInv
  <1>6. QED
    BY <1>4, <1>5 DEF NewString

LEMMA GrowStep ==
  ASSUME TableInv, StringsInv, Grow, UNCHANGED <<alive, wanted>>
  PROVE  TableInv' /\ StringsInv'
  <1>1. TableInv'
    BY ReinsertInv, InstallInv DEF Grow
  <1>2. TextsOnce' /\ WantedIsNew'
    BY DEF StringsInv, TextsOnce, WantedIsNew
  <1>3. CASE Reinsert
    BY <1>1, <1>2, <1>3 DEF Reinsert, StringsInv, ListInv, Listed
  <1>4. CASE Install
    <2>1. /\ Stored' = {p \in Stored : p.key # doing.key}
                         \cup {[key |-> doing.key, value |-> doing.value]}
          /\ doing' = Nothing
      BY <1>4, InstallPairs
    <2>2. Listed = alive \ {doing.key} /\ doing.key \in alive /\ alive \subseteq Keys
      BY <1>4 DEF Install, StringsInv, ListInv
    <2>3. Listed' = {p.key : p \in Stored'} /\ Listed = {p.key : p \in Stored}
      BY DEF Listed, Stored
    <2>4. Listed' = Listed \cup {doing.key}
      BY <2>1, <2>3, KeysWith, Zenon
    <2>5. Listed' = alive
      BY <2>2, <2>4
    <2>6. QED
      BY <1>1, <1>2, <2>1, <2>2, <2>5, DoingCases DEF StringsInv, ListInv
  <1>5. QED
    BY <1>3, <1>4 DEF Grow

LEMMA CollectStep ==
  ASSUME TableInv, StringsInv, NEW dead \in SUBSET alive, Collect(dead)
  PROVE  TableInv' /\ StringsInv'
  <1>1. /\ dead \in SUBSET Keys /\ doing.op = "none" /\ Listed = alive
        /\ alive \subseteq Keys
    BY DoingCases DEF Collect, StringsInv, ListInv
  <1>2. /\ doing' \in Doing /\ doing'.op = "purge" /\ doing'.dead = dead /\ cursor' = 0
        /\ UNCHANGED <<slots, capacity, count, fresh, reply, alive, wanted>>
    BY <1>1, DoingCases DEF Collect
  <1>3. TableInv'
    BY <1>1, <1>2, TableSame DEF TableInv, TableTypeOK
  <1>4. ListInv'
    BY <1>1, <1>2 DEF ListInv, Listed, Indices
  <1>5. QED
    BY <1>2, <1>3, <1>4 DEF StringsInv, TextsOnce, WantedIsNew

(* removeWhite goes on: a white string it passes is no longer listed.      *)
LEMMA PurgeEntryStep ==
  ASSUME TableInv, StringsInv, PurgeEntry
  PROVE  TableInv' /\ StringsInv'
  <1>1. /\ doing.op = "purge" /\ cursor' = cursor + 1 /\ cursor # capacity
        /\ UNCHANGED <<capacity, fresh, doing, reply, alive, wanted>>
    BY DEF PurgeEntry, Purged
  <1>2. /\ cursor \in Indices(capacity) /\ cursor' \in Nat /\ cursor' <= capacity
        /\ Indices(cursor + 1) = Indices(cursor) \cup {cursor}
        /\ slots \in [Indices(capacity) -> Slot] /\ doing \in Doing
        /\ reply \in Values \cup BOOLEAN \cup {Absent}
    BY <1>1 DEF TableInv, TableTypeOK, CapacitySound, Indices
  <1>3. /\ alive \subseteq Keys /\ Listed \subseteq alive /\ alive \ doing.dead \subseteq Listed
        /\ \A i \in Indices(cursor) : HasKey(slots[i]) => slots[i].key \notin doing.dead
    BY <1>1 DEF StringsInv, ListInv
  <1>4. TextsOnce' /\ WantedIsNew'
    BY <1>1 DEF StringsInv, TextsOnce, WantedIsNew
  <1>5. CASE HasKey(slots[cursor]) /\ slots[cursor].key \in doing.dead
    <2> DEFINE k == slots[cursor].key
    <2>1. RemoveKey(k) /\ k \in Keys /\ k \in doing.dead
      BY <1>2, <1>5, SlotCases DEF PurgeEntry, Entries
    <2> HIDE DEF k
    <2>2. TableInv'
      BY <1>1, <1>2, <2>1, RemoveKeyInv
    <2>3. /\ Stored' = {p \in Stored : p.key # k}
          /\ \A j \in Indices(capacity) : HasKey(slots'[j]) => slots'[j] = slots[j]
      BY <1>1, <2>1, RemovePairs, RemoveKeySound
    <2>4. Listed' = Listed \ {k}
      BY <2>3 DEF Listed, Stored
    <2>5. HasKey(slots'[cursor]) => slots'[cursor].key # k
      BY <1>1, <1>2, <2>3 DEF Stored, Pairs
    <2>6. \A i \in Indices(cursor') : HasKey(slots'[i]) => slots'[i].key \notin doing.dead
      <3> SUFFICES ASSUME NEW i \in Indices(cursor'), HasKey(slots'[i])
                   PROVE  slots'[i].key \notin doing.dead
        OBVIOUS
      <3>1. i \in Indices(capacity)
        BY <1>1, <1>2 DEF Indices, TableInv, TableTypeOK
      <3>2. slots'[i] = slots[i]
        BY <3>1, <2>3
      <3>3. i # cursor
        BY <3>2, <2>5 DEF k
      <3>4. QED
        BY <1>1, <1>2, <1>3, <3>2, <3>3
    <2>7. QED
      BY <1>1, <1>3, <1>4, <2>1, <2>2, <2>4, <2>6 DEF StringsInv, ListInv
  <1>6. CASE ~(HasKey(slots[cursor]) /\ slots[cursor].key \in doing.dead)
    <2>1. UNCHANGED <<slots, count>>
      BY <1>6 DEF PurgeEntry
    <2>2. TableInv'
      BY <1>1, <1>2, <2>1, TableSame
    <2>3. ListInv'
      BY <1>1, <1>2, <1>3, <1>6, <2>1 DEF ListInv, Listed
    <2>4. QED
      BY <1>4, <2>2, <2>3 DEF StringsInv
  <1>7. QED
    BY <1>5, <1>6

LEMMA SweepStringsStep ==
  ASSUME TableInv, StringsInv, SweepStrings
  PROVE  TableInv' /\ StringsInv'
  <1>1. /\ doing.op = "purge" /\ cursor = capacity /\ doing' = Nothing /\ cursor' = 0
        /\ alive' = alive \ doing.dead
        /\ UNCHANGED <<slots, capacity, count, fresh, reply, wanted>>
    BY DEF SweepStrings, Purged
  <1>2. TableInv'
    BY <1>1, TableSame, DoingCases DEF TableInv, TableTypeOK
  <1>3. Listed' = alive'
    BY <1>1 DEF StringsInv, ListInv, Listed, Pairs
  <1>4. QED
    BY <1>1, <1>2, <1>3, DoingCases
    DEF StringsInv, ListInv, TextsOnce, WantedIsNew
-----------------------------------------------------------------------------
LEMMA StringInitInv == StringInit => StringInv
  <1> SUFFICES ASSUME StringInit PROVE StringInv
    OBVIOUS
  <1>1. TableInv
    BY TableInitInv DEF StringInit
  <1>2. Listed = {}
    BY DEF StringInit, TableInit, Listed, Pairs, Indices
  <1>3. QED
    BY <1>1, <1>2, DoingCases
    DEF StringInit, TableInit, StringInv, ListInv, TextsOnce, WantedIsNew

LEMMA MapStep ==
  ASSUME StringInv, use = "map", UNCHANGED use, TableNext, UNCHANGED <<alive, wanted>>
  PROVE  StringInv'
  <1>1. TableInv'
    BY TableStep DEF StringInv
  <1> DEFINE Others == doing'.op = "set" => doing'.key \in MapKeys
  <1>2. doing'.op # "purge" /\ Others
    <2>1. ASSUME NEW k \in MapKeys, Get(k) \/ Remove(k)
          PROVE  doing'.op # "purge" /\ Others
      BY <2>1 DEF Get, Remove, StringInv
    <2>2. ASSUME NEW k \in MapKeys, NEW v \in Values, Set(k, v) \/ SetAndGrow(k, v)
          PROVE  doing'.op # "purge" /\ Others
      BY <2>2, DoingCases, MapKeysAssumption DEF Set, SetAndGrow, Store
    <2>3. ASSUME Grow PROVE doing'.op # "purge" /\ Others
      BY <2>3, DoingCases DEF Grow, Reinsert, Install, StringInv
    <2>4. QED
      BY <2>1, <2>2, <2>3 DEF TableNext
  <1>3. QED
    BY <1>1, <1>2 DEF StringInv

LEMMA StringsStep ==
  ASSUME StringInv, use = "strings", UNCHANGED use, StringTableNext
  PROVE  StringInv'
  <1>1. TableInv /\ StringsInv
    BY DEF StringInv, StringsInv
  <1>2. TableInv' /\ StringsInv'
    <2>1. ASSUME NEW k \in Keys, Intern(k) PROVE TableInv' /\ StringsInv'
      BY <1>1, <2>1, InternStep
    <2>2. ASSUME NEW k \in Keys, NewString(k) PROVE TableInv' /\ StringsInv'
      BY <1>1, <2>2, NewStringStep
    <2>3. ASSUME NEW dead \in SUBSET alive, Collect(dead) PROVE TableInv' /\ StringsInv'
      BY <1>1, <2>3, CollectStep
    <2>4. ASSUME Grow, UNCHANGED <<alive, wanted>> PROVE TableInv' /\ StringsInv'
      BY <1>1, <2>4, GrowStep
    <2>5. ASSUME PurgeEntry PROVE TableInv' /\ StringsInv'
      BY <1>1, <2>5, PurgeEntryStep
    <2>6. ASSUME SweepStrings PROVE TableInv' /\ StringsInv'
      BY <1>1, <2>6, SweepStringsStep
    <2>7. QED
      BY <2>1, <2>2, <2>3, <2>4, <2>5, <2>6 DEF StringTableNext
  <1>3. QED
    BY <1>2 DEF StringInv, StringsInv

LEMMA StringStays == ASSUME StringInv, UNCHANGED stringVars PROVE StringInv'
  <1>1. TableInv' /\ UNCHANGED <<doing, cursor, slots, capacity, use, alive, wanted>>
    BY TableStays DEF StringInv, stringVars, tableVars
  <1>2. QED
    BY <1>1 DEF StringInv, ListInv, TextsOnce, WantedIsNew, Listed

LEMMA StringStep == StringInv /\ [StringNext]_stringVars => StringInv'
  BY MapStep, StringsStep, StringStays DEF StringNext

(* The inductive invariant of both uses of a table.                        *)
THEOREM StringInvariant == StringSpec => []StringInv
  <1>1. QED
    BY StringInitInv, StringStep, PTL DEF StringSpec

(* No key is in two slots, whatever the hashes: after a removal the key is *)
(* gone and no older value of it comes back.                               *)
THEOREM KeysOnceTheorem == StringSpec => []KeysOnce
  <1>1. StringInv => KeysOnce
    BY KeysOnceInv DEF StringInv
  <1>2. QED
    BY <1>1, StringInvariant, PTL

(* findEntry's and findString's loops end, in the table and in the array   *)
(* adjustCapacity fills.                                                   *)
THEOREM ProbesEndTheorem == StringSpec => []ProbesEnd
  <1>1. StringInv => ProbesEnd
    BY ProbesEndInv DEF StringInv
  <1>2. QED
    BY <1>1, StringInvariant, PTL

(* Two living strings have different characters.                           *)
THEOREM TextsOnceTheorem == StringSpec => []TextsOnce
  <1>1. StringInv => TextsOnce
    BY DEF StringInv, TextsOnce
  <1>2. QED
    BY <1>1, StringInvariant, PTL

(* Between its operations the intern table lists exactly the living        *)
(* strings.                                                                *)
THEOREM ListsTheLivingTheorem == StringSpec => []ListsTheLiving
  <1>1. StringInv => ListsTheLiving
    <2>1. {slots[i].key : i \in {j \in Indices(capacity) : HasKey(slots[j])}} = Listed
      BY DEF Listed, Pairs
    <2>2. QED
      BY <2>1, DoingCases DEF StringInv, ListInv, ListsTheLiving
  <1>2. QED
    BY <1>1, StringInvariant, PTL
-----------------------------------------------------------------------------
(* What a table means as a map depends on its pairs only.                  *)
LEMMA Meaning ==
  ASSUME NEW n \in Nat, NEW array \in [Indices(n) -> Slot], Searchable(array, n),
         n # 0 => Terminates(array, n), NEW k \in Keys
  PROVE  LET v == IF n = 0 THEN Absent ELSE ValueOf(array, n, k)
         IN /\ \A p \in Pairs(array, Indices(n)) :
                 p.key = k => v \in Values /\ v = p.value
            /\ (\A p \in Pairs(array, Indices(n)) : p.key # k) => v = Absent
  <1>1. CASE n = 0
    BY <1>1 DEF Pairs, Indices
  <1>2. CASE n # 0
    BY <1>2, ValueOfPair
  <1>3. QED
    BY <1>1, <1>2

Means(contents, pairs) ==
  \A k \in MapKeys :
     /\ \A p \in pairs : p.key = k => contents[k] \in Values /\ contents[k] = p.value
     /\ (\A p \in pairs : p.key # k) => contents[k] = Absent

LEMMA ContentsMean == ASSUME TableInv PROVE Means(Contents, Stored)
  BY Meaning, MapKeysAssumption
  DEF TableInv, TableTypeOK, CapacitySound, Contents, Means, Stored

LEMMA ContentsMeanNext == ASSUME TableInv' PROVE Means(Contents', Stored')
  BY Meaning, MapKeysAssumption
  DEF TableInv, TableTypeOK, CapacitySound, Contents, Means, Stored

LEMMA SameMeaning ==
  ASSUME TableInv, TableInv', Stored' = Stored PROVE Contents' = Contents
  <1>1. Means(Contents, Stored) /\ Means(Contents', Stored)
    BY ContentsMean, ContentsMeanNext
  <1>2. \A k \in MapKeys : Contents'[k] = Contents[k]
    BY <1>1 DEF Means
  <1>3. QED
    BY <1>2 DEF Contents

(* Storing a pair is Put.                                                  *)
LEMMA PutMeaning ==
  ASSUME TableInv, TableInv', NEW k \in MapKeys, NEW v \in Values,
         Stored' = {p \in Stored : p.key # k} \cup {[key |-> k, value |-> v]},
         reply' = (\A p \in Stored : p.key # k)
  PROVE  /\ Contents' = [Contents EXCEPT ![k] = v]
         /\ reply' = (Contents[k] = Absent)
  <1>1. Means(Contents, Stored) /\ Means(Contents', Stored')
    BY ContentsMean, ContentsMeanNext
  <1>2. (Contents[k] = Absent) = (\A p \in Stored : p.key # k)
    BY <1>1, MarkersAssumption DEF Means
  <1>3. \A m \in MapKeys : Contents'[m] = IF m = k THEN v ELSE Contents[m]
    <2> SUFFICES ASSUME NEW m \in MapKeys
                 PROVE  Contents'[m] = IF m = k THEN v ELSE Contents[m]
      OBVIOUS
    <2>1. CASE m = k
      <3>1. [key |-> k, value |-> v] \in Stored'
        OBVIOUS
      <3>2. QED
        BY <2>1, <3>1, <1>1 DEF Means
    <2>2. CASE m # k
      <3>1. \A p \in Stored' : p.key = m => p \in Stored
        BY <2>2
      <3>2. \A p \in Stored : p.key = m => p \in Stored'
        BY <2>2
      <3>3. QED
        BY <2>2, <3>1, <3>2, <1>1 DEF Means
    <2>3. QED
      BY <2>1, <2>2
  <1>4. Contents' = [Contents EXCEPT ![k] = v]
    BY <1>3 DEF Contents
  <1>5. QED
    BY <1>2, <1>4

(* Burying a key is Delete.                                                *)
LEMMA DeleteMeaning ==
  ASSUME TableInv, TableInv', NEW k \in MapKeys,
         Stored' = {p \in Stored : p.key # k}
  PROVE  /\ Contents' = [Contents EXCEPT ![k] = Absent]
         /\ (Contents[k] # Absent) = ~\A p \in Stored : p.key # k
  <1>1. Means(Contents, Stored) /\ Means(Contents', Stored')
    BY ContentsMean, ContentsMeanNext
  <1>2. (Contents[k] # Absent) = ~\A p \in Stored : p.key # k
    BY <1>1, MarkersAssumption DEF Means
  <1>3. \A m \in MapKeys : Contents'[m] = IF m = k THEN Absent ELSE Contents[m]
    <2> SUFFICES ASSUME NEW m \in MapKeys
                 PROVE  Contents'[m] = IF m = k THEN Absent ELSE Contents[m]
      OBVIOUS
    <2>1. CASE m = k
      BY <2>1, <1>1 DEF Means
    <2>2. CASE m # k
      <3>1. \A p : p.key = m => (p \in Stored' <=> p \in Stored)
        BY <2>2
      <3>2. QED
        BY <2>2, <3>1, <1>1 DEF Means
    <2>3. QED
      BY <2>1, <2>2
  <1>4. QED
    BY <1>2, <1>3 DEF Contents
-----------------------------------------------------------------------------
LEMMA MapInit == StringInit => Map!MapInit
  BY DEF StringInit, TableInit, Map!MapInit, Contents

(* A step of a table that is a map is a step of the map; of adjustCapacity *)
(* only the last one shows.                                                *)
LEMMA TableStepMaps ==
  ASSUME StringInv, StringInv', use = "map", UNCHANGED use, TableNext
  PROVE  [Map!MapNext]_(Map!mapVars)
  <1>1. TableInv /\ TableInv' /\ use' = "map"
    BY DEF StringInv
  <1>2. ASSUME NEW k \in MapKeys, Get(k) PROVE Map!Lookup(k)
    <2>1. doing.op # "set" /\ UNCHANGED <<slots, capacity>>
      BY <1>2, DoingCases DEF Get
    <2>2. Contents' = Contents
      BY <2>1 DEF Contents
    <2>3. count = 0 => Contents[k] = Absent
      BY <1>1, <2>1, NoPairs, ContentsMean DEF Stored, Means
    <2>4. count # 0 => capacity # 0
      BY <1>1, <2>1, RoomLeft DEF TableInv, TableTypeOK, CountExact
    <2>5. reply' = Contents[k]
      BY <1>2, <2>3, <2>4 DEF Get, Contents
    <2>6. QED
      BY <1>1, <2>2, <2>5 DEF Map!Lookup
  <1>3. ASSUME NEW k \in MapKeys, NEW v \in Values, Set(k, v) PROVE Map!Put(k, v)
    <2>1. k \in Keys
      BY MapKeysAssumption
    <2>2. /\ Contents' = [Contents EXCEPT ![k] = v]
          /\ reply' = (Contents[k] = Absent)
      BY <1>1, <1>3, <2>1, SetPairs, PutMeaning
    <2>3. QED
      BY <1>1, <2>2 DEF Map!Put
  <1>4. ASSUME NEW k \in MapKeys, NEW v \in Values, SetAndGrow(k, v)
        PROVE  UNCHANGED Map!mapVars
    BY <1>1, <1>4 DEF SetAndGrow, Contents, Map!mapVars
  <1>5. ASSUME NEW k \in MapKeys, Remove(k) PROVE Map!Delete(k)
    <2>1. /\ doing.op # "set" /\ RemoveKey(k) /\ UNCHANGED capacity
          /\ reply' = (slots' # slots) /\ k \in Keys
      BY <1>5, DoingCases, MapKeysAssumption DEF Remove
    <2>2. /\ Stored' = {p \in Stored : p.key # k}
          /\ slots' = slots <=> \A p \in Stored : p.key # k
      BY <1>1, <2>1, RemovePairs
    <2>3. /\ Contents' = [Contents EXCEPT ![k] = Absent]
          /\ reply' = (Contents[k] # Absent)
      BY <1>1, <2>1, <2>2, DeleteMeaning
    <2>4. QED
      BY <1>1, <2>3 DEF Map!Delete
  <1>6. ASSUME Reinsert PROVE UNCHANGED Map!mapVars
    BY <1>1, <1>6 DEF Reinsert, Contents, Map!mapVars
  <1>7. ASSUME Install PROVE Map!Put(doing.key, doing.value)
    <2>1. doing.key \in MapKeys /\ doing.value \in Values
      BY <1>1, <1>7, WhileGrowing DEF Install, StringInv
    <2>2. /\ Contents' = [Contents EXCEPT ![doing.key] = doing.value]
          /\ reply' = (Contents[doing.key] = Absent)
      BY <1>1, <1>7, <2>1, InstallPairs, PutMeaning
    <2>3. QED
      BY <1>1, <2>2 DEF Map!Put
  <1>8. ASSUME Install PROVE doing.key \in MapKeys /\ doing.value \in Values
    BY <1>1, <1>8, WhileGrowing DEF Install, StringInv
  <1>9. QED
    BY <1>2, <1>3, <1>4, <1>5, <1>6, <1>7, <1>8
    DEF TableNext, Grow, Map!MapNext

(* The collector, growth and interning change nothing that the map shows:  *)
(* a table that is not the intern table is a map.                          *)
THEOREM TableIsAMap == StringSpec => IsAMap
  <1>1. StringInv /\ StringInv' /\ [StringNext]_stringVars => [Map!MapNext]_(Map!mapVars)
    <2> SUFFICES ASSUME StringInv, StringInv', [StringNext]_stringVars
                 PROVE  [Map!MapNext]_(Map!mapVars)
      OBVIOUS
    <2>1. CASE use = "map" /\ TableNext /\ UNCHANGED use
      BY <2>1, TableStepMaps
    <2>2. CASE use = "strings" /\ UNCHANGED use
      BY <2>2 DEF Map!mapVars
    <2>3. CASE UNCHANGED stringVars
      BY <2>3 DEF Map!mapVars, stringVars, tableVars, Contents
    <2>4. QED
      BY <2>1, <2>2, <2>3 DEF StringNext
  <1>2. QED
    BY <1>1, MapInit, StringInvariant, PTL DEF StringSpec, IsAMap, Map!MapSpec
=============================================================================
