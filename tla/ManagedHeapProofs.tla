------------------------- MODULE ManagedHeapProofs -------------------------
(* The memory manager's promise holds for every set of addresses. *)
EXTENDS ManagedHeap, TLAPS

(* Strings in the intern table name nothing, so reviving one revives only it. *)
HeapInv ==
  /\ HeapTypeOK
  /\ NoDangling
  /\ \A w \in weak : uses[w] = {}
-----------------------------------------------------------------------------
(* The reachable objects are among those of any closed set that holds the  *)
(* names: the way every step below bounds what is reachable after it.      *)
LEMMA ReachableWithin ==
  ASSUME NEW names, NEW edges, NEW S \in SUBSET Objects,
         names \subseteq S, ClosedUnder(S, edges)
  PROVE  ReachableFrom(names, edges) \subseteq S
  BY DEF ReachableFrom

(* The reachable objects hold the names and are closed themselves. *)
LEMMA ReachableClosed ==
  ASSUME NEW names \in SUBSET Objects, NEW edges \in [Objects -> SUBSET Objects]
  PROVE  /\ names \subseteq ReachableFrom(names, edges)
         /\ ClosedUnder(ReachableFrom(names, edges), edges)
         /\ ReachableFrom(names, edges) \subseteq Objects
  <1>1. names \subseteq ReachableFrom(names, edges)
    BY DEF ReachableFrom
  <1>2. ASSUME NEW o \in ReachableFrom(names, edges), NEW v \in edges[o]
        PROVE  v \in ReachableFrom(names, edges)
    <2>1. o \in Objects /\ v \in Objects
      BY DEF ReachableFrom
    <2>2. ASSUME NEW S \in SUBSET Objects, names \subseteq S,
                 ClosedUnder(S, edges)
          PROVE  v \in S
      BY <2>2 DEF ReachableFrom, ClosedUnder
    <2>3. QED
      BY <2>1, <2>2 DEF ReachableFrom
  <1>3. QED
    BY <1>1, <1>2 DEF ClosedUnder, ReachableFrom
-----------------------------------------------------------------------------
LEMMA InitHeapInv == HeapInit => HeapInv
  <1> SUFFICES ASSUME HeapInit PROVE HeapInv
    OBVIOUS
  <1>1. HeapTypeOK
    BY DEF HeapInit, HeapTypeOK
  <1>2. ReachableFrom(held, uses) \subseteq {}
    BY ReachableWithin DEF HeapInit, ClosedUnder
  <1>3. QED
    BY <1>1, <1>2 DEF HeapInit, HeapInv, NoDangling, Reachable

(* One case per action: each gives a closed set of allocated objects that  *)
(* holds what is named afterwards.                                         *)
LEMMA StepHeapInv == HeapInv /\ [HeapNext]_heapVars => HeapInv'
  <1> SUFFICES ASSUME HeapInv, [HeapNext]_heapVars PROVE HeapInv'
    OBVIOUS
  <1> DEFINE R == Reachable
  <1>0. /\ held \subseteq R /\ ClosedUnder(R, uses) /\ R \subseteq Objects
        /\ R \subseteq allocated /\ weak \subseteq allocated
        /\ ClosedUnder(R \cup weak, uses)
    BY ReachableClosed DEF HeapInv, HeapTypeOK, NoDangling, Reachable, ClosedUnder
  <1> HIDE DEF R
  <1>1. ASSUME NEW o \in Objects, Allocate(o) PROVE HeapInv'
    <2>1. HeapTypeOK'
      BY <1>0, <1>1 DEF Allocate, Rewires, HeapInv, HeapTypeOK, R
    <2>2. ClosedUnder(R \cup {o}, uses')
      BY <1>0, <1>1 DEF Allocate, Rewires, ClosedUnder, R
    <2>3. Reachable' \subseteq R \cup {o}
      BY <1>0, <1>1, <2>2, ReachableWithin DEF Allocate, Reachable, R
    <2>4. QED
      BY <1>0, <1>1, <2>1, <2>3 DEF Allocate, HeapInv, NoDangling, R
  <1>2. CASE Compute
    <2>1. HeapTypeOK'
      BY <1>0, <1>2 DEF Compute, Rewires, HeapInv, HeapTypeOK, R
    <2>2. ClosedUnder(R \cup weak, uses')
      BY <1>0, <1>2 DEF Compute, Rewires, ClosedUnder, R
    <2>3. Reachable' \subseteq R \cup weak
      BY <1>0, <1>2, <2>2, ReachableWithin
      DEF Compute, Reachable, R, HeapInv, HeapTypeOK
    <2>4. QED
      BY <1>0, <1>2, <2>1, <2>3 DEF Compute, HeapInv, NoDangling, R
  <1>3. CASE Forget
    BY <1>3 DEF Forget, HeapInv, HeapTypeOK, NoDangling, Reachable
  <1>4. CASE Reclaim
    <2>1. HeapTypeOK'
      BY <1>4 DEF Reclaim, HeapInv, HeapTypeOK
    <2>2. ClosedUnder(R, uses')
      BY <1>0, <1>4 DEF Reclaim, ClosedUnder
    <2>3. Reachable' \subseteq R
      BY <1>0, <1>4, <2>2, ReachableWithin DEF Reclaim, Reachable
    <2>4. R \subseteq allocated' /\ weak' \subseteq allocated'
      BY <1>0, <1>4 DEF Reclaim, R
    <2>5. \A w \in weak' : uses'[w] = {}
      BY <1>4 DEF Reclaim, HeapInv, HeapTypeOK
    <2>6. QED
      BY <1>0, <1>4, <2>1, <2>3, <2>4, <2>5 DEF Reclaim, HeapInv, NoDangling
  <1>5. CASE UNCHANGED heapVars
    BY <1>5 DEF heapVars, HeapInv, HeapTypeOK, NoDangling, Reachable
  <1>6. QED
    BY <1>1, <1>2, <1>3, <1>4, <1>5 DEF HeapNext

(* No object the program can name or reach, and no interned string, is     *)
(* ever freed memory, whatever the memory manager reclaims under the rules *)
(* of ManagedHeap.                                                         *)
THEOREM HeapNeverDangles == HeapSpec => []NoDangling
  <1>1. HeapInv => NoDangling
    BY DEF HeapInv
  <1>2. QED
    BY InitHeapInv, StepHeapInv, <1>1, PTL DEF HeapSpec
============================================================================
