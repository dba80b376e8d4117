---------------------------- MODULE ManagedHeap ----------------------------
(***************************************************************************)
(* What Rill's memory manager promises the rest of the interpreter, with   *)
(* no collector in it: objects are allocated, the program rearranges the   *)
(* references between the ones it can reach, and from time to time one it  *)
(* can no longer reach disappears.  The intern table is a set of weak      *)
(* references: it does not keep a string, but a string found in it is      *)
(* usable again.                                                           *)
(*                                                                         *)
(* Collector.tla implements this specification with a mark-sweep pass that *)
(* is triggered in the middle of an allocation.                            *)
(***************************************************************************)
CONSTANT Objects        \* addresses the allocator hands out

VARIABLES
  allocated,            \* the objects on the list g_objects
  uses,                 \* object -> the objects its fields name
  held,                 \* objects named by something outside the heap
  weak                  \* objects only the intern table needs to name

heapVars == <<allocated, uses, held, weak>>

(* S holds every object outside names and everything its members name. *)
ClosedUnder(S, edges) == \A o \in S : edges[o] \subseteq S

(* The objects the program can still get at: those in every closed set. *)
ReachableFrom(names, edges) ==
  {o \in Objects : \A S \in SUBSET Objects :
                      names \subseteq S /\ ClosedUnder(S, edges) => o \in S}

Reachable == ReachableFrom(held, uses)

HeapTypeOK ==
  /\ allocated \subseteq Objects
  /\ uses \in [Objects -> SUBSET Objects]
  /\ held \subseteq Objects
  /\ weak \subseteq Objects
-----------------------------------------------------------------------------
HeapInit ==
  /\ allocated = {}
  /\ uses = [o \in Objects |-> {}]
  /\ held = {}
  /\ weak = {}

(* Only objects in `scope` get new fields, and the fields name them only. *)
Rewires(scope) ==
  /\ uses' \in [Objects -> SUBSET Objects]
  /\ \A o \in Objects : \/ uses'[o] = uses[o]
                        \/ o \in scope /\ uses'[o] \subseteq scope

Allocate(o) ==
  /\ o \notin allocated
  /\ allocated' = allocated \cup {o}
  /\ held' \subseteq Reachable \cup {o}
  /\ weak' = weak \/ (weak' = weak \cup {o} /\ uses'[o] = {})
  /\ uses'[o] \subseteq Reachable \cup {o}
  /\ Rewires(Reachable \cup {o})
  /\ \A w \in weak : uses'[w] = uses[w]

(* The program moves references about; a weak string may come back. *)
Compute ==
  /\ held' \subseteq Reachable \cup weak
  /\ Rewires(Reachable)
  /\ \A w \in weak : uses'[w] = uses[w]
  /\ UNCHANGED <<allocated, weak>>

(* The intern table gives up strings nobody can reach. *)
Forget ==
  /\ weak' \subseteq weak
  /\ (weak \ weak') \cap Reachable = {}
  /\ UNCHANGED <<allocated, uses, held>>

(* Memory is reclaimed: never a reachable object, never an interned one. *)
Reclaim ==
  /\ allocated' \subseteq allocated
  /\ (allocated \ allocated') \cap (Reachable \cup weak) = {}
  /\ uses' = [o \in Objects |-> IF o \in allocated \ allocated' THEN {}
                                ELSE uses[o]]
  /\ UNCHANGED <<held, weak>>

HeapNext ==
  \/ \E o \in Objects : Allocate(o)
  \/ Compute
  \/ Forget
  \/ Reclaim

HeapSpec == HeapInit /\ [][HeapNext]_heapVars
-----------------------------------------------------------------------------
(* Whatever can be named or reached is memory that has not been freed, and *)
(* so is every string the intern table still lists: neither                *)
(* vm.cpp's dereferences nor findString's comparison touch freed memory.   *)
NoDangling == held \cup weak \cup Reachable \subseteq allocated
============================================================================
