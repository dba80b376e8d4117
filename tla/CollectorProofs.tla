-------------------------- MODULE CollectorProofs --------------------------
(***************************************************************************)
(* Proofs about Collector for every set of addresses, every set of names   *)
(* and builtins, every threshold and both builds (RILL_GC_STRESS or not),  *)
(* as long as nothing is taken out of a dead slot that only the slot named *)
(* (~Strays): what is can have been freed, and nothing below survives it.  *)
(***************************************************************************)
EXTENDS Collector, FiniteSetTheorems, SequenceTheorems, TLAPS

USE NoObjectAssumption, NamesAssumption

(* The temporary roots never hold more than two objects at once, so no     *)
(* push is dropped as long as the array has two places.                    *)
LEMMA PushOnce ==
  ASSUME NEW s \in Seq(Objects), NEW o \in Objects, Len(s) = 0
  PROVE  /\ PushTemp(s, o) \in Seq(Objects)
         /\ Len(PushTemp(s, o)) = 1 /\ PushTemp(s, o)[1] = o
  BY TempRootsAssumption DEF PushTemp

LEMMA PushTwice ==
  ASSUME NEW s \in Seq(Objects), NEW o \in Objects, Len(s) = 0
  PROVE  /\ Len(PushTemp(PushTemp(s, o), o)) = 2
         /\ \A i \in 1 .. 2 : PushTemp(PushTemp(s, o), o)[i] = o
  <1> DEFINE once == PushTemp(s, o)
  <1>1. once \in Seq(Objects) /\ Len(once) = 1 /\ once[1] = o
    BY PushOnce
  <1>2. PushTemp(once, o) = Append(once, o)
    BY <1>1, TempRootsAssumption DEF PushTemp
  <1> HIDE DEF once
  <1>3. Len(Append(once, o)) = Len(once) + 1
    BY <1>1, AppendProperties, ZenonT(40)
  <1>4. Append(once, o)[Len(once) + 1] = o
    BY <1>1, AppendProperties, SMTT(20)
  <1>5. \A i \in 1 .. Len(once) : Append(once, o)[i] = once[i]
    BY <1>1, AppendProperties
  <1>6. QED
    BY <1>1, <1>2, <1>3, <1>4, <1>5 DEF once

LEMMA PopOnce ==
  ASSUME NEW s \in Seq(Objects), Len(s) \in {1, 2}
  PROVE  PopTemp(s) \in Seq(Objects) /\ Len(PopTemp(s)) = Len(s) - 1
  BY SMTT(20) DEF PopTemp

LEMMA PopTwice ==
  ASSUME NEW s \in Seq(Objects), Len(s) = 2
  PROVE  Len(PopTemp(PopTemp(s))) = 0
  <1> DEFINE once == PopTemp(s)
  <1>1. once \in Seq(Objects) /\ Len(once) = 1
    BY DEF PopTemp
  <1> HIDE DEF once
  <1>2. Len(PopTemp(once)) = 0
    BY <1>1 DEF PopTemp
  <1>3. QED
    BY <1>2 DEF once

LEMMA TempRootsTyped ==
  ASSUME NEW s \in Seq(Objects), NEW o \in Objects
  PROVE  PushTemp(s, o) \in Seq(Objects) /\ PopTemp(s) \in Seq(Objects)
  BY DEF PushTemp, PopTemp

LEMMA RootsTyped == TypeOK => Roots \subseteq Objects
  <1> SUFFICES ASSUME TypeOK PROVE Roots \subseteq Objects
    OBVIOUS
  <1>1. ElementsOf(tempRoots) \subseteq Objects
    BY DEF TypeOK, ElementsOf
  <1>2. GlobalObjects \subseteq Objects
    BY DEF TypeOK, GlobalObjects, GlobalKeys
  <1>3. QED
    BY <1>1, <1>2 DEF TypeOK, Roots

LEMMA IdleTyped == Idle \in [op : Ops, name : Objects \cup {NoObject},
                             key : Objects \cup {NoObject},
                             arg : Objects \cup {NoObject}, content : Names]
  BY DEF Idle, Ops

LEMMA SweepTyped ==
  ASSUME TypeOK
  PROVE  BytesAfterSweep \in Nat /\ NewThreshold \in Nat
  <1>1. IsFiniteSet(Garbage)
    BY FS_Subset, ObjectsAssumption DEF Garbage, Heap
  <1>2. Cardinality(Garbage) \in Nat
    BY <1>1, FS_CardinalityType
  <1>3. QED
    BY <1>2, ThresholdAssumption
    DEF TypeOK, BytesAfterSweep, NewThreshold
-----------------------------------------------------------------------------
LEMMA InitInv == Init => CollectorInv
  <1> SUFFICES ASSUME Init PROVE CollectorInv
    OBVIOUS
  <1>1. TypeOK
    BY IdleTyped, ThresholdAssumption DEF Init, TypeOK, Kinds, Phases
  <1>2. TempRootsMatchJob
    BY DEF Init, TempRootsMatchJob, TempRootsAre, Idle
  <1>3. JobWellFormed
    BY DEF Init, JobWellFormed, Idle
  <1>4. Roots = {} /\ Interned = {}
    BY DEF Init, Roots, Interned, GlobalObjects, GlobalKeys, ElementsOf
  <1>5. HeapClosed
    BY <1>4 DEF Init, HeapClosed, Heap
  <1>6. QED
    BY <1>1, <1>2, <1>3, <1>5
    DEF Init, CollectorInv, NamesAreGlobals, MarksClean, TriColour, SweepReady

(* The kind of operation says which of its locals are null, so types need  *)
(* the rest of the invariant: a closure is never built from a null pointer.*)
LEMMA TypeStep == CollectorInv /\ [Next]_vars => TypeOK'
  <1> SUFFICES ASSUME CollectorInv, [Next]_vars PROVE TypeOK'
    OBVIOUS
  <1>0. TypeOK /\ JobWellFormed
    BY DEF CollectorInv
  <1> USE <1>0, IdleTyped DEF TypeOK, heapVars, gcVars
  <1>1. CASE Collect
    <2>1. CASE MaybeCollect
      BY <2>1, RootsTyped DEF MaybeCollect, MarkRoots, Phases
    <2>2. CASE RemoveWhite
      BY <2>2 DEF RemoveWhite, WithoutWhite, Phases
    <2>3. CASE Sweep
      BY <2>3, SweepTyped DEF Sweep, Kinds, Phases
    <2>4. ASSUME NEW o \in Objects, Blacken(o) PROVE TypeOK'
      BY <2>4 DEF Blacken
    <2>5. QED
      BY <1>1, <2>1, <2>2, <2>3, <2>4 DEF Collect
  <1>2. CASE Build
    <2> PICK o \in Objects : \/ BuildString(o) \/ BuildKey(o) \/ BuildNative(o)
                             \/ BuildFunction(o) \/ BuildScript(o)
                             \/ BuildClosure(o) \/ BuildUpvalue(o) \/ BuildMap(o)
      BY <1>2 DEF Build
    <2> DEFINE Jobs == [op : Ops, name : Objects \cup {NoObject},
                       key : Objects \cup {NoObject},
                       arg : Objects \cup {NoObject}, content : Names]
    <2>0. /\ PushTemp(PushTemp(tempRoots, o), o) \in Seq(Objects)
          /\ PopTemp(PopTemp(tempRoots)) \in Seq(Objects)
          /\ PopTemp(tempRoots) \in Seq(Objects)
      BY TempRootsTyped
    <2>a. /\ job.op = "native" => job.key \in Objects /\ job.name \in Objects
          /\ job.op \in {"script", "closure", "upvalue"} => job.arg \in Objects
          /\ {job.arg} \ {NoObject} \subseteq Objects
      BY DEF JobWellFormed
    <2>b. Finish => job' \in Jobs /\ phase' \in Phases
      BY DEF Finish, Phases
    <2> USE DEF Born, Kinds, Phases
    <2>1. CASE BuildString(o)
      BY <2>1, <2>b DEF BuildString
    <2>2. CASE BuildKey(o)
      <3>1. interned' \in [Names -> Objects \cup {NoObject}]
            /\ interned'[job.content] = o
        BY <2>2 DEF BuildKey
      <3>2. tempRoots' \in Seq(Objects)
        BY <2>2, <3>1, <2>0 DEF BuildKey
      <3>3. job' \in Jobs
        BY <2>2, <3>1 DEF BuildKey, Ask, Ops
      <3>4. QED
        BY <2>2, <3>1, <3>2, <3>3 DEF BuildKey, Ask
    <2>3. CASE BuildNative(o)
      <3>1. globals' \subseteq Objects \X (Objects \cup {NoObject})
        BY <2>3, <2>a DEF BuildNative, WithGlobal
      <3>2. QED
        BY <2>3, <2>0, <2>a, <3>1 DEF BuildNative
    <2>4. CASE BuildFunction(o)
      BY <2>4, <2>b DEF BuildFunction
    <2>5. CASE BuildScript(o)
      BY <2>5, <2>0, <2>a, <2>b DEF BuildScript
    <2>6. CASE BuildClosure(o)
      <3>1. job' \in Jobs
        BY <2>6 DEF BuildClosure, Idle, Ops
      <3>2. QED
        BY <2>6, <2>0, <2>a, <3>1 DEF BuildClosure
    <2>7. CASE BuildUpvalue(o)
      BY <2>7, <2>a DEF BuildUpvalue
    <2>8. CASE BuildMap(o)
      BY <2>8, <2>0, <2>a, <2>b DEF BuildMap
    <2>9. QED
      BY <2>1, <2>2, <2>3, <2>4, <2>5, <2>6, <2>7, <2>8
  <1>3. CASE Mutate
    <2> USE DEF Ask, Ops, Phases, Refer
    <2>1. ASSUME NEW c \in Names, FoundInterned(c) \/ NewString(c)
          PROVE  TypeOK'
      BY <2>1, ZenonT(40) DEF FoundInterned, NewString, Idle
    <2>2. ASSUME NEW b \in Builtins, DefineNative(b) PROVE TypeOK'
      BY <2>2, BuiltinsAssumption DEF DefineNative, Idle
    <2>3. CASE BootDone \/ NewFunction \/ NewUpvalue \/ CaptureDone
      BY <2>3, ZenonT(40) DEF BootDone, NewFunction, NewUpvalue, CaptureDone, Finish, Idle
    <2>4. CASE ForceCollection
      BY <2>4, RootsTyped DEF ForceCollection, MarkRoots, Idle
    <2>5. ASSUME NEW o \in Objects,
                 Interpret(o) \/ NewClosure(o) \/ GetGlobal(o) \/ Drop(o)
          PROVE  TypeOK'
      <3>1. CASE Interpret(o)
        <4>1. PushTemp(PushTemp(tempRoots, o), o) \in Seq(Objects)
          BY TempRootsTyped
        <4>2. QED
          BY <3>1, <4>1 DEF Interpret, Idle
      <3>2. CASE NewClosure(o)
        BY <3>2, TempRootsTyped DEF NewClosure, Idle
      <3>3. CASE GetGlobal(o) \/ Drop(o)
        BY <3>3 DEF GetGlobal, Drop
      <3>4. QED
        BY <2>5, <3>1, <3>2, <3>3
    <2>6. ASSUME NEW p \in Objects \cup {NoObject}, NewMap(p) PROVE TypeOK'
      BY <2>6, TempRootsTyped DEF NewMap, Idle
    <2>7. ASSUME NEW o \in Objects, NEW v \in Objects,
                 Push(o, v) \/ AddConstant(o, v) \/ ShareUpvalue(o, v)
          PROVE  TypeOK'
      BY <2>7 DEF Push, AddConstant, ShareUpvalue, WithoutSlot
    <2>8. ASSUME NEW m \in Objects, NEW v \in Objects, NEW old \in SUBSET refs[m],
                 SetField(m, v, old)
          PROVE  TypeOK'
      BY <2>8 DEF SetField
    <2>9. ASSUME NEW c \in Objects, NEW u \in Objects, NEW v \in Objects \cup {NoObject},
                 SetUpvalue(c, u, v) \/ ReadLeft(c, u, v)
          PROVE  TypeOK'
      BY <2>9 DEF SetUpvalue, ReadLeft
    <2>10. ASSUME NEW k \in Objects, NEW v \in Objects \cup {NoObject},
                  SetGlobal(k, v)
           PROVE  TypeOK'
      BY <2>10 DEF SetGlobal, WithGlobal
    <2>11. ASSUME NEW u \in Objects, NEW v \in Objects \cup {NoObject},
                  LeaveUpvalue(u, v) \/ SlotWritten(u, v) \/ CloseUpvalue(u, v)
           PROVE  TypeOK'
      BY <2>11 DEF LeaveUpvalue, SlotWritten, CloseUpvalue, WithoutSlot
    <2>12. ASSUME NEW kept \in SUBSET rooted,
                  NEW slots \in [{u \in rooted \ Left : kind[u] = "upvalue"}
                                   -> Objects \cup {NoObject}],
                  ResetStack(kept, slots)
           PROVE  TypeOK'
      BY <2>12 DEF ResetStack
    <2>13. QED
      BY <1>3, <2>1, <2>2, <2>3, <2>4, <2>5, <2>6, <2>7, <2>8, <2>9, <2>10, <2>11,
         <2>12
      DEF Mutate
  <1>4. CASE UNCHANGED vars
    BY <1>4 DEF vars
  <1>5. QED
    BY <1>1, <1>2, <1>3, <1>4 DEF Next
-----------------------------------------------------------------------------
(* What the temporary roots hold, as a set. *)
LEMMA TempRootElements ==
  ASSUME NEW n \in {0, 1, 2}, NEW o, TempRootsAre(n, o)
  PROVE  ElementsOf(tempRoots) = IF n = 0 THEN {} ELSE {o}
  BY DEF TempRootsAre, ElementsOf

(* A C++ local that outlives an allocation is rooted while it does. *)
LEMMA LocalsRooted ==
  TypeOK /\ TempRootsMatchJob /\ JobWellFormed => Locals \subseteq Roots
  <1> SUFFICES ASSUME TypeOK, TempRootsMatchJob, JobWellFormed
               PROVE  Locals \subseteq Roots
    OBVIOUS
  <1>1. CASE job.op = "native"
    <2>1. ElementsOf(tempRoots) = {job.key}
      BY <1>1, TempRootElements DEF TempRootsMatchJob
    <2>2. QED
      BY <1>1, <2>1 DEF Locals, Roots, JobWellFormed
  <1>2. CASE job.op \in {"script", "closure"}
    <2>1. ElementsOf(tempRoots) = {job.arg}
      BY <1>2, TempRootElements DEF TempRootsMatchJob
    <2>2. QED
      BY <1>2, <2>1 DEF Locals, Roots, JobWellFormed
  <1>3. CASE job.op = "map"
    <2>1. job.arg # NoObject => ElementsOf(tempRoots) = {job.arg}
      BY <1>3, TempRootElements DEF TempRootsMatchJob
    <2>2. QED
      BY <1>3, <2>1 DEF Locals, Roots, JobWellFormed
  <1>4. CASE job.op \notin {"native", "script", "closure", "map"}
    BY <1>4 DEF Locals, Roots, JobWellFormed
  <1>5. QED
    BY <1>1, <1>2, <1>3, <1>4

(* A step between collections that neither allocates nor writes a field.   *)
LEMMA QuietStep ==
  ASSUME CollectorInv, UNCHANGED heapVars, UNCHANGED gcVars,
         phase \notin {"trace", "sweep"}, phase' \notin {"trace", "sweep"},
         Roots' \subseteq Heap, GlobalKeys \subseteq GlobalKeys'
  PROVE  HeapClosed' /\ NamesAreGlobals' /\ MarksClean' /\ TriColour'
         /\ SweepReady'
  BY DEF CollectorInv, heapVars, gcVars, HeapClosed, Heap, Interned,
         NamesAreGlobals, MarksClean, TriColour, SweepReady

(* A step between collections that makes the fields of o name `targets`.   *)
LEMMA ReferStep ==
  ASSUME CollectorInv, NEW o \in Objects, NEW targets \in SUBSET Heap,
         Refer(o, targets), kind[o] \notin {"free", "string", "native"},
         phase \notin {"trace", "sweep"}, rooted' \subseteq rooted
  PROVE  HeapClosed' /\ NamesAreGlobals' /\ MarksClean' /\ TriColour'
         /\ SweepReady' /\ TempRootsMatchJob'
  <1> USE DEF CollectorInv, Refer, gcVars
  <1>1. Roots' \subseteq Roots /\ GlobalKeys' = GlobalKeys
    BY DEF Roots, GlobalObjects, GlobalKeys
  <1>2. HeapClosed'
    BY <1>1 DEF HeapClosed, Heap, Interned, TypeOK
  <1>3. TempRootsMatchJob'
    BY DEF TempRootsMatchJob, TempRootsAre
  <1>4. QED
    BY <1>1, <1>2, <1>3
    DEF NamesAreGlobals, MarksClean, TriColour, SweepReady

(* A collection keeps the invariant: when the gray set is empty the marked *)
(* objects are a closed set that holds the roots, so the sweep takes       *)
(* nothing away that a survivor, a root or the intern table names.         *)
LEMMA CollectStep == CollectorInv /\ TypeOK' /\ Collect => CollectorInv'
  <1> SUFFICES ASSUME CollectorInv, TypeOK', Collect PROVE CollectorInv'
    OBVIOUS
  <1> USE DEF heapVars
  <1>0. /\ TypeOK /\ TempRootsMatchJob /\ JobWellFormed /\ HeapClosed
        /\ NamesAreGlobals /\ MarksClean /\ TriColour /\ SweepReady
    BY DEF CollectorInv
  <1>1. UNCHANGED <<rooted, globals, tempRoots>>
    BY DEF Collect, MaybeCollect, RemoveWhite, Sweep, Blacken
  <1>2. Roots' = Roots /\ GlobalKeys' = GlobalKeys
    BY <1>1 DEF Roots, GlobalObjects, GlobalKeys, ElementsOf
  <1>3. CASE MaybeCollect
    <2>1. marked = {} /\ gray = {}
      BY <1>0, <1>3 DEF MaybeCollect, MarksClean
    <2>2. TempRootsMatchJob' /\ JobWellFormed'
      BY <1>0, <1>1, <1>3
      DEF MaybeCollect, TempRootsMatchJob, TempRootsAre, JobWellFormed
    <2>3. HeapClosed' /\ NamesAreGlobals'
      BY <1>0, <1>2, <1>3
      DEF MaybeCollect, HeapClosed, Heap, Interned, NamesAreGlobals
    <2>4. CASE phase' = "build"
      BY <1>0, <1>3, <2>1, <2>2, <2>3, <2>4
      DEF CollectorInv, MaybeCollect, MarksClean, TriColour, SweepReady, MarkRoots
    <2>5. CASE phase' = "trace"
      BY <1>0, <1>2, <1>3, <2>1, <2>2, <2>3, <2>5
      DEF CollectorInv, MaybeCollect, MarksClean, TriColour, SweepReady,
          MarkRoots, HeapClosed, Heap
    <2>6. QED
      BY <1>3, <2>4, <2>5 DEF MaybeCollect
  <1>4. CASE RemoveWhite
    <2>1. TempRootsMatchJob' /\ JobWellFormed'
      BY <1>0, <1>1, <1>4
      DEF RemoveWhite, TempRootsMatchJob, TempRootsAre, JobWellFormed
    <2>2. Interned' \subseteq Interned /\ Interned' \subseteq marked
      BY <1>0, <1>4 DEF RemoveWhite, WithoutWhite, Interned, TypeOK
    <2>3. HeapClosed' /\ NamesAreGlobals'
      BY <1>0, <1>2, <1>4, <2>2
      DEF RemoveWhite, WithoutWhite, HeapClosed, Heap, NamesAreGlobals
    <2>4. QED
      BY <1>0, <1>2, <1>4, <2>1, <2>2, <2>3
      DEF CollectorInv, RemoveWhite, MarksClean, TriColour, SweepReady, Heap
  <1>5. CASE Sweep
    <2>0. job.op = "upvalue" => job.arg \in marked
      BY <1>0, <1>5 DEF Sweep, JobWellFormed, TriColour, Roots
    <2>1. TempRootsMatchJob' /\ JobWellFormed'
      <3>1. CASE job.op = "gc"
        BY <1>0, <1>1, <1>5, <3>1
        DEF Sweep, TempRootsMatchJob, TempRootsAre, JobWellFormed, Idle
      <3>2. CASE job.op # "gc"
        BY <1>0, <1>1, <1>5, <2>0, <3>2
        DEF Sweep, TempRootsMatchJob, TempRootsAre, JobWellFormed, Garbage,
            TypeOK
      <3>3. QED
        BY <3>1, <3>2
    <2>2. Heap' = marked
      BY <1>0, <1>5 DEF Sweep, Garbage, Heap, TriColour
    <2>3. HeapClosed'
      BY <1>0, <1>2, <1>5, <2>2
      DEF Sweep, HeapClosed, Garbage, Heap, Interned, TriColour, SweepReady
    <2>4. NamesAreGlobals'
      BY <1>0, <1>2, <1>5 DEF Sweep, NamesAreGlobals, Garbage
    <2>5. marked' = {} /\ gray' = {}
      BY <1>0, <1>5 DEF Sweep, TriColour, SweepReady
    <2>6. QED
      BY <1>0, <1>5, <2>1, <2>3, <2>4, <2>5
      DEF CollectorInv, Sweep, MarksClean, TriColour, SweepReady
  <1>6. ASSUME NEW o \in Objects, Blacken(o) PROVE CollectorInv'
    <2>1. TempRootsMatchJob' /\ JobWellFormed'
      BY <1>0, <1>1, <1>6
      DEF Blacken, TempRootsMatchJob, TempRootsAre, JobWellFormed
    <2>2. HeapClosed' /\ NamesAreGlobals'
      BY <1>0, <1>2, <1>6
      DEF Blacken, HeapClosed, Heap, Interned, NamesAreGlobals
    <2>3. TriColour'
      BY <1>0, <1>2, <1>6 DEF Blacken, TriColour, HeapClosed, Heap
    <2>4. QED
      BY <1>0, <1>6, <2>1, <2>2, <2>3
      DEF CollectorInv, Blacken, MarksClean, SweepReady
  <1>7. QED
    BY <1>3, <1>4, <1>5, <1>6 DEF Collect

(* The new object o is not free any more and nothing else changes kind.    *)
LEMMA BirthStep ==
  ASSUME CollectorInv, NEW o \in Objects, NEW k \in Kinds \ {"free"},
         phase = "build", phase' \notin {"trace", "sweep"},
         o \notin Heap, kind' = [kind EXCEPT ![o] = k],
         refs' \in [Objects -> SUBSET Objects],
         \A x \in Objects : refs'[x] \subseteq Heap \cup {o},
         \A x \in Objects \ {o} :
            refs'[x] = refs[x] \/ kind[x] \notin {"free", "string", "native"},
         k \in {"string", "native"} => refs'[o] = {},
         \A c \in Names : \/ interned'[c] = interned[c]
                          \/ interned'[c] = o /\ k = "string",
         \A x \in Objects : \/ nameOf'[x] = nameOf[x]
                            \/ x = o /\ k = "native" /\ nameOf'[x] \in GlobalKeys',
         GlobalKeys \subseteq GlobalKeys',
         Roots' \subseteq Heap \cup {o}, UNCHANGED gcVars
  PROVE  HeapClosed' /\ NamesAreGlobals' /\ MarksClean' /\ TriColour'
         /\ SweepReady'
  <1>0. TypeOK /\ HeapClosed /\ NamesAreGlobals /\ MarksClean
    BY DEF CollectorInv
  <1>1. Heap' = Heap \cup {o}
    BY <1>0 DEF Heap, TypeOK
  <1>2. Interned' \subseteq Interned \cup {o}
    BY DEF Interned
  <1>3. HeapClosed'
    <2>1. \A x \in Objects : kind'[x] \in {"free", "string", "native"}
                               => refs'[x] = {}
      BY <1>0 DEF HeapClosed, TypeOK
    <2>2. \A c \in Names : interned'[c] # NoObject
                             => kind'[interned'[c]] = "string"
      BY <1>0, <1>1 DEF HeapClosed, TypeOK, Heap
    <2>3. QED
      BY <1>0, <1>1, <1>2, <2>1, <2>2 DEF HeapClosed
  <1>4. NamesAreGlobals'
    BY <1>0 DEF NamesAreGlobals, Heap, TypeOK
  <1>5. QED
    BY <1>0, <1>3, <1>4 DEF MarksClean, TriColour, SweepReady, gcVars

(* An allocation keeps the invariant: the temporary roots it pushed are    *)
(* the ones it pops, and the new object names live ones only.              *)
LEMMA BuildStep == CollectorInv /\ TypeOK' /\ Build => CollectorInv'
  <1> SUFFICES ASSUME CollectorInv, TypeOK', Build PROVE CollectorInv'
    OBVIOUS
  <1>0. /\ TypeOK /\ TempRootsMatchJob /\ JobWellFormed /\ HeapClosed
        /\ NamesAreGlobals /\ MarksClean
    BY DEF CollectorInv
  <1> PICK o \in Objects : \/ BuildString(o) \/ BuildKey(o) \/ BuildNative(o)
                           \/ BuildFunction(o) \/ BuildScript(o)
                           \/ BuildClosure(o) \/ BuildUpvalue(o) \/ BuildMap(o)
    BY DEF Build
  <1> USE <1>0
  <1>a. /\ rooted \subseteq Heap /\ GlobalObjects \subseteq Heap
        /\ ElementsOf(tempRoots) \subseteq Heap /\ Locals \subseteq Heap
        /\ \A x \in Objects : refs[x] \subseteq Heap
    BY LocalsRooted DEF HeapClosed, Roots
  <1>b. ASSUME TempRootsMatchJob', JobWellFormed', HeapClosed',
               NamesAreGlobals', MarksClean', TriColour', SweepReady'
        PROVE  CollectorInv'
    BY <1>b DEF CollectorInv
  <1>c. Len(tempRoots') = 0 => ElementsOf(tempRoots') = {}
    BY DEF ElementsOf
  <1>1. CASE BuildString(o)
    <2>1. Len(tempRoots') = 0 /\ TempRootsMatchJob' /\ JobWellFormed'
      BY <1>1 DEF BuildString, Born, Finish, Idle, TempRootsMatchJob,
                  TempRootsAre, JobWellFormed
    <2>2. Roots' \subseteq Heap \cup {o} /\ GlobalKeys' = GlobalKeys
      BY <1>1, <1>a, <1>c, <2>1 DEF BuildString, Roots, GlobalObjects, GlobalKeys
    <2>3. QED
      BY <1>1, <1>a, <1>b, <2>1, <2>2, BirthStep, ZenonT(40)
      DEF BuildString, Born, Finish, Kinds, TypeOK
  <1>2. CASE BuildKey(o)
    <2>1. interned'[job.content] = o /\ interned' \in [Names -> Objects \cup {NoObject}]
      BY <1>2 DEF BuildKey, TypeOK
    <2>2. Len(tempRoots) = 0 /\ tempRoots \in Seq(Objects)
      BY <1>2 DEF BuildKey, TempRootsMatchJob, TempRootsAre, TypeOK
    <2>3. tempRoots' = PushTemp(PushTemp(tempRoots, o), o)
      BY <1>2, <2>1 DEF BuildKey
    <2>5. Len(tempRoots') = 2 /\ \A i \in 1 .. 2 : tempRoots'[i] = o
      BY <2>2, <2>3, PushTwice, ZenonT(40)
    <2>6. TempRootsMatchJob' /\ JobWellFormed'
      BY <1>2, <2>1, <2>5
      DEF BuildKey, Born, Ask, TempRootsMatchJob, TempRootsAre, JobWellFormed,
          TypeOK
    <2>7. ElementsOf(tempRoots') = {o}
      BY <2>5 DEF ElementsOf
    <2>8. Roots' \subseteq Heap \cup {o} /\ GlobalKeys' = GlobalKeys
      BY <1>2, <1>a, <2>7 DEF BuildKey, Roots, GlobalObjects, GlobalKeys
    <2>9. QED
      BY <1>2, <1>a, <1>b, <2>1, <2>6, <2>8, BirthStep
      DEF BuildKey, Born, Ask, Kinds, TypeOK
  <1>3. CASE BuildNative(o)
    <2>1. /\ Len(tempRoots) = 2 /\ tempRoots \in Seq(Objects)
          /\ job.key \in Objects /\ job.name = job.key
      BY <1>3 DEF BuildNative, TempRootsMatchJob, TempRootsAre, JobWellFormed,
                  TypeOK
    <2>4. Len(tempRoots') = 0
      BY <1>3, <2>1, PopTwice DEF BuildNative
    <2>5. TempRootsMatchJob' /\ JobWellFormed'
      BY <1>3, <2>4
      DEF BuildNative, Idle, TempRootsMatchJob, TempRootsAre, JobWellFormed
    <2>6. /\ GlobalKeys' = GlobalKeys \cup {job.key}
          /\ GlobalObjects' \subseteq GlobalObjects \cup {job.key, o}
      <3>1. globals' = {g \in globals : g[1] # job.key} \cup {<<job.key, o>>}
        BY <1>3 DEF BuildNative, WithGlobal
      <3>2. GlobalKeys' = GlobalKeys \cup {job.key}
        <4>1. <<job.key, o>> \in globals' /\ <<job.key, o>>[1] = job.key
          BY <3>1
        <4>2. ASSUME NEW g \in globals
              PROVE  g[1] \in GlobalKeys'
          BY <3>1, <4>1 DEF GlobalKeys
        <4>3. QED
          BY <3>1, <4>1, <4>2 DEF GlobalKeys
      <3>3. GlobalObjects' \subseteq GlobalObjects \cup {job.key, o}
        BY <3>1, <3>2 DEF GlobalObjects
      <3>4. QED
        BY <3>2, <3>3
    <2>7. job.key \in Heap
      BY <1>a, <2>1 DEF Locals
    <2>8. Roots' \subseteq Heap \cup {o}
      BY <1>3, <1>a, <1>c, <2>4, <2>6, <2>7 DEF BuildNative, Roots
    <2>9. /\ refs' \in [Objects -> SUBSET Objects] /\ refs'[o] = {}
          /\ \A x \in Objects : refs'[x] \subseteq Heap \cup {o}
          /\ \A x \in Objects \ {o} : refs'[x] = refs[x]
          /\ \A x \in Objects : \/ nameOf'[x] = nameOf[x]
                                \/ x = o /\ nameOf'[x] \in GlobalKeys'
      <3>1. refs' = [refs EXCEPT ![o] = {}] /\ nameOf' = [nameOf EXCEPT ![o] = job.name]
        BY <1>3 DEF BuildNative, Born
      <3>2. refs \in [Objects -> SUBSET Objects] /\ nameOf \in [Objects -> Objects \cup {NoObject}]
        BY DEF TypeOK
      <3>3. job.name \in GlobalKeys'
        BY <2>1, <2>6
      <3>4. \A x \in Objects : \/ nameOf'[x] = nameOf[x]
                               \/ x = o /\ nameOf'[x] \in GlobalKeys'
        BY <3>1, <3>2, <3>3
      <3>5. refs' \in [Objects -> SUBSET Objects] /\ refs'[o] = {}
        BY <3>1, <3>2
      <3>6. \A x \in Objects \ {o} : refs'[x] = refs[x]
        BY <3>1, <3>2
      <3>7. \A x \in Objects : refs'[x] \subseteq Heap \cup {o}
        BY <1>a, <3>5, <3>6
      <3>8. QED
        BY <3>4, <3>5, <3>6, <3>7
    <2>10. /\ phase = "build" /\ phase' = "boot" /\ o \notin Heap
           /\ kind' = [kind EXCEPT ![o] = "native"]
           /\ interned' = interned /\ UNCHANGED gcVars
      BY <1>3 DEF BuildNative, Born
    <2>11. HeapClosed' /\ NamesAreGlobals' /\ MarksClean' /\ TriColour'
           /\ SweepReady'
      BY <2>6, <2>8, <2>9, <2>10, BirthStep DEF Kinds
    <2>12. QED
      BY <1>b, <2>5, <2>11
  <1>4. CASE BuildFunction(o)
    <2>1. Len(tempRoots') = 0 /\ TempRootsMatchJob' /\ JobWellFormed'
      BY <1>4 DEF BuildFunction, Born, Finish, Idle, TempRootsMatchJob,
                  TempRootsAre, JobWellFormed
    <2>2. Roots' \subseteq Heap \cup {o} /\ GlobalKeys' = GlobalKeys
      BY <1>4, <1>a, <1>c, <2>1
      DEF BuildFunction, Roots, GlobalObjects, GlobalKeys
    <2>3. QED
      BY <1>4, <1>a, <1>b, <2>1, <2>2, BirthStep
      DEF BuildFunction, Born, Finish, Kinds, TypeOK
  <1>5. CASE BuildScript(o)
    <2>1. /\ Len(tempRoots) = 2 /\ tempRoots \in Seq(Objects)
          /\ job.arg \in Objects
      BY <1>5 DEF BuildScript, TempRootsMatchJob, TempRootsAre, JobWellFormed,
                  TypeOK
    <2>2. Len(tempRoots') = 0
      BY <1>5, <2>1, PopTwice DEF BuildScript
    <2>3. TempRootsMatchJob' /\ JobWellFormed'
      BY <1>5, <2>2
      DEF BuildScript, Finish, Idle, TempRootsMatchJob, TempRootsAre,
          JobWellFormed
    <2>4. Roots' \subseteq Heap \cup {o} /\ GlobalKeys' = GlobalKeys
      BY <1>5, <1>a, <1>c, <2>2
      DEF BuildScript, Roots, GlobalObjects, GlobalKeys
    <2>5. job.arg \in Heap
      BY <1>a, <2>1 DEF Locals
    <2>6. /\ refs' = [refs EXCEPT ![o] = {job.arg}]
          /\ kind' = [kind EXCEPT ![o] = "closure"]
          /\ phase = "build" /\ phase' \notin {"trace", "sweep"} /\ o \notin Heap
          /\ UNCHANGED <<interned, nameOf>> /\ UNCHANGED gcVars
      BY <1>5 DEF BuildScript, Born, Finish
    <2>7. /\ refs' \in [Objects -> SUBSET Objects]
          /\ \A x \in Objects : refs'[x] \subseteq Heap \cup {o}
          /\ \A x \in Objects \ {o} : refs'[x] = refs[x]
      BY <1>a, <2>1, <2>5, <2>6 DEF TypeOK
    <2>8. HeapClosed' /\ NamesAreGlobals' /\ MarksClean' /\ TriColour'
          /\ SweepReady'
      BY <2>4, <2>6, <2>7, BirthStep DEF Kinds
    <2>9. QED
      BY <1>b, <2>3, <2>8
  <1>6. CASE BuildClosure(o)
    <2>1. /\ Len(tempRoots) = 1 /\ tempRoots \in Seq(Objects)
          /\ job.arg \in Objects
      BY <1>6 DEF BuildClosure, TempRootsMatchJob, TempRootsAre, JobWellFormed,
                  TypeOK
    <2>2. Len(tempRoots') = 0
      BY <1>6, <2>1, PopOnce DEF BuildClosure
    <2>3. TempRootsMatchJob' /\ JobWellFormed'
      BY <1>6, <2>2
      DEF BuildClosure, Born, Idle, TempRootsMatchJob, TempRootsAre,
          JobWellFormed, TypeOK
    <2>4. Roots' \subseteq Heap \cup {o} /\ GlobalKeys' = GlobalKeys
      BY <1>6, <1>a, <1>c, <2>2
      DEF BuildClosure, Roots, GlobalObjects, GlobalKeys
    <2>5. job.arg \in Heap
      BY <1>a, <2>1 DEF Locals
    <2>6. /\ refs' = [refs EXCEPT ![o] = {job.arg}]
          /\ kind' = [kind EXCEPT ![o] = "closure"]
          /\ phase = "build" /\ phase' \notin {"trace", "sweep"} /\ o \notin Heap
          /\ UNCHANGED <<interned, nameOf>> /\ UNCHANGED gcVars
      BY <1>6 DEF BuildClosure, Born, Finish
    <2>7. /\ refs' \in [Objects -> SUBSET Objects]
          /\ \A x \in Objects : refs'[x] \subseteq Heap \cup {o}
          /\ \A x \in Objects \ {o} : refs'[x] = refs[x]
      BY <1>a, <2>1, <2>5, <2>6 DEF TypeOK
    <2>8. HeapClosed' /\ NamesAreGlobals' /\ MarksClean' /\ TriColour'
          /\ SweepReady'
      BY <2>4, <2>6, <2>7, BirthStep DEF Kinds
    <2>9. QED
      BY <1>b, <2>3, <2>8
  <1>7. CASE BuildUpvalue(o)
    <2>1. /\ Len(tempRoots) = 0 /\ job.arg \in rooted
          /\ kind[job.arg] = "closure"
      BY <1>7 DEF BuildUpvalue, TempRootsMatchJob, TempRootsAre, JobWellFormed
    <2>2. TempRootsMatchJob' /\ JobWellFormed'
      BY <1>7, <2>1
      DEF BuildUpvalue, TempRootsMatchJob, TempRootsAre, JobWellFormed, Heap,
          TypeOK
    <2>3. Roots' \subseteq Heap \cup {o} /\ GlobalKeys' = GlobalKeys
      BY <1>7, <1>a, <1>c, <2>1
      DEF BuildUpvalue, Roots, GlobalObjects, GlobalKeys
    <2>4. QED
      BY <1>7, <1>a, <1>b, <2>1, <2>2, <2>3, BirthStep
      DEF BuildUpvalue, Kinds, TypeOK
  <1>8. CASE BuildMap(o)
    <2>1. /\ Len(tempRoots) = IF job.arg = NoObject THEN 0 ELSE 1
          /\ tempRoots \in Seq(Objects)
      BY <1>8 DEF BuildMap, TempRootsMatchJob, TempRootsAre, TypeOK
    <2>2. Len(tempRoots') = 0
      BY <1>8, <2>1, PopOnce DEF BuildMap
    <2>3. TempRootsMatchJob' /\ JobWellFormed'
      BY <1>8, <2>2
      DEF BuildMap, Finish, Idle, TempRootsMatchJob, TempRootsAre, JobWellFormed
    <2>4. Roots' \subseteq Heap \cup {o} /\ GlobalKeys' = GlobalKeys
      BY <1>8, <1>a, <1>c, <2>2 DEF BuildMap, Roots, GlobalObjects, GlobalKeys
    <2>5. {job.arg} \ {NoObject} \subseteq Heap
      BY <1>a DEF Locals
    <2>6. QED
      BY <1>8, <1>a, <1>b, <2>3, <2>4, <2>5, BirthStep
      DEF BuildMap, Born, Finish, Kinds, TypeOK
  <1>9. QED
    BY <1>1, <1>2, <1>3, <1>4, <1>5, <1>6, <1>7, <1>8

(* What the program can reach, by the pointers ManagedHeap knows. *)
LEMMA ReachedWithin ==
  ASSUME NEW S \in SUBSET Objects, Held \subseteq S,
         \A o \in S : Uses[o] \subseteq S
  PROVE  Manager!Reachable \subseteq S
  BY DEF Manager!Reachable, Manager!ReachableFrom, Manager!ClosedUnder

LEMMA UsesTyped == TypeOK => Uses \in [Objects -> SUBSET Objects]
  BY DEF TypeOK, Uses

LEMMA HeldTyped == CollectorInv => Held \subseteq Heap /\ Held = Roots
  BY LocalsRooted DEF CollectorInv, HeapClosed, Held

(* The heap is closed: nothing reachable is off the list. *)
LEMMA HeapHoldsReachable == CollectorInv => Manager!NoDangling
  <1> SUFFICES ASSUME CollectorInv PROVE Manager!NoDangling
    OBVIOUS
  <1>1. \A o \in Heap : Uses[o] \subseteq Heap
    BY DEF CollectorInv, HeapClosed, NamesAreGlobals, Uses, Heap, Roots,
           GlobalObjects, TypeOK
  <1>2. Manager!Reachable \subseteq Heap
    BY <1>1, HeldTyped, ReachedWithin DEF Heap
  <1>3. QED
    BY <1>2, HeldTyped DEF Manager!NoDangling, CollectorInv, HeapClosed

(* What is taken out of a dead slot is on the list.                        *)
LEMMA TakenLives ==
  ASSUME ~Strays, CollectorInv, NEW v \in Objects, Takes(v)
  PROVE  v \in Heap /\ v \in Manager!Reachable
  BY HeapHoldsReachable DEF Takes, Manager!NoDangling

(* Everything the mutator does between collections keeps the invariant.    *)
LEMMA MutateStep == ~Strays /\ CollectorInv /\ TypeOK' /\ Mutate => CollectorInv'
  <1> SUFFICES ASSUME ~Strays, CollectorInv, TypeOK', Mutate PROVE CollectorInv'
    OBVIOUS
  <1>0. /\ TypeOK /\ TempRootsMatchJob /\ JobWellFormed /\ HeapClosed
        /\ NamesAreGlobals /\ MarksClean
    BY DEF CollectorInv
  <1> USE <1>0
  <1>a. /\ rooted \subseteq Heap /\ GlobalObjects \subseteq Heap
        /\ ElementsOf(tempRoots) \subseteq Heap /\ Interned \subseteq Heap
        /\ \A x \in Objects : refs[x] \subseteq Heap
    BY DEF HeapClosed, Roots
  <1>b. ASSUME TempRootsMatchJob', JobWellFormed', HeapClosed',
               NamesAreGlobals', MarksClean', TriColour', SweepReady'
        PROVE  CollectorInv'
    BY <1>b DEF CollectorInv
  <1>c. Len(tempRoots') = 0 => ElementsOf(tempRoots') = {}
    BY DEF ElementsOf
  <1>d. phase \in {"boot", "run", "capture"} =>
          Len(tempRoots) = 0 /\ tempRoots \in Seq(Objects)
    BY DEF JobWellFormed, TempRootsMatchJob, TempRootsAre, TypeOK
  <1>e. ASSUME UNCHANGED <<tempRoots, job>>
        PROVE  TempRootsMatchJob'
    BY <1>e DEF TempRootsMatchJob, TempRootsAre
  <1>1. ASSUME NEW c \in Names, FoundInterned(c) PROVE CollectorInv'
    <2>1. TempRootsMatchJob' /\ JobWellFormed'
      BY <1>1, <1>e DEF FoundInterned, JobWellFormed, heapVars
    <2>2. interned[c] \in Heap
      BY <1>1, <1>a DEF FoundInterned, Interned
    <2>3. Roots' \subseteq Heap /\ GlobalKeys' = GlobalKeys
      BY <1>1, <1>a, <2>2 DEF FoundInterned, Roots, GlobalObjects, GlobalKeys
    <2>4. QED
      BY <1>1, <1>b, <2>1, <2>3, QuietStep DEF FoundInterned
  <1>2. ASSUME NEW c \in Names, NewString(c) PROVE CollectorInv'
    <2>1. TempRootsMatchJob' /\ JobWellFormed'
      BY <1>2 DEF NewString, Begins, Ask, Idle, TempRootsMatchJob, TempRootsAre,
                  JobWellFormed, heapVars
    <2>2. Roots' \subseteq Heap /\ GlobalKeys' = GlobalKeys
      BY <1>2, <1>a DEF NewString, Roots, GlobalObjects, GlobalKeys, ElementsOf
    <2>3. QED
      BY <1>2, <1>b, <2>1, <2>2, QuietStep DEF NewString, Begins, Ask
  <1>3. ASSUME NEW b \in Builtins, DefineNative(b) PROVE CollectorInv'
    <2>1. TempRootsMatchJob' /\ JobWellFormed'
      BY <1>3 DEF DefineNative, Ask, Idle, TempRootsMatchJob, TempRootsAre,
                  JobWellFormed, heapVars
    <2>2. Roots' \subseteq Heap /\ GlobalKeys' = GlobalKeys
      BY <1>3, <1>a DEF DefineNative, Roots, GlobalObjects, GlobalKeys, ElementsOf
    <2>3. QED
      BY <1>3, <1>b, <2>1, <2>2, QuietStep DEF DefineNative, Ask
  <1>4. CASE BootDone \/ NewFunction \/ NewUpvalue \/ CaptureDone
    <2>1. TempRootsMatchJob' /\ JobWellFormed'
      <3>1. CASE BootDone \/ NewUpvalue
        BY <1>e, <3>1 DEF BootDone, NewUpvalue, JobWellFormed, heapVars
      <3>2. CASE NewFunction
        BY <1>d, <3>2 DEF NewFunction, Begins, Ask, Idle, TempRootsMatchJob,
                          TempRootsAre, JobWellFormed
      <3>3. CASE CaptureDone
        BY <1>d, <3>3 DEF CaptureDone, Finish, Idle, TempRootsMatchJob,
                          TempRootsAre, JobWellFormed
      <3>4. QED
        BY <1>4, <3>1, <3>2, <3>3
    <2>2. Roots' \subseteq Heap /\ GlobalKeys' = GlobalKeys
      BY <1>4, <1>a
      DEF BootDone, NewFunction, NewUpvalue, CaptureDone, Roots, GlobalObjects,
          GlobalKeys, ElementsOf
    <2>3. /\ phase \notin {"trace", "sweep"} /\ phase' \notin {"trace", "sweep"}
          /\ UNCHANGED heapVars /\ UNCHANGED gcVars
      BY <1>4
      DEF BootDone, NewFunction, NewUpvalue, CaptureDone, Begins, Finish, Ask
    <2>4. QED
      BY <1>b, <2>1, <2>2, <2>3, QuietStep
  <1>5. CASE ForceCollection
    <2>1. marked = {} /\ gray = {}
      BY <1>5 DEF ForceCollection, Begins, MarksClean
    <2>2. TempRootsMatchJob' /\ JobWellFormed'
      BY <1>5, <1>d
      DEF ForceCollection, Begins, Idle, TempRootsMatchJob, TempRootsAre,
          JobWellFormed, heapVars
    <2>3. Roots' = Roots /\ GlobalKeys' = GlobalKeys
      BY <1>5 DEF ForceCollection, Roots, GlobalObjects, GlobalKeys, ElementsOf
    <2>4. HeapClosed' /\ NamesAreGlobals'
      BY <1>5, <2>3
      DEF ForceCollection, heapVars, HeapClosed, Heap, Interned, NamesAreGlobals
    <2>5. MarksClean' /\ TriColour' /\ SweepReady'
      BY <1>5, <1>a, <2>1, <2>3, <2>4
      DEF ForceCollection, MarkRoots, MarksClean, TriColour, SweepReady,
          HeapClosed, Heap
    <2>6. QED
      BY <1>b, <2>2, <2>4, <2>5
  <1>6. ASSUME NEW f \in Objects, Interpret(f) PROVE CollectorInv'
    <2>1. tempRoots' = PushTemp(PushTemp(tempRoots, f), f)
      BY <1>6 DEF Interpret
    <2>0. Len(tempRoots) = 0 /\ tempRoots \in Seq(Objects)
      BY <1>6, <1>d DEF Interpret, Begins
    <2>2. Len(tempRoots') = 2 /\ \A i \in 1 .. 2 : tempRoots'[i] = f
      BY <2>0, <2>1, PushTwice, ZenonT(40)
    <2>3. ElementsOf(tempRoots') = {f}
      BY <2>2 DEF ElementsOf
    <2>4. TempRootsMatchJob' /\ JobWellFormed'
      BY <1>6, <2>2
      DEF Interpret, Begins, Ask, Idle, TempRootsMatchJob, TempRootsAre,
          JobWellFormed
    <2>5. Roots' \subseteq Heap /\ GlobalKeys' = GlobalKeys
      BY <1>6, <1>a, <2>3 DEF Interpret, Roots, GlobalObjects, GlobalKeys
    <2>6. QED
      BY <1>6, <1>b, <2>4, <2>5, QuietStep DEF Interpret, Begins, Ask
  <1>7. ASSUME NEW f \in Objects, NewClosure(f) PROVE CollectorInv'
    <2>1. Len(tempRoots') = 1 /\ tempRoots'[1] = f
      BY <1>7, <1>d, PushOnce DEF NewClosure, Begins
    <2>2. ElementsOf(tempRoots') = {f}
      BY <2>1 DEF ElementsOf
    <2>3. TempRootsMatchJob' /\ JobWellFormed'
      BY <1>7, <2>1
      DEF NewClosure, Begins, Ask, Idle, TempRootsMatchJob, TempRootsAre,
          JobWellFormed
    <2>4. f \in Heap
      BY <1>7 DEF NewClosure, Heap
    <2>5. Roots' \subseteq Heap /\ GlobalKeys' = GlobalKeys
      BY <1>7, <1>a, <2>2, <2>4
      DEF NewClosure, Roots, GlobalObjects, GlobalKeys
    <2>6. QED
      BY <1>7, <1>b, <2>3, <2>5, QuietStep DEF NewClosure, Begins, Ask
  <1>8. ASSUME NEW p \in Objects \cup {NoObject}, NewMap(p) PROVE CollectorInv'
    <2>1. CASE p = NoObject
      <3>1. tempRoots' = tempRoots
        BY <1>8, <2>1 DEF NewMap
      <3>2. TempRootsMatchJob' /\ JobWellFormed'
        BY <1>8, <1>d, <2>1, <3>1
        DEF NewMap, Begins, Ask, Idle, TempRootsMatchJob, TempRootsAre,
            JobWellFormed
      <3>3. Roots' \subseteq Heap /\ GlobalKeys' = GlobalKeys
        BY <1>8, <1>a, <3>1
        DEF NewMap, Roots, GlobalObjects, GlobalKeys, ElementsOf
      <3>4. QED
        BY <1>8, <1>b, <3>2, <3>3, QuietStep DEF NewMap, Begins, Ask
    <2>2. CASE p # NoObject
      <3>0. p \in Objects
        BY <2>2
      <3>1. Len(tempRoots') = 1 /\ tempRoots'[1] = p
        BY <1>8, <1>d, <2>2, <3>0, PushOnce DEF NewMap, Begins
      <3>2. ElementsOf(tempRoots') = {p}
        BY <3>1 DEF ElementsOf
      <3>3. TempRootsMatchJob' /\ JobWellFormed'
        BY <1>8, <2>2, <3>1
        DEF NewMap, Begins, Ask, Idle, TempRootsMatchJob, TempRootsAre,
            JobWellFormed
      <3>4. Roots' \subseteq Heap /\ GlobalKeys' = GlobalKeys
        BY <1>8, <1>a, <2>2, <3>2
        DEF NewMap, Roots, GlobalObjects, GlobalKeys
      <3>5. QED
        BY <1>8, <1>b, <3>3, <3>4, QuietStep DEF NewMap, Begins, Ask
    <2>3. QED
      BY <2>1, <2>2
  <1>9. ASSUME NEW o \in Objects, NEW v \in Objects, Push(o, v)
        PROVE  CollectorInv'
    <2>1. TempRootsMatchJob' /\ JobWellFormed'
      BY <1>9, <1>e DEF Push, JobWellFormed, heapVars
    <2>2. v \in Heap
      BY <1>9 DEF Push, Readable, IsValue, ValueKinds, Heap
    <2>3. Roots' \subseteq Heap /\ GlobalKeys' = GlobalKeys
      BY <1>9, <1>a, <2>2 DEF Push, Roots, GlobalObjects, GlobalKeys
    <2>4. QED
      BY <1>9, <1>b, <2>1, <2>3, QuietStep DEF Push
  <1>10. ASSUME NEW v \in Objects, GetGlobal(v) \/ Drop(v) PROVE CollectorInv'
    <2>1. TempRootsMatchJob' /\ JobWellFormed'
      BY <1>10, <1>e DEF GetGlobal, Drop, JobWellFormed, heapVars
    <2>2. Roots' \subseteq Roots /\ GlobalKeys' = GlobalKeys
      BY <1>10 DEF GetGlobal, Drop, Roots, GlobalObjects, GlobalKeys
    <2>3. QED
      BY <1>10, <1>b, <2>1, <2>2, QuietStep DEF GetGlobal, Drop, HeapClosed
  <1>11. ASSUME NEW m \in Objects, NEW v \in Objects, NEW old \in SUBSET refs[m],
                SetField(m, v, old)
         PROVE  CollectorInv'
    <2>1. (refs[m] \ old) \cup {v} \subseteq Heap
      BY <1>11, <1>a DEF SetField
    <2>2. JobWellFormed'
      BY <1>11 DEF SetField, Refer, JobWellFormed
    <2>3. QED
      BY <1>11, <1>b, <2>1, <2>2, ReferStep DEF SetField
  <1>12. ASSUME NEW u \in Objects, NEW v \in Objects \cup {NoObject},
                CloseUpvalue(u, v)
         PROVE  CollectorInv'
    <2>1. {v} \ {NoObject} \subseteq Heap
      BY <1>12, <1>a, TakenLives DEF CloseUpvalue, OnStack
    <2>2. JobWellFormed'
      BY <1>12 DEF CloseUpvalue, Refer, JobWellFormed
    <2>3. QED
      BY <1>12, <1>b, <2>1, <2>2, ReferStep DEF CloseUpvalue
  <1>13. ASSUME NEW c \in Objects, NEW u \in Objects,
                NEW v \in Objects \cup {NoObject}, SetUpvalue(c, u, v)
         PROVE  CollectorInv'
    <2>1. {v} \ {NoObject} \subseteq Heap
      BY <1>13, <1>a DEF SetUpvalue, OnStack
    <2>2. JobWellFormed'
      BY <1>13 DEF SetUpvalue, Refer, JobWellFormed
    <2>3. QED
      BY <1>13, <1>b, <2>1, <2>2, ReferStep DEF SetUpvalue
  <1>14. ASSUME NEW b \in Objects, NEW u \in Objects, ShareUpvalue(b, u)
         PROVE  CollectorInv'
    <2>1. job.op = "upvalue" /\ job.arg \in Objects /\ kind[job.arg] = "closure"
      BY <1>14 DEF ShareUpvalue, JobWellFormed, TypeOK
    <2>2. refs[job.arg] \cup {u} \subseteq Heap
      BY <1>14, <1>a, <2>1 DEF ShareUpvalue, Heap
    <2>3. JobWellFormed'
      BY <1>14 DEF ShareUpvalue, Refer, JobWellFormed
    <2>4. QED
      BY <1>14, <1>b, <2>1, <2>2, <2>3, ReferStep DEF ShareUpvalue
  <1>15. ASSUME NEW f \in Objects, NEW v \in Objects, AddConstant(f, v)
         PROVE  CollectorInv'
    <2>1. refs[f] \cup {v} \subseteq Heap
      BY <1>15, <1>a DEF AddConstant
    <2>2. JobWellFormed'
      BY <1>15 DEF AddConstant, Refer, JobWellFormed
    <2>3. QED
      BY <1>15, <1>b, <2>1, <2>2, ReferStep DEF AddConstant
  <1>16. ASSUME NEW k \in Objects, NEW v \in Objects \cup {NoObject},
                SetGlobal(k, v)
         PROVE  CollectorInv'
    <2>1. TempRootsMatchJob' /\ JobWellFormed'
      BY <1>16, <1>e DEF SetGlobal, JobWellFormed, heapVars
    <2>2. globals' = {g \in globals : g[1] # k} \cup {<<k, v>>}
      BY <1>16 DEF SetGlobal, WithGlobal
    <2>3. <<k, v>> \in globals' /\ <<k, v>>[1] = k
      BY <2>2
    <2>4. GlobalKeys \subseteq GlobalKeys'
      <3>1. ASSUME NEW g \in globals PROVE g[1] \in GlobalKeys'
        BY <2>2, <2>3 DEF GlobalKeys
      <3>2. QED
        BY <3>1 DEF GlobalKeys
    <2>5. GlobalObjects' \subseteq GlobalObjects \cup ({k, v} \ {NoObject})
      BY <2>2 DEF GlobalObjects, GlobalKeys
    <2>6. Roots' \subseteq Heap
      BY <1>16, <1>a, <2>5 DEF SetGlobal, OnStack, Roots
    <2>7. QED
      BY <1>16, <1>b, <2>1, <2>4, <2>6, QuietStep DEF SetGlobal
  <1>f. ASSUME UNCHANGED <<kind, refs, nameOf, interned>>, UNCHANGED gcVars,
               UNCHANGED <<globals, tempRoots, job, phase>>, phase = "run",
               rooted' \subseteq Heap
        PROVE  CollectorInv'
    <2>1. Roots' \subseteq Heap /\ GlobalKeys' = GlobalKeys
      BY <1>a, <1>f DEF Roots, GlobalObjects, GlobalKeys, ElementsOf
    <2>2. TempRootsMatchJob' /\ JobWellFormed'
      BY <1>e, <1>f DEF JobWellFormed
    <2>3. HeapClosed' /\ NamesAreGlobals'
      BY <1>f, <2>1 DEF HeapClosed, Heap, Interned, NamesAreGlobals
    <2>4. MarksClean' /\ TriColour' /\ SweepReady'
      BY <1>f DEF MarksClean, TriColour, SweepReady, gcVars
    <2>5. QED
      BY <1>b, <2>2, <2>3, <2>4
  <1>17. ASSUME NEW c \in Objects, NEW u \in Objects,
                NEW v \in Objects \cup {NoObject}, ReadLeft(c, u, v)
         PROVE  CollectorInv'
    <2>1. v \in Heap
      BY <1>17, TakenLives DEF ReadLeft
    <2>2. rooted' \subseteq Heap
      BY <1>17, <1>a, <2>1 DEF ReadLeft
    <2>3. QED
      BY <1>17, <1>f, <2>2 DEF ReadLeft, heapVars
  <1>18. ASSUME NEW u \in Objects, NEW v \in Objects \cup {NoObject},
                LeaveUpvalue(u, v) \/ SlotWritten(u, v)
         PROVE  CollectorInv'
    BY <1>18, <1>a, <1>f DEF LeaveUpvalue, SlotWritten
  <1>19. ASSUME NEW kept \in SUBSET rooted, NEW slots, ResetStack(kept, slots)
         PROVE  CollectorInv'
    BY <1>19, <1>a, <1>f DEF ResetStack
  <1>20. QED
    BY <1>1, <1>2, <1>3, <1>4, <1>5, <1>6, <1>7, <1>8, <1>9, <1>10, <1>11,
       <1>12, <1>13, <1>14, <1>15, <1>16, <1>17, <1>18, <1>19
    DEF Mutate
-----------------------------------------------------------------------------
LEMMA InvStep == ~Strays /\ CollectorInv /\ [Next]_vars => CollectorInv'
  <1> SUFFICES ASSUME ~Strays, CollectorInv, [Next]_vars PROVE CollectorInv'
    OBVIOUS
  <1>1. CASE UNCHANGED vars
    BY <1>1 DEF vars, CollectorInv, TypeOK, TempRootsMatchJob, TempRootsAre,
                JobWellFormed, HeapClosed, Roots, GlobalObjects, GlobalKeys,
                ElementsOf, Heap, Interned, NamesAreGlobals, MarksClean,
                TriColour, SweepReady
  <1>2. CASE Next
    BY <1>2, TypeStep, CollectStep, BuildStep, MutateStep DEF Next
  <1>3. QED
    BY <1>1, <1>2

(* The strengthening of the properties below is an invariant: temporary    *)
(* roots match the operation in progress, the heap names nothing off the   *)
(* list, and no black object names a white one.                            *)
THEOREM CollectorInvariant == ~Strays => (Spec => []CollectorInv)
  <1> SUFFICES ASSUME ~Strays PROVE Spec => []CollectorInv
    OBVIOUS
  <1>1. CollectorInv /\ [Next]_vars => CollectorInv'
    BY InvStep
  <1>2. QED
    BY <1>1, InitInv, PTL DEF Spec

(* Every variable keeps its type: a null pointer is never taken for an     *)
(* object by an allocation that ends.                                      *)
THEOREM CollectorTypeCorrect == ~Strays => (Spec => []TypeOK)
  <1>1. CollectorInv => TypeOK
    BY DEF CollectorInv
  <1>2. QED
    BY <1>1, CollectorInvariant, PTL
-----------------------------------------------------------------------------
(* The intern table, on top of the invariant above.                        *)

LEMMA InitIntern == Init => InternInv
  BY DEF Init, InternInv, ContentFresh, StringsInterned, Interned, Idle

LEMMA InternStep == CollectorInv /\ InternInv /\ [Next]_vars => InternInv'
  <1> SUFFICES ASSUME CollectorInv, InternInv, [Next]_vars PROVE InternInv'
    OBVIOUS
  <1>0. /\ TypeOK /\ JobWellFormed /\ HeapClosed /\ MarksClean
        /\ ContentFresh /\ StringsInterned
    BY DEF CollectorInv, InternInv
  <1> USE <1>0 DEF InternInv
  <1>1. CASE UNCHANGED vars
    BY <1>1 DEF vars, ContentFresh, StringsInterned, Interned, GlobalKeys
  <1>2. CASE MaybeCollect \/ \E o \in Objects : Blacken(o)
    BY <1>2 DEF MaybeCollect, Blacken, heapVars, ContentFresh, StringsInterned,
                Interned, GlobalKeys
  <1>3. CASE RemoveWhite
    <2>1. Interned' = Interned \cap marked
      BY <1>3 DEF RemoveWhite, WithoutWhite, Interned, HeapClosed, Heap
    <2>2. ContentFresh'
      <3>1. GlobalKeys' = GlobalKeys /\ UNCHANGED <<job, globals>>
        BY <1>3 DEF RemoveWhite, GlobalKeys
      <3>2. interned[job.content] = NoObject => interned'[job.content] = NoObject
        BY <1>3 DEF RemoveWhite, WithoutWhite, TypeOK
      <3>3. phase' # "boot" /\ Interned' \subseteq Interned
        BY <1>3, <2>1 DEF RemoveWhite
      <3>4. QED
        BY <3>1, <3>2, <3>3 DEF ContentFresh
    <2>3. StringsInterned'
      BY <1>3, <2>1 DEF RemoveWhite, StringsInterned
    <2>4. QED
      BY <2>2, <2>3
  <1>4. CASE Sweep
    <2>1. Interned' = Interned
      BY <1>4 DEF Sweep, Interned
    <2>2. ContentFresh'
      BY <1>4, <2>1 DEF Sweep, ContentFresh, GlobalKeys, Idle
    <2>3. StringsInterned'
      BY <1>4, <2>1 DEF Sweep, StringsInterned, Garbage, Heap
    <2>4. QED
      BY <2>2, <2>3
  <1>5. CASE Build
    <2> PICK o \in Objects : \/ BuildString(o) \/ BuildKey(o) \/ BuildNative(o)
                             \/ BuildFunction(o) \/ BuildScript(o)
                             \/ BuildClosure(o) \/ BuildUpvalue(o) \/ BuildMap(o)
      BY <1>5 DEF Build
    <2>1. CASE BuildString(o) \/ BuildKey(o)
      <3>1. /\ interned' = [interned EXCEPT ![job.content] = o]
            /\ kind' = [kind EXCEPT ![o] = "string"]
            /\ interned[job.content] = NoObject
            /\ phase = "build" /\ phase' # "sweep"
        BY <2>1 DEF BuildString, BuildKey, Born, Finish, Ask, ContentFresh
      <3>2. Interned' = Interned \cup {o}
        <4>1. \A c \in Names : interned'[c] = IF c = job.content THEN o
                                              ELSE interned[c]
          BY <3>1 DEF TypeOK
        <4>2. job.content \in Names
          BY DEF TypeOK
        <4>3. QED
          BY <3>1, <4>1, <4>2 DEF Interned
      <3>3. StringsInterned'
        BY <3>1, <3>2 DEF StringsInterned, TypeOK
      <3>4. ContentFresh'
        <4>1. CASE BuildString(o)
          BY <4>1 DEF BuildString, Finish, Idle, ContentFresh
        <4>2. CASE BuildKey(o)
          <5>1. job'.key = o /\ job'.op = "native" /\ globals' = globals
            BY <4>2 DEF BuildKey, Ask, TypeOK
          <5>2. job.op = "key" /\ job.key = NoObject
            BY <4>2 DEF BuildKey, JobWellFormed
          <5>3. NoObject \notin Interned
            BY DEF Interned
          <5>4. QED
            BY <3>2, <5>1, <5>2, <5>3 DEF ContentFresh, GlobalKeys
        <4>3. QED
          BY <2>1, <4>1, <4>2
      <3>5. QED
        BY <3>3, <3>4
    <2>2. CASE BuildNative(o)
      <3>1. Interned' = Interned /\ job.op = "native" /\ job'.key = NoObject
        BY <2>2 DEF BuildNative, Interned, Idle
      <3>2. globals' = {g \in globals : g[1] # job.key} \cup {<<job.key, o>>}
        BY <2>2 DEF BuildNative, WithGlobal
      <3>3. GlobalKeys \cup {job.key} \subseteq GlobalKeys'
        <4>1. <<job.key, o>> \in globals' /\ <<job.key, o>>[1] = job.key
          BY <3>2
        <4>2. ASSUME NEW g \in globals PROVE g[1] \in GlobalKeys'
          BY <3>2, <4>1 DEF GlobalKeys
        <4>3. QED
          BY <4>1, <4>2 DEF GlobalKeys
      <3>4. ContentFresh'
        BY <2>2, <3>1, <3>3 DEF BuildNative, Idle, ContentFresh
      <3>5. StringsInterned'
        BY <2>2, <3>1 DEF BuildNative, Born, StringsInterned, TypeOK
      <3>6. QED
        BY <3>4, <3>5
    <2>3. CASE \/ BuildFunction(o) \/ BuildScript(o) \/ BuildClosure(o)
               \/ BuildUpvalue(o) \/ BuildMap(o)
      <3>1. /\ Interned' = Interned /\ globals' = globals
            /\ phase = "build" /\ phase' \notin {"sweep", "boot"}
            /\ job'.op \in {"none", "upvalue"}
            /\ \A x \in Objects : kind'[x] = "string" => kind[x] = "string"
        <4>1. CASE BuildFunction(o)
          BY <4>1 DEF BuildFunction, Born, Finish, Idle, Interned, TypeOK
        <4>2. CASE BuildScript(o)
          BY <4>2 DEF BuildScript, Born, Finish, Idle, Interned, TypeOK
        <4>3. CASE BuildClosure(o)
          BY <4>3 DEF BuildClosure, Born, Idle, Interned, TypeOK
        <4>4. CASE BuildUpvalue(o)
          BY <4>4 DEF BuildUpvalue, Interned, TypeOK
        <4>5. CASE BuildMap(o)
          BY <4>5 DEF BuildMap, Born, Finish, Idle, Interned, TypeOK
        <4>6. QED
          BY <2>3, <4>1, <4>2, <4>3, <4>4, <4>5
      <3>2. QED
        BY <3>1 DEF ContentFresh, StringsInterned
    <2>4. QED
      BY <2>1, <2>2, <2>3
  <1>6. CASE Mutate
    <2>1. UNCHANGED <<kind, interned>> /\ phase # "sweep" /\ phase' # "sweep"
      BY <1>6 DEF Mutate, FoundInterned, NewString, DefineNative, BootDone,
                  NewFunction, NewUpvalue, CaptureDone, ForceCollection,
                  Interpret, NewClosure, GetGlobal, Drop, NewMap, Push,
                  CloseUpvalue, AddConstant, ShareUpvalue, SetField, SetUpvalue,
                  LeaveUpvalue, ResetStack, ReadLeft, SlotWritten,
                  SetGlobal, Refer, heapVars, Begins, Ask, Finish
    <2>2. StringsInterned'
      BY <2>1 DEF StringsInterned, Interned
    <2>3. ContentFresh'
      <3>1. ASSUME NEW c \in Names, NewString(c) PROVE ContentFresh'
        BY <3>1 DEF NewString, Begins, Ask, Idle, heapVars, ContentFresh
      <3>2. ASSUME NEW b \in Builtins, DefineNative(b) PROVE ContentFresh'
        <4>1. Interned \subseteq GlobalKeys \cup {NoObject} /\ job.key = NoObject
          BY <3>2 DEF DefineNative, ContentFresh, JobWellFormed
        <4>2. interned[b] = NoObject
          BY <3>2, <4>1, BuiltinsAssumption DEF DefineNative, Registered, Interned
        <4>3. QED
          BY <3>2, <4>1, <4>2, <2>1
          DEF DefineNative, Ask, Idle, ContentFresh, Interned, GlobalKeys
      <3>3. CASE /\ UNCHANGED job \/ job'.op \notin {"string", "key", "native"}
                 /\ phase' # "boot"
                 /\ job.op \notin {"string", "key", "native"}
        BY <2>1, <3>3 DEF ContentFresh
      <3>4. \/ \E c \in Names : NewString(c)
            \/ \E b \in Builtins : DefineNative(b)
            \/ NewUpvalue
            \/ /\ UNCHANGED job \/ job'.op \notin {"string", "key", "native"}
               /\ phase \in {"boot", "run", "capture"} /\ phase' # "boot"
        <4> DEFINE Other ==
              /\ UNCHANGED job \/ job'.op \notin {"string", "key", "native"}
              /\ phase \in {"boot", "run", "capture"} /\ phase' # "boot"
        <4>1. (\E c \in Names : FoundInterned(c)) => Other
          BY DEF FoundInterned
        <4>2. (BootDone \/ NewFunction \/ CaptureDone \/ ForceCollection) => Other
          BY DEF BootDone, NewFunction, CaptureDone, ForceCollection, Begins,
                 Ask, Finish, Idle
        <4>3. (\E o \in Objects : Interpret(o) \/ NewClosure(o)) => Other
          BY DEF Interpret, NewClosure, Begins, Ask, Idle
        <4>4. (\E o \in Objects : GetGlobal(o) \/ Drop(o)) => Other
          BY DEF GetGlobal, Drop
        <4>5. (\E q \in Objects \cup {NoObject} : NewMap(q)) => Other
          BY DEF NewMap, Begins, Ask, Idle
        <4>6. (\E o, v \in Objects : Push(o, v)) => Other
          BY DEF Push
        <4>7. (\E o, v \in Objects : AddConstant(o, v) \/ ShareUpvalue(o, v))
                => Other
          BY DEF AddConstant, ShareUpvalue, Refer
        <4>8. (\E m, v \in Objects : \E old \in SUBSET refs[m] : SetField(m, v, old))
                => Other
          BY DEF SetField, Refer
        <4>9. (\E c, u \in Objects, v \in Objects \cup {NoObject} :
                  SetUpvalue(c, u, v) \/ ReadLeft(c, u, v)) => Other
          BY DEF SetUpvalue, ReadLeft, Refer
        <4>10. (\E k \in Objects, v \in Objects \cup {NoObject} : SetGlobal(k, v))
                 => Other
          BY DEF SetGlobal
        <4>11. (\E u \in Objects, v \in Objects \cup {NoObject} :
                  \/ LeaveUpvalue(u, v) \/ SlotWritten(u, v)
                  \/ CloseUpvalue(u, v)) => Other
          BY DEF LeaveUpvalue, SlotWritten, CloseUpvalue, Refer
        <4>12. (\E kept \in SUBSET rooted :
                  \E slots \in [{u \in rooted \ Left : kind[u] = "upvalue"}
                                  -> Objects \cup {NoObject}] :
                     ResetStack(kept, slots)) => Other
          BY DEF ResetStack
        <4> HIDE DEF Other
        <4>13. \/ \E c \in Names : NewString(c)
               \/ \E b \in Builtins : DefineNative(b)
               \/ NewUpvalue \/ Other
          BY <1>6, <4>1, <4>2, <4>3, <4>4, <4>5, <4>6, <4>7, <4>8, <4>9, <4>10,
             <4>11, <4>12
          DEF Mutate
        <4>14. QED
          BY <4>13 DEF Other
      <3>5. CASE NewUpvalue
        BY <3>5, <3>3 DEF NewUpvalue, JobWellFormed
      <3>6. CASE phase \in {"boot", "run", "capture"}
        <4>1. job.op \notin {"string", "key", "native"}
          BY <3>6 DEF JobWellFormed
        <4>2. QED
          BY <3>1, <3>2, <3>3, <3>4, <3>5, <4>1
      <3>7. QED
        BY <3>1, <3>2, <3>4, <3>5, <3>6
    <2>4. QED
      BY <2>2, <2>3
  <1>7. QED
    BY <1>1, <1>2, <1>3, <1>4, <1>5, <1>6 DEF Next, Collect

(* A string about to be made is not in the intern table, and every string  *)
(* that is going to survive is: so no contents is ever held twice.         *)
THEOREM InternInvariant == ~Strays => (Spec => []InternInv)
  BY InitIntern, InternStep, CollectorInvariant, PTL DEF Spec

(* Between operations the live strings are exactly those the intern table  *)
(* lists, one for each contents.                                           *)
THEOREM CollectorInternsStrings == ~Strays => (Spec => []LiveStringsInterned)
  <1>1. CollectorInv /\ InternInv => LiveStringsInterned
    BY DEF CollectorInv, InternInv, StringsInterned, LiveStringsInterned,
           HeapClosed, Interned, Heap
  <1>2. QED
    BY <1>1, CollectorInvariant, InternInvariant, PTL
-----------------------------------------------------------------------------
(* The count of bytes and the threshold.                                   *)

LEMMA HeapIsFinite == IsFiniteSet(Heap) /\ Cardinality(Heap) \in Nat
  <1>1. Heap \in SUBSET Objects
    BY DEF Heap
  <1>2. QED
    BY <1>1, ObjectsAssumption, FS_Subset, FS_CardinalityType

(* A birth is counted.                                                     *)
LEMMA BirthCounted ==
  ASSUME HeapBounded, bytes < nextGC, bytes \in Nat, nextGC \in Nat,
         NEW o \in Objects, o \notin Heap, kind \in [Objects -> Kinds],
         NEW k \in Kinds \ {"free"}, kind' = [kind EXCEPT ![o] = k],
         bytes' = bytes + 1, nextGC' = nextGC, phase' # "build"
  PROVE  BoundInv'
  <1>1. Heap' = Heap \cup {o}
    BY DEF Heap
  <1>2. Cardinality(Heap') = Cardinality(Heap) + 1
    BY <1>1, HeapIsFinite, FS_AddElement
  <1>3. QED
    BY <1>2 DEF BoundInv, HeapBounded

(* Whatever moves references only leaves the count alone.                  *)
LEMMA CountStays ==
  ASSUME BoundInv, UNCHANGED <<kind, bytes, nextGC>>,
         phase' = "build" => phase = "build"
  PROVE  BoundInv'
  BY DEF BoundInv, HeapBounded, Heap

LEMMA BuildBounded ==
  ASSUME TypeOK, BoundInv, Build PROVE BoundInv'
  <1> PICK o \in Objects : \/ BuildString(o) \/ BuildKey(o) \/ BuildNative(o)
                           \/ BuildFunction(o) \/ BuildScript(o)
                           \/ BuildClosure(o) \/ BuildUpvalue(o) \/ BuildMap(o)
    BY DEF Build
  <1>1. /\ phase = "build" /\ o \notin Heap /\ bytes' = bytes + 1 /\ nextGC' = nextGC
        /\ \E k \in Kinds \ {"free"} : kind' = [kind EXCEPT ![o] = k]
        /\ phase' # "build"
    BY DEF BuildString, BuildKey, BuildNative, BuildFunction, BuildScript, BuildClosure,
           BuildUpvalue, BuildMap, Born, Finish, Ask, gcVars, Kinds
  <1>2. QED
    BY <1>1, BirthCounted DEF BoundInv, TypeOK

LEMMA MutateBounded ==
  ASSUME BoundInv, Mutate PROVE BoundInv'
  <1>1. UNCHANGED <<kind, bytes, nextGC>> /\ (phase' = "build" => phase = "build")
    BY ZenonT(60)
       DEF Mutate, FoundInterned, NewString, DefineNative, BootDone, NewFunction,
           NewUpvalue, CaptureDone, ForceCollection, Interpret, NewClosure, GetGlobal,
           Drop, NewMap, Push, CloseUpvalue, AddConstant, ShareUpvalue, SetField,
           LeaveUpvalue, ResetStack, ReadLeft, SlotWritten, SetUpvalue, SetGlobal,
           Refer, Ask, Finish, heapVars, gcVars
  <1>2. QED
    BY <1>1, CountStays

(* A collection counts what it frees, and sets a threshold that leaves room*)
(* for one more object.                                                    *)
LEMMA CollectBounded ==
  ASSUME TypeOK, BoundInv, Collect PROVE BoundInv'
  <1>1. bytes \in Nat /\ nextGC \in Nat /\ kind \in [Objects -> Kinds]
    BY DEF TypeOK
  <1>2. CASE MaybeCollect
    BY <1>1, <1>2 DEF MaybeCollect, heapVars, BoundInv, HeapBounded, Heap
  <1>3. CASE RemoveWhite \/ \E o \in Objects : Blacken(o)
    BY <1>3, CountStays DEF RemoveWhite, Blacken, heapVars
  <1>4. CASE Sweep
    <2>1. Heap' = Heap \ Garbage /\ Garbage \in SUBSET Heap
      BY <1>1, <1>4 DEF Sweep, Heap, Garbage, Kinds
    <2>2. /\ Heap' = Heap \ Garbage /\ IsFiniteSet(Garbage)
          /\ Heap = Heap' \cup Garbage /\ Heap' \cap Garbage = {}
          /\ Heap' \in SUBSET Heap
      BY <2>1, HeapIsFinite, FS_Subset
    <2>3. /\ IsFiniteSet(Heap') /\ Cardinality(Heap') \in Nat
          /\ Cardinality(Garbage) \in Nat
      BY <2>2, HeapIsFinite, FS_Subset, FS_CardinalityType
    <2>4. Cardinality(Heap) = Cardinality(Heap') + Cardinality(Garbage)
      <3>1. Cardinality(Heap' \cup Garbage)
              = Cardinality(Heap') + Cardinality(Garbage) - Cardinality(Heap' \cap Garbage)
        BY <2>2, <2>3, FS_Union
      <3>2. Cardinality(Heap' \cap Garbage) = 0
        BY <2>2, FS_EmptySet
      <3>3. Cardinality(Heap) = Cardinality(Heap' \cup Garbage)
        BY <2>2
      <3>4. QED
        BY <2>3, <3>1, <3>2, <3>3
    <2>5. bytes' = Cardinality(Heap')
      BY <1>4, <2>3, <2>4 DEF Sweep, BytesAfterSweep, BoundInv, HeapBounded
    <2>6. nextGC' = IF 2 * bytes' < Threshold THEN Threshold ELSE 2 * bytes'
      BY <1>4 DEF Sweep, NewThreshold
    <2>7. bytes' < nextGC'
      BY <2>3, <2>5, <2>6, ThresholdAssumption
    <2>8. bytes' <= nextGC'
      BY <2>3, <2>5, <2>6, ThresholdAssumption
    <2>9. QED
      BY <2>5, <2>7, <2>8 DEF BoundInv, HeapBounded
  <1>5. QED
    BY <1>2, <1>3, <1>4 DEF Collect

LEMMA InitBounded == Init => BoundInv
  <1> SUFFICES ASSUME Init PROVE BoundInv
    OBVIOUS
  <1>1. Heap = {} /\ bytes = 0 /\ nextGC = Threshold /\ phase = "boot"
    BY DEF Init, Heap
  <1>2. QED
    BY <1>1, FS_EmptySet, ThresholdAssumption DEF BoundInv, HeapBounded

LEMMA BoundStep == TypeOK /\ BoundInv /\ [Next]_vars => BoundInv'
  <1> SUFFICES ASSUME TypeOK, BoundInv, [Next]_vars PROVE BoundInv'
    OBVIOUS
  <1>1. CASE UNCHANGED vars
    BY <1>1, CountStays DEF vars
  <1>2. QED
    BY <1>1, CollectBounded, BuildBounded, MutateBounded DEF Next

(* The object an allocation was admitted for fits below the threshold.     *)
THEOREM BoundInvariant == ~Strays => (Spec => []BoundInv)
  <1>1. CollectorInv => TypeOK
    BY DEF CollectorInv
  <1>2. QED
    BY <1>1, InitBounded, BoundStep, CollectorInvariant, PTL DEF Spec

(* The count of bytes is exact, and never above the threshold that the last*)
(* collection set from what was alive.                                     *)
THEOREM CollectorBounded == ~Strays => (Spec => []HeapBounded)
  <1>1. BoundInv => HeapBounded
    BY DEF BoundInv
  <1>2. QED
    BY <1>1, BoundInvariant, PTL

-----------------------------------------------------------------------------
(* The collector keeps the promises of ManagedHeap. *)

(* The invariant of the refinement: what C++ locals name is rooted anyway. *)
RefinementInv == CollectorInv /\ InternInv /\ Held = Roots

LEMMA ReachedClosed ==
  CollectorInv => /\ Held \subseteq Manager!Reachable
                  /\ \A o \in Manager!Reachable : Uses[o] \subseteq Manager!Reachable
                  /\ Manager!Reachable \subseteq Objects
  <1> SUFFICES ASSUME CollectorInv
               PROVE  /\ Held \subseteq Manager!Reachable
                      /\ \A o \in Manager!Reachable :
                            Uses[o] \subseteq Manager!Reachable
                      /\ Manager!Reachable \subseteq Objects
    OBVIOUS
  <1>1. Held \subseteq Objects /\ Uses \in [Objects -> SUBSET Objects]
    BY HeldTyped, UsesTyped DEF CollectorInv, Heap
  <1>2. Held \subseteq Manager!Reachable
    BY <1>1
    DEF Manager!Reachable, Manager!ReachableFrom, Manager!ClosedUnder
  <1>3. ASSUME NEW o \in Manager!Reachable, NEW v \in Uses[o]
        PROVE  v \in Manager!Reachable
    <2>1. o \in Objects /\ v \in Objects
      BY <1>1 DEF Manager!Reachable, Manager!ReachableFrom
    <2>2. ASSUME NEW S \in SUBSET Objects, Held \subseteq S,
                 Manager!ClosedUnder(S, Uses)
          PROVE  v \in S
      BY <2>2 DEF Manager!Reachable, Manager!ReachableFrom, Manager!ClosedUnder
    <2>3. QED
      BY <2>1, <2>2 DEF Manager!Reachable, Manager!ReachableFrom
  <1>4. QED
    BY <1>2, <1>3 DEF Manager!Reachable, Manager!ReachableFrom

(* As long as nothing is taken out of a dead slot that only the slot named,*)
(* no pointer of a root, a C++ local, a field, a native or the intern table*)
(* leads to freed memory, whichever allocation a collection falls into:    *)
(* gc.cpp's roots and the temporary roots of the allocating functions are  *)
(* enough but for upvalues whose slot was dropped under them.              *)
THEOREM CollectorNeverDangles == ~Strays => (Spec => []NoDangling)
  <1>1. CollectorInv => NoDangling
    BY HeapHoldsReachable DEF NoDangling
  <1>2. QED
    BY <1>1, CollectorInvariant, PTL
-----------------------------------------------------------------------------
(* When tracing is over the marked objects are closed, the names of marked *)
(* natives included: those are keys of the globals, which are roots.       *)
LEMMA MarkedHoldsReachable ==
  CollectorInv /\ phase \in {"trace", "sweep"} /\ gray = {}
    => Manager!Reachable \subseteq marked
  <1> SUFFICES ASSUME CollectorInv, phase \in {"trace", "sweep"}, gray = {}
               PROVE  Manager!Reachable \subseteq marked
    OBVIOUS
  <1>1. marked \subseteq Objects /\ Held \subseteq marked
    BY HeldTyped DEF CollectorInv, TriColour, TypeOK
  <1>2. \A o \in marked : Uses[o] \subseteq marked
    BY <1>1
    DEF CollectorInv, TriColour, NamesAreGlobals, Uses, Roots, GlobalObjects,
        TypeOK
  <1>3. QED
    BY <1>1, <1>2, ReachedWithin
-----------------------------------------------------------------------------
LEMMA InitRefines == Init => Manager!HeapInit
  <1> SUFFICES ASSUME Init PROVE Manager!HeapInit
    OBVIOUS
  <1>1. Roots = {} /\ Interned = {} /\ Locals = {}
    BY DEF Init, Roots, Interned, GlobalObjects, GlobalKeys, ElementsOf, Locals,
           Idle
  <1>2. QED
    BY <1>1 DEF Init, Manager!HeapInit, Heap, Uses, Held

(* Marking changes nothing the program can see. *)
LEMMA CollectRefines ==
  ASSUME RefinementInv, RefinementInv', Collect
  PROVE  Manager!Forget \/ Manager!Reclaim \/ UNCHANGED Manager!heapVars
  <1>1. UNCHANGED <<rooted, globals, tempRoots>>
    BY DEF Collect, MaybeCollect, RemoveWhite, Sweep, Blacken
  <1>2. Held' = Held
    BY <1>1 DEF RefinementInv, Roots, GlobalObjects, GlobalKeys, ElementsOf
  <1>3. ASSUME MaybeCollect \/ \E o \in Objects : Blacken(o)
        PROVE  UNCHANGED Manager!heapVars
    BY <1>2, <1>3 DEF MaybeCollect, Blacken, heapVars, Heap, Uses, Interned,
                      Manager!heapVars
  <1>4. CASE RemoveWhite
    <2>1. Manager!Reachable \subseteq marked
      BY <1>4, MarkedHoldsReachable DEF RemoveWhite, RefinementInv
    <2>2. Interned' \subseteq Interned
      BY <1>4 DEF RemoveWhite, WithoutWhite, Interned
    <2>3. ASSUME NEW w \in Interned, w \notin Interned' PROVE w \notin marked
      BY <1>4, <2>3 DEF RemoveWhite, WithoutWhite, Interned
    <2>4. Heap' = Heap /\ Uses' = Uses
      BY <1>4 DEF RemoveWhite, Heap, Uses
    <2>5. QED
      BY <1>2, <2>1, <2>2, <2>3, <2>4 DEF Manager!Forget
  <1>5. CASE Sweep
    <2>1. /\ Manager!Reachable \subseteq marked /\ Interned \subseteq marked
          /\ Interned' = Interned
      BY <1>5, MarkedHoldsReachable
      DEF RefinementInv, Sweep, CollectorInv, SweepReady, Interned
    <2>2. Heap' = Heap \ Garbage
      BY <1>5 DEF Sweep, Heap, Garbage
    <2>3. Uses' = [o \in Objects |-> IF o \in Heap \ Heap' THEN {} ELSE Uses[o]]
      BY <1>5, <2>2 DEF Sweep, Uses, Garbage
    <2>4. QED
      BY <1>2, <2>1, <2>2, <2>3 DEF Manager!Reclaim, Garbage
  <1>6. QED
    BY <1>3, <1>4, <1>5 DEF Collect

LEMMA InternedGrows ==
  ASSUME TypeOK, NEW o \in Objects, interned[job.content] = NoObject,
         interned' = [interned EXCEPT ![job.content] = o]
  PROVE  Interned' = Interned \cup {o}
  <1>1. job.content \in Names
    BY DEF TypeOK
  <1>2. \A c \in Names : interned'[c] = IF c = job.content THEN o ELSE interned[c]
    BY DEF TypeOK
  <1>3. o # NoObject
    BY NoObjectAssumption
  <1>4. QED
    BY <1>1, <1>2, <1>3 DEF Interned

LEMMA PushedElements ==
  ASSUME NEW s \in Seq(Objects), NEW o \in Objects
  PROVE  ElementsOf(PushTemp(PushTemp(s, o), o)) \subseteq ElementsOf(s) \cup {o}
  <1>1. ASSUME NEW t \in Seq(Objects)
        PROVE  /\ ElementsOf(PushTemp(t, o)) \subseteq ElementsOf(t) \cup {o}
               /\ PushTemp(t, o) \in Seq(Objects)
    BY DEF PushTemp, ElementsOf
  <1>2. QED
    BY <1>1

LEMMA PoppedElements ==
  ASSUME NEW s \in Seq(Objects)
  PROVE  /\ ElementsOf(PopTemp(s)) \subseteq ElementsOf(s)
         /\ ElementsOf(PopTemp(PopTemp(s))) \subseteq ElementsOf(s)
  <1>1. ASSUME NEW t \in Seq(Objects)
        PROVE  /\ ElementsOf(PopTemp(t)) \subseteq ElementsOf(t)
               /\ PopTemp(t) \in Seq(Objects)
    BY DEF PopTemp, ElementsOf
  <1>2. QED
    BY <1>1

(* A new object is named by what could be reached before, or by a root.    *)
LEMMA BuildRefines ==
  ASSUME RefinementInv, RefinementInv', Build
  PROVE  \E o \in Objects : Manager!Allocate(o)
  <1> PICK o \in Objects : \/ BuildString(o) \/ BuildKey(o) \/ BuildNative(o)
                           \/ BuildFunction(o) \/ BuildScript(o)
                           \/ BuildClosure(o) \/ BuildUpvalue(o) \/ BuildMap(o)
    BY DEF Build
  <1>0. /\ TypeOK /\ TypeOK' /\ JobWellFormed /\ HeapClosed /\ NamesAreGlobals
        /\ Interned \subseteq Heap /\ CollectorInv
    BY DEF RefinementInv, CollectorInv, HeapClosed
  <1> USE <1>0
  <1>1. /\ o \notin Heap /\ Heap' = Heap \cup {o}
    BY DEF BuildString, BuildKey, BuildNative, BuildFunction, BuildScript,
           BuildClosure, BuildUpvalue, BuildMap, Born, Heap, TypeOK
  <1>2. Held \subseteq Manager!Reachable /\ Held = Roots /\ Held' = Roots'
        /\ Locals \subseteq Held
    BY ReachedClosed DEF Held, RefinementInv
  <1>3. \A x \in Objects : kind[x] \in {"free", "string", "native"} => refs[x] = {}
    BY DEF HeapClosed
  <1>4. refs[o] = {} /\ nameOf[o] = NoObject
    BY <1>1, <1>3 DEF Heap, NamesAreGlobals, TypeOK
  <1>5. \A w \in Interned : w \in Objects /\ kind[w] = "string"
    BY DEF Interned, HeapClosed, TypeOK
  <1> DEFINE R == Manager!Reachable
  <1>6. R \subseteq Objects /\ \A x \in R : Uses[x] \subseteq R
    BY ReachedClosed
  <1> HIDE DEF R
  <1> SUFFICES /\ Held' \subseteq R \cup {o}
               /\ \/ Interned' = Interned
                  \/ Interned' = Interned \cup {o} /\ Uses'[o] = {}
               /\ Uses'[o] \subseteq R \cup {o}
               /\ \A x \in Objects \ {o} :
                    \/ Uses'[x] = Uses[x]
                    \/ /\ x \in R /\ kind[x] = "closure"
                       /\ Uses'[x] \subseteq R \cup {o}
    <2>1. Uses' \in [Objects -> SUBSET Objects]
      BY DEF Uses, TypeOK
    <2>2. \A w \in Interned : w # o
      BY <1>1
    <2>3. QED
      BY <1>1, <1>5, <2>1, <2>2
      DEF Manager!Allocate, Manager!Rewires, R
  <1>7. CASE BuildString(o)
    <2>1. Held' \subseteq R \cup {o}
      BY <1>2, <1>7 DEF BuildString, Roots, GlobalObjects, GlobalKeys, ElementsOf, R
    <2>2. Uses' = Uses /\ Uses[o] = {}
      BY <1>4, <1>7 DEF BuildString, Born, Uses, TypeOK
    <2>3. interned[job.content] = NoObject
      BY <1>7 DEF BuildString, RefinementInv, InternInv, ContentFresh
    <2>4. Interned' = Interned \cup {o}
      BY <1>7, <2>3, InternedGrows DEF BuildString
    <2>5. QED
      BY <2>1, <2>2, <2>4
  <1>8. CASE BuildKey(o)
    <2>1. ElementsOf(tempRoots') \subseteq ElementsOf(tempRoots) \cup {o}
      <3>1. tempRoots' = PushTemp(PushTemp(tempRoots, o), o)
        BY <1>8 DEF BuildKey, TypeOK
      <3>2. QED
        BY <3>1, PushedElements DEF TypeOK
    <2>2. Held' \subseteq R \cup {o}
      BY <1>2, <1>8, <2>1 DEF BuildKey, Roots, GlobalObjects, GlobalKeys, R
    <2>3. Uses' = Uses /\ Uses[o] = {}
      BY <1>4, <1>8 DEF BuildKey, Born, Uses, TypeOK
    <2>4. interned[job.content] = NoObject
      BY <1>8 DEF BuildKey, RefinementInv, InternInv, ContentFresh
    <2>5. Interned' = Interned \cup {o}
      BY <1>8, <2>4, InternedGrows DEF BuildKey
    <2>6. QED
      BY <2>2, <2>3, <2>5
  <1>9. job.arg \in R \cup {NoObject} /\ job.name \in R \cup {NoObject}
        /\ job.key \in R \cup {NoObject}
    BY <1>2 DEF Locals, R
  <1>10. CASE BuildNative(o)
    <2>1. globals' = {g \in globals : g[1] # job.key} \cup {<<job.key, o>>}
      BY <1>10 DEF BuildNative, WithGlobal
    <2>2. GlobalObjects' \subseteq GlobalObjects \cup ({job.key, o} \ {NoObject})
      BY <2>1 DEF GlobalObjects, GlobalKeys
    <2>3. ElementsOf(tempRoots') \subseteq ElementsOf(tempRoots)
      BY <1>10, PoppedElements DEF BuildNative, TypeOK
    <2>4. Held' \subseteq R \cup {o}
      BY <1>2, <1>9, <1>10, <2>2, <2>3 DEF BuildNative, Roots, R
    <2>5. /\ Uses'[o] \subseteq R
          /\ \A x \in Objects \ {o} : Uses'[x] = Uses[x]
      BY <1>4, <1>9, <1>10 DEF BuildNative, Born, Uses, TypeOK
    <2>6. Interned' = Interned
      BY <1>10 DEF BuildNative, Interned
    <2>7. QED
      BY <2>4, <2>5, <2>6
  <1>11. CASE BuildFunction(o)
    <2>1. Held' \subseteq R \cup {o}
      BY <1>2, <1>11 DEF BuildFunction, Roots, GlobalObjects, GlobalKeys,
                         ElementsOf, R
    <2>2. Uses' = Uses /\ Uses[o] = {}
      BY <1>4, <1>11 DEF BuildFunction, Born, Uses, TypeOK
    <2>3. Interned' = Interned
      BY <1>11 DEF BuildFunction, Interned
    <2>4. QED
      BY <2>1, <2>2, <2>3
  <1>12. CASE BuildScript(o) \/ BuildClosure(o) \/ BuildMap(o)
    <2>1. ElementsOf(tempRoots') \subseteq ElementsOf(tempRoots)
      BY <1>12, PoppedElements
      DEF BuildScript, BuildClosure, BuildMap, TypeOK
    <2>2. globals' = globals /\ rooted' = rooted \cup {o}
      BY <1>12 DEF BuildScript, BuildClosure, BuildMap
    <2>3. Held' \subseteq R \cup {o}
      BY <1>2, <2>1, <2>2 DEF Roots, GlobalObjects, GlobalKeys, R
    <2>4. refs' = [refs EXCEPT ![o] = {job.arg} \ {NoObject}] /\ nameOf' = nameOf
      BY <1>12 DEF BuildScript, BuildClosure, BuildMap, Born, JobWellFormed
    <2>5. /\ Uses'[o] \subseteq R
          /\ \A x \in Objects \ {o} : Uses'[x] = Uses[x]
      BY <1>4, <1>9, <2>4 DEF Uses, TypeOK
    <2>6. Interned' = Interned
      BY <1>12 DEF BuildScript, BuildClosure, BuildMap, Interned
    <2>7. QED
      BY <2>3, <2>5, <2>6
  <1>13. CASE BuildUpvalue(o)
    <2>1. Held' \subseteq R \cup {o}
      BY <1>2, <1>13 DEF BuildUpvalue, Roots, GlobalObjects, GlobalKeys,
                         ElementsOf, R
    <2>2. job.arg \in R /\ kind[job.arg] = "closure" /\ job.arg # o
      BY <1>1, <1>9, <1>13 DEF BuildUpvalue, JobWellFormed, Heap, TypeOK
    <2>3. refs' = [refs EXCEPT ![o] = {}, ![job.arg] = @ \cup {o}]
          /\ nameOf' = nameOf
      BY <1>13 DEF BuildUpvalue
    <2>4. Uses'[o] = {}
      BY <1>4, <2>2, <2>3 DEF Uses, TypeOK
    <2>5. ASSUME NEW x \in Objects \ {o}, x # job.arg PROVE Uses'[x] = Uses[x]
      BY <2>3, <2>5 DEF Uses, TypeOK
    <2>6. Uses'[job.arg] = Uses[job.arg] \cup {o}
      BY <2>2, <2>3 DEF Uses, TypeOK
    <2>7. Uses'[job.arg] \subseteq R \cup {o}
      BY <1>6, <2>2, <2>6
    <2>8. Interned' = Interned
      BY <1>13 DEF BuildUpvalue, Interned
    <2>9. QED
      BY <2>1, <2>2, <2>4, <2>5, <2>7, <2>8
  <1>20. QED
    BY <1>7, <1>8, <1>10, <1>11, <1>12, <1>13

(* The VM and the compiler put in fields and on the stack what they could  *)
(* already reach, or a string they found in the intern table.              *)
LEMMA MutateRefines ==
  ASSUME ~Strays, RefinementInv, RefinementInv', Mutate
  PROVE  Manager!Compute
  <1> DEFINE R == Manager!Reachable
  <1>1. /\ TypeOK /\ TypeOK' /\ HeapClosed
        /\ Roots \subseteq R /\ Held' = Roots'
        /\ R \subseteq Objects /\ \A x \in R : Uses[x] \subseteq R
    BY ReachedClosed DEF RefinementInv, CollectorInv
  <1>2. \A x \in R : refs[x] \subseteq R
    BY <1>1 DEF Uses
  <1>3. \A w \in Interned : w \in Objects /\ kind[w] = "string"
    BY <1>1 DEF Interned, HeapClosed, TypeOK
  <1> HIDE DEF R
  <1>4. ASSUME UNCHANGED <<kind, nameOf, interned>>,
               Roots' \subseteq R \cup Interned,
               \A x \in Objects :
                 \/ refs'[x] = refs[x]
                 \/ x \in R /\ kind[x] # "string" /\ refs'[x] \subseteq R
        PROVE  Manager!Compute
    <2>1. Heap' = Heap /\ Interned' = Interned
      BY <1>4 DEF Heap, Interned
    <2>2. Uses' \in [Objects -> SUBSET Objects]
      BY <1>1 DEF Uses, TypeOK
    <2>3. ASSUME NEW x \in Objects
          PROVE  \/ Uses'[x] = Uses[x]
                 \/ x \in R /\ kind[x] # "string" /\ Uses'[x] \subseteq R
      <3>1. CASE refs'[x] = refs[x]
        BY <1>4, <3>1 DEF Uses
      <3>2. CASE x \in R /\ kind[x] # "string" /\ refs'[x] \subseteq R
        <4>1. {nameOf[x]} \ {NoObject} \subseteq R
          BY <1>1, <3>2 DEF Uses
        <4>2. QED
          BY <1>4, <3>2, <4>1 DEF Uses
      <3>3. QED
        BY <1>4, <3>1, <3>2
    <2>4. QED
      BY <1>1, <1>3, <1>4, <2>1, <2>2, <2>3
      DEF Manager!Compute, Manager!Rewires, R
  <1>5. ASSUME UNCHANGED <<kind, nameOf, interned, refs, globals, tempRoots>>,
               rooted' \subseteq R \cup Interned
        PROVE  Manager!Compute
    BY <1>1, <1>4, <1>5 DEF Roots, GlobalObjects, GlobalKeys, ElementsOf
  <1>6. ASSUME UNCHANGED <<kind, nameOf, interned, globals, tempRoots>>,
               rooted' \subseteq rooted,
               NEW x \in R, kind[x] # "string", NEW T \in SUBSET R,
               refs' = [refs EXCEPT ![x] = T]
        PROVE  Manager!Compute
    <2>1. Roots' \subseteq R \cup Interned
      BY <1>1, <1>6 DEF Roots, GlobalObjects, GlobalKeys, ElementsOf
    <2>2. QED
      BY <1>1, <1>4, <1>6, <2>1 DEF TypeOK
  <1>7. rooted \subseteq R
    BY <1>1 DEF Roots
  <1>8. ASSUME NEW c \in Names, FoundInterned(c) \/ NewString(c)
        PROVE  Manager!Compute
    BY <1>5, <1>7, <1>8 DEF FoundInterned, NewString, heapVars, Interned
  <1>9. CASE \/ \E b \in Builtins : DefineNative(b)
             \/ BootDone \/ NewFunction \/ NewUpvalue
    BY <1>5, <1>7, <1>9 DEF DefineNative, BootDone, NewFunction, NewUpvalue, heapVars
  <1>10. CASE CaptureDone \/ ForceCollection
    BY <1>5, <1>7, <1>10 DEF CaptureDone, ForceCollection, heapVars
  <1>11. ASSUME NEW o \in Objects, Interpret(o) PROVE Manager!Compute
    <2>1. o \in R
      BY <1>7, <1>11 DEF Interpret
    <2>2. ElementsOf(tempRoots') \subseteq ElementsOf(tempRoots) \cup {o}
      BY <1>1, <1>11, PushedElements DEF Interpret, TypeOK
    <2>3. Roots' \subseteq R \cup Interned
      BY <1>1, <1>11, <2>1, <2>2 DEF Interpret, Roots, GlobalObjects, GlobalKeys
    <2>4. QED
      BY <1>4, <1>11, <2>3 DEF Interpret, heapVars
  <1>12. ASSUME NEW o \in Objects, NewClosure(o) PROVE Manager!Compute
    <2>1. o \in R
      BY <1>2, <1>7, <1>12 DEF NewClosure
    <2>2. ElementsOf(tempRoots') \subseteq ElementsOf(tempRoots) \cup {o}
      BY <1>1, <1>12 DEF NewClosure, PushTemp, ElementsOf, TypeOK
    <2>3. Roots' \subseteq R \cup Interned
      BY <1>1, <1>12, <2>1, <2>2 DEF NewClosure, Roots, GlobalObjects, GlobalKeys
    <2>4. QED
      BY <1>4, <1>12, <2>3 DEF NewClosure, heapVars
  <1>13. ASSUME NEW o \in Objects, GetGlobal(o) \/ Drop(o) PROVE Manager!Compute
    <2>1. GetGlobal(o) => o \in Roots
      BY DEF GetGlobal, Roots, GlobalObjects
    <2>2. QED
      BY <1>1, <1>5, <1>7, <1>13, <2>1 DEF GetGlobal, Drop, heapVars
  <1>14. ASSUME NEW q \in Objects \cup {NoObject}, NewMap(q)
         PROVE  Manager!Compute
    <2>1. ElementsOf(tempRoots') \subseteq ElementsOf(tempRoots) \cup ({q} \ {NoObject})
      BY <1>1, <1>14 DEF NewMap, PushTemp, ElementsOf, TypeOK
    <2>2. {q} \ {NoObject} \subseteq R
      BY <1>7, <1>14 DEF NewMap
    <2>3. Roots' \subseteq R \cup Interned
      BY <1>1, <1>14, <2>1, <2>2 DEF NewMap, Roots, GlobalObjects, GlobalKeys
    <2>4. QED
      BY <1>4, <1>14, <2>3 DEF NewMap, heapVars
  <1>15. ASSUME NEW o \in Objects, NEW v \in Objects, Push(o, v)
         PROVE  Manager!Compute
    <2>1. v \in R
      BY <1>2, <1>7, <1>15 DEF Push, Readable
    <2>2. QED
      BY <1>5, <1>7, <1>15, <2>1 DEF Push, heapVars
  <1>t. ASSUME NEW v \in Objects, Takes(v) PROVE v \in R
    BY <1>t, TakenLives DEF RefinementInv, R
  <1>16. ASSUME NEW o \in Objects, NEW v \in Objects \cup {NoObject},
                CloseUpvalue(o, v)
         PROVE  Manager!Compute
    <2>1. o \in R /\ {v} \ {NoObject} \in SUBSET R /\ kind[o] # "string"
      BY <1>7, <1>t, <1>16 DEF CloseUpvalue, OnStack
    <2>2. QED
      BY <1>6, <1>16, <2>1 DEF CloseUpvalue, Refer
  <1>17. ASSUME NEW f \in Objects, NEW v \in Objects, AddConstant(f, v)
         PROVE  Manager!Compute
    <2>1. f \in R /\ refs[f] \cup {v} \in SUBSET R /\ kind[f] # "string"
      BY <1>2, <1>7, <1>17 DEF AddConstant
    <2>2. QED
      BY <1>6, <1>17, <2>1 DEF AddConstant, Refer
  <1>18. ASSUME NEW b \in Objects, NEW u \in Objects, ShareUpvalue(b, u)
         PROVE  Manager!Compute
    <2>1. job.arg \in rooted /\ kind[job.arg] = "closure"
      BY <1>18 DEF ShareUpvalue, RefinementInv, CollectorInv, JobWellFormed
    <2>2. refs[job.arg] \cup {u} \in SUBSET R
      BY <1>2, <1>7, <1>18, <2>1 DEF ShareUpvalue
    <2>3. QED
      BY <1>6, <1>7, <1>18, <2>1, <2>2 DEF ShareUpvalue, Refer
  <1>19. ASSUME NEW m \in Objects, NEW v \in Objects, NEW old \in SUBSET refs[m],
                SetField(m, v, old)
         PROVE  Manager!Compute
    <2>1. m \in R /\ (refs[m] \ old) \cup {v} \in SUBSET R /\ kind[m] # "string"
      BY <1>2, <1>7, <1>19 DEF SetField
    <2>2. QED
      BY <1>6, <1>19, <2>1 DEF SetField, Refer
  <1>20. ASSUME NEW c \in Objects, NEW u \in Objects,
                NEW v \in Objects \cup {NoObject}, SetUpvalue(c, u, v)
         PROVE  Manager!Compute
    <2>1. u \in R /\ {v} \ {NoObject} \in SUBSET R /\ kind[u] # "string"
      BY <1>2, <1>7, <1>20 DEF SetUpvalue, OnStack
    <2>2. QED
      BY <1>6, <1>20, <2>1 DEF SetUpvalue, Refer
  <1>21. ASSUME NEW k \in Objects, NEW v \in Objects \cup {NoObject}, SetGlobal(k, v)
         PROVE  Manager!Compute
    <2>1. GlobalObjects' \subseteq GlobalObjects \cup ({k, v} \ {NoObject})
      BY <1>21 DEF SetGlobal, WithGlobal, GlobalObjects, GlobalKeys
    <2>2. {k, v} \ {NoObject} \subseteq R
      BY <1>7, <1>21 DEF SetGlobal, OnStack
    <2>3. Roots' \subseteq R \cup Interned
      BY <1>1, <1>21, <2>1, <2>2 DEF SetGlobal, Roots
    <2>4. QED
      BY <1>4, <1>21, <2>3 DEF SetGlobal, heapVars
  <1>22. ASSUME NEW c \in Objects, NEW u \in Objects,
                NEW v \in Objects \cup {NoObject}, ReadLeft(c, u, v)
         PROVE  Manager!Compute
    <2>1. v \in R
      BY <1>t, <1>22 DEF ReadLeft
    <2>2. QED
      BY <1>5, <1>7, <1>22, <2>1 DEF ReadLeft, heapVars
  <1>23. ASSUME NEW u \in Objects, NEW v \in Objects \cup {NoObject},
                LeaveUpvalue(u, v) \/ SlotWritten(u, v)
         PROVE  Manager!Compute
    BY <1>5, <1>7, <1>23 DEF LeaveUpvalue, SlotWritten
  <1>24. ASSUME NEW kept \in SUBSET rooted, NEW slots, ResetStack(kept, slots)
         PROVE  Manager!Compute
    BY <1>5, <1>7, <1>24 DEF ResetStack
  <1>25. QED
    BY <1>8, <1>9, <1>10, <1>11, <1>12, <1>13, <1>14, <1>15, <1>16, <1>17,
       <1>18, <1>19, <1>20, <1>21, <1>22, <1>23, <1>24
    DEF Mutate
-----------------------------------------------------------------------------
(* On the same condition the collector, triggered in the middle of any     *)
(* allocation, behaves as a memory manager that only takes back what is out*)
(* of reach.                                                               *)
THEOREM CollectorRefines == ~Strays => (Spec => ImplementsManagedHeap)
  <1> SUFFICES ASSUME ~Strays PROVE Spec => ImplementsManagedHeap
    OBVIOUS
  <1>1. CollectorInv /\ InternInv => RefinementInv
    BY HeldTyped DEF RefinementInv
  <1>2. RefinementInv /\ RefinementInv' /\ [Next]_vars
          => [Manager!HeapNext]_(Manager!heapVars)
    <2> SUFFICES ASSUME RefinementInv, RefinementInv', [Next]_vars
                 PROVE  [Manager!HeapNext]_(Manager!heapVars)
      OBVIOUS
    <2>1. CASE UNCHANGED vars
      BY <2>1 DEF vars, Manager!heapVars, Heap, Uses, Interned, RefinementInv,
                  Held, Locals, Roots, GlobalObjects, GlobalKeys, ElementsOf
    <2>2. CASE Next
      BY <2>2, CollectRefines, BuildRefines, MutateRefines
      DEF Next, Manager!HeapNext
    <2>3. QED
      BY <2>1, <2>2
  <1>3. QED
    BY <1>1, <1>2, InitRefines, CollectorInvariant, InternInvariant, PTL
    DEF Spec, ImplementsManagedHeap, Manager!HeapSpec
-----------------------------------------------------------------------------
(* No mark is left over: in a collection only reachable objects have one.  *)
MarksReachable ==
  phase \in {"trace", "sweep"} => marked \subseteq Manager!Reachable

LEMMA SameReachable ==
  ASSUME RefinementInv, RefinementInv',
         UNCHANGED <<refs, nameOf, rooted, globals, tempRoots>>
  PROVE  Manager!Reachable' = Manager!Reachable
  <1>1. Held' = Held /\ Uses' = Uses
    BY DEF RefinementInv, Roots, GlobalObjects, GlobalKeys, ElementsOf, Uses
  <1>2. QED
    BY <1>1 DEF Manager!Reachable, Manager!ReachableFrom, Manager!ClosedUnder

LEMMA MarksStep ==
  ASSUME RefinementInv, RefinementInv', MarksReachable, [Next]_vars
  PROVE  MarksReachable'
  <1>1. CASE UNCHANGED vars
    BY <1>1, SameReachable DEF vars, MarksReachable
  <1>2. ASSUME MaybeCollect \/ ForceCollection PROVE MarksReachable'
    <2>1. marked' \subseteq Roots \/ phase' = "build"
      BY <1>2 DEF MaybeCollect, ForceCollection, MarkRoots, RefinementInv,
                  CollectorInv, MarksClean, Begins
    <2>2. Roots \subseteq Manager!Reachable
      BY ReachedClosed DEF RefinementInv
    <2>3. Manager!Reachable' = Manager!Reachable
      BY <1>2, SameReachable DEF MaybeCollect, ForceCollection, heapVars
    <2>4. QED
      BY <2>1, <2>2, <2>3 DEF MarksReachable
  <1>3. ASSUME NEW o \in Objects, Blacken(o) PROVE MarksReachable'
    <2>1. o \in Manager!Reachable /\ marked \subseteq Manager!Reachable
      BY <1>3 DEF Blacken, MarksReachable, RefinementInv, CollectorInv, TriColour
    <2>2. refs[o] \subseteq Manager!Reachable
      BY <2>1, ReachedClosed DEF RefinementInv, Uses
    <2>3. Manager!Reachable' = Manager!Reachable
      BY <1>3, SameReachable DEF Blacken, heapVars
    <2>4. QED
      BY <1>3, <2>1, <2>2, <2>3 DEF Blacken, MarksReachable
  <1>4. CASE RemoveWhite
    BY <1>4, SameReachable DEF RemoveWhite, MarksReachable
  <1>5. CASE Sweep
    BY <1>5 DEF Sweep, MarksReachable
  <1>6. CASE Build
    <2>1. phase' \notin {"trace", "sweep"}
      BY <1>6 DEF Build, BuildString, BuildKey, BuildNative, BuildFunction,
                  BuildScript, BuildClosure, BuildUpvalue, BuildMap, Finish, Ask
    <2>2. QED
      BY <2>1 DEF MarksReachable
  <1>7. CASE Mutate /\ ~ForceCollection
    <2>1. phase' \notin {"trace", "sweep"}
      BY <1>7, ZenonT(40) DEF Mutate, FoundInterned, NewString, DefineNative, BootDone,
                  NewFunction, NewUpvalue, CaptureDone,
                  Interpret, NewClosure, GetGlobal, Drop, NewMap, Push,
                  CloseUpvalue, AddConstant, ShareUpvalue, SetField, SetUpvalue,
                  LeaveUpvalue, ResetStack, ReadLeft, SlotWritten,
                  SetGlobal, Refer, Begins, Ask, Finish
    <2>2. QED
      BY <2>1 DEF MarksReachable
  <1>8. QED
    BY <1>1, <1>2, <1>3, <1>4, <1>5, <1>6, <1>7 DEF Next, Collect

(* The sweep only changes the fields of what it frees, so what could be    *)
(* reached before it can be reached after it.                              *)
LEMMA SweepKeepsReachable ==
  ASSUME RefinementInv, RefinementInv', Sweep
  PROVE  Manager!Reachable \subseteq Manager!Reachable'
  <1> DEFINE R == Manager!Reachable
  <1>1. /\ R \subseteq marked /\ R \subseteq Objects
        /\ Held \subseteq R /\ \A o \in R : Uses[o] \subseteq R
    BY MarkedHoldsReachable, ReachedClosed
    DEF Sweep, RefinementInv, CollectorInv, SweepReady
  <1>2. Held' = Held
    BY DEF Sweep, RefinementInv, Roots, GlobalObjects, GlobalKeys, ElementsOf
  <1>3. \A o \in R : Uses'[o] = Uses[o]
    BY <1>1 DEF Sweep, Uses, Garbage
  <1> HIDE DEF R
  <1>4. ASSUME NEW S \in SUBSET Objects, Held' \subseteq S,
               \A o \in S : Uses'[o] \subseteq S
        PROVE  R \subseteq S
    <2>1. S \cap R \in SUBSET Objects /\ Held \subseteq S \cap R
      BY <1>1, <1>2, <1>4
    <2>2. \A o \in S \cap R : Uses[o] \subseteq S \cap R
      BY <1>1, <1>3, <1>4
    <2>3. R \subseteq S \cap R
      BY <2>1, <2>2, ReachedWithin DEF R
    <2>4. QED
      BY <2>3
  <1>5. QED
    BY <1>1, <1>4
    DEF Manager!Reachable, Manager!ReachableFrom, Manager!ClosedUnder, R

(* When a collection ends, everything left on the list is reachable: no    *)
(* object floats on through a collection it was garbage for.               *)
THEOREM CollectorLeavesNoGarbage == ~Strays => (Spec => NoFloatingGarbage)
  <1>1. CollectorInv /\ InternInv => RefinementInv
    BY HeldTyped DEF RefinementInv
  <1>2. Init => MarksReachable
    BY DEF Init, MarksReachable
  <1>3. RefinementInv /\ RefinementInv' /\ MarksReachable /\ [Next]_vars
          => MarksReachable'
    BY MarksStep
  <1>4. RefinementInv /\ RefinementInv' /\ MarksReachable /\ [Next]_vars
          => [phase = "sweep" /\ phase' # "sweep"
                => Heap' \subseteq Manager!Reachable']_vars
    <2> SUFFICES ASSUME RefinementInv, RefinementInv', MarksReachable, Next,
                        phase = "sweep", phase' # "sweep"
                 PROVE  Heap' \subseteq Manager!Reachable'
      BY DEF vars
    <2>1. Sweep
      BY DEF Next, Collect, MaybeCollect, Blacken, RemoveWhite, Build, Mutate,
             BuildString, BuildKey, BuildNative, BuildFunction, BuildScript,
             BuildClosure, BuildUpvalue, BuildMap, Born, FoundInterned,
             NewString, DefineNative, BootDone, NewFunction, NewUpvalue,
             CaptureDone, ForceCollection, Interpret, NewClosure, GetGlobal,
             Drop, NewMap, Push, CloseUpvalue, AddConstant, ShareUpvalue,
             SetField, SetUpvalue, SetGlobal, LeaveUpvalue, ResetStack,
             ReadLeft, SlotWritten, Begins
    <2>2. Heap' \subseteq marked
      BY <2>1 DEF Sweep, Heap, Garbage
    <2>3. QED
      BY <2>1, <2>2, SweepKeepsReachable DEF MarksReachable
  <1>5. QED
    BY <1>1, <1>2, <1>3, <1>4, CollectorInvariant, InternInvariant, PTL
    DEF Spec, NoFloatingGarbage
=============================================================================
