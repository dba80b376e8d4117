----------------------------- MODULE Collector -----------------------------
(***************************************************************************)
(* Rill's heap (object.cpp) and its mark-sweep collector (gc.cpp), driven  *)
(* by the C++ operations of the VM, the compiler and the natives that      *)
(* allocate.  A collection runs inside allocateObject, so it falls between *)
(* two statements of the function that asked for the object: what that     *)
(* function holds in a local variable is no root unless it was pushed with *)
(* pushTempRoot.  Tracing is one action per object taken off the gray      *)
(* stack; everything between two allocations is one action.                *)
(*                                                                         *)
(* Abstracted: the value stack, the frames, the open upvalues, the undo    *)
(* log and the chain of compilers are one set `rooted`; an object's fields *)
(* are the set of objects they name; every object has size 1; the list     *)
(* g_objects and the gray stack are sets, traced in any order.             *)
(***************************************************************************)
EXTENDS Naturals, Sequences, FiniteSets

CONSTANTS
  Objects,        \* addresses malloc hands out
  Names,          \* contents of strings
  Builtins,       \* the names defineBuiltins registers, a subset of Names
  NoObject,       \* the null pointer
  TempRootsMax,   \* sizeof(g_tempRoots) / sizeof(Value), 64 in the code
  Threshold,      \* the floor of g_nextGC, 1024 * 1024 bytes in the code
  Stress,         \* TRUE in a build with RILL_GC_STRESS
  MaxFields,      \* bound: objects one map, or one function, may name
  Exercised,      \* bound: the operations, a subset of Ops, that begin
  Strays          \* TRUE: programs also use what dead slots hold, freed or not

ASSUME BuiltinsAssumption == Builtins \subseteq Names
ASSUME NamesAssumption == Names # {}
ASSUME NoObjectAssumption == NoObject \notin Objects
ASSUME TempRootsAssumption == TempRootsMax \in Nat /\ TempRootsMax >= 2
ASSUME ThresholdAssumption == Threshold \in Nat /\ Threshold >= 1
ASSUME StressAssumption == Stress \in BOOLEAN
ASSUME StraysAssumption == Strays \in BOOLEAN
ASSUME ObjectsAssumption == IsFiniteSet(Objects)

VARIABLES
  kind,           \* object -> its ObjType, "free" when not on g_objects
  refs,           \* object -> the objects blackenObject marks from it
  nameOf,         \* native -> its name, which blackenObject does not mark
  interned,       \* g_strings: content -> the string object, weakly held
  left,           \* <<upvalue, value>>: not closed, and what its dead slot holds
  rooted,         \* objects named by VM and compiler roots but the globals
  globals,        \* globals_: the <<key, value>> pairs
  tempRoots,      \* g_tempRoots[0 .. g_tempRootCount - 1]
  job,            \* the C++ operation that is allocating, with its locals
  phase,          \* where the thread is in that operation
  marked,         \* objects whose isMarked is true
  gray,           \* g_grayStack
  bytes,          \* g_bytesAllocated
  nextGC          \* g_nextGC

vars == <<kind, refs, nameOf, interned, left, rooted, globals, tempRoots, job,
          phase, marked, gray, bytes, nextGC>>

heapVars == <<kind, refs, nameOf, interned, left, bytes>>
gcVars == <<marked, gray, nextGC>>

Kinds == {"free", "string", "function", "native", "closure", "upvalue", "map"}

(* Operations: "key" and "native" are the two allocations of defineNative; *)
(* "script" is the newClosure of interpret; "upvalue" is a captureUpvalue  *)
(* of the instruction Closure, whose new closure is job.arg; "gc" is gc(). *)
Ops == {"none", "string", "key", "native", "function", "closure", "script",
        "upvalue", "map", "gc"}

Idle == [op |-> "none", name |-> NoObject, key |-> NoObject,
         arg |-> NoObject, content |-> CHOOSE c \in Names : TRUE]

Phases == {"boot", "run", "capture", "ask", "trace", "sweep", "build"}

(* Kinds of object a Value on the stack or in a field can be. *)
ValueKinds == {"string", "native", "closure", "map"}

Heap == {o \in Objects : kind[o] # "free"}

ElementsOf(s) == {s[i] : i \in 1 .. Len(s)}

GlobalKeys == {g[1] : g \in globals}
GlobalObjects == (GlobalKeys \cup {g[2] : g \in globals}) \ {NoObject}

(* The pointers the operation in progress goes on to use. *)
Locals == {job.name, job.key, job.arg} \ {NoObject}

Interned == {interned[c] : c \in Names} \ {NoObject}

(* markRoots: VM and compiler roots, the globals and the temporary roots. *)
Roots == rooted \cup GlobalObjects \cup ElementsOf(tempRoots)

(* The memory manager without a collector that this one implements: `uses` *)
(* adds the pointer from a native to its name, which printObject follows   *)
(* and the collector does not; `held` adds the C++ locals, which it cannot *)
(* see.                                                                    *)
Uses == [o \in Objects |-> refs[o] \cup ({nameOf[o]} \ {NoObject})]

Held == Roots \cup Locals

Manager == INSTANCE ManagedHeap
  WITH allocated <- Heap, uses <- Uses, held <- Held, weak <- Interned
-----------------------------------------------------------------------------
(* gc.cpp pushTempRoot and popTempRoot: a push on a full array is dropped, *)
(* a pop is not.                                                           *)
PushTemp(s, o) == IF Len(s) < TempRootsMax THEN Append(s, o) ELSE s

PopTemp(s) == IF Len(s) > 0 THEN SubSeq(s, 1, Len(s) - 1) ELSE s

TypeOK ==
  /\ kind \in [Objects -> Kinds]
  /\ refs \in [Objects -> SUBSET Objects]
  /\ nameOf \in [Objects -> Objects \cup {NoObject}]
  /\ interned \in [Names -> Objects \cup {NoObject}]
  /\ left \subseteq Objects \X (Objects \cup {NoObject})
  /\ rooted \subseteq Objects
  /\ globals \subseteq Objects \X (Objects \cup {NoObject})
  /\ tempRoots \in Seq(Objects)
  /\ job \in [op : Ops, name : Objects \cup {NoObject},
              key : Objects \cup {NoObject}, arg : Objects \cup {NoObject},
              content : Names]
  /\ phase \in Phases
  /\ marked \subseteq Objects /\ gray \subseteq Objects
  /\ bytes \in Nat /\ nextGC \in Nat

Init ==
  /\ kind = [o \in Objects |-> "free"]
  /\ refs = [o \in Objects |-> {}]
  /\ nameOf = [o \in Objects |-> NoObject]
  /\ interned = [c \in Names |-> NoObject]
  /\ left = {} /\ rooted = {} /\ globals = {} /\ tempRoots = <<>>
  /\ job = Idle /\ phase = "boot"
  /\ marked = {} /\ gray = {}
  /\ bytes = 0 /\ nextGC = Threshold
-----------------------------------------------------------------------------
(* The collector. *)

(* Mutant: the intern table marked as if it were a root. *)
MarkRootsAndTable ==
  /\ marked' = marked \cup Roots \cup Interned
  /\ gray' = gray \cup ((Roots \cup Interned) \ marked)

MarkRoots ==
  /\ marked' = marked \cup Roots
  /\ gray' = gray \cup (Roots \ marked)

(* maybeCollect, called first thing by allocateObject. *)
MaybeCollect ==
  /\ phase = "ask"
  /\ IF Stress \/ bytes + 1 > nextGC
     THEN MarkRoots /\ phase' = "trace"
     ELSE phase' = "build" /\ UNCHANGED <<marked, gray>>
  /\ UNCHANGED <<heapVars, rooted, globals, tempRoots, job, nextGC>>

(* Mutants: blackenObject forgets ObjMap; markObject forgets isMarked. *)
BlackenButMaps(o) ==
  /\ phase = "trace"
  /\ o \in gray
  /\ marked' = IF kind[o] = "map" THEN marked ELSE marked \cup refs[o]
  /\ gray' = (gray \ {o}) \cup (marked' \ marked)
  /\ UNCHANGED <<heapVars, rooted, globals, tempRoots, job, phase, nextGC>>

BlackenAgain(o) ==
  /\ phase = "trace"
  /\ o \in gray
  /\ marked' = marked \cup refs[o]
  /\ gray' = (gray \ {o}) \cup refs[o]
  /\ UNCHANGED <<heapVars, rooted, globals, tempRoots, job, phase, nextGC>>

(* One round of traceReferences: blackenObject(o). *)
Blacken(o) ==
  /\ phase = "trace"
  /\ o \in gray
  /\ marked' = marked \cup refs[o]
  /\ gray' = (gray \ {o}) \cup (refs[o] \ marked)
  /\ UNCHANGED <<heapVars, rooted, globals, tempRoots, job, phase, nextGC>>

(* Mutants: removeWhite inverted, and not called. *)
WithoutMarked ==
  [c \in Names |-> IF interned[c] \in marked THEN NoObject ELSE interned[c]]

WithEverything == interned

(* What Table::removeWhite leaves of the intern table. *)
WithoutWhite ==
  [c \in Names |-> IF interned[c] \in marked THEN interned[c] ELSE NoObject]

RemoveWhite ==
  /\ phase = "trace"
  /\ gray = {}
  /\ interned' = WithoutWhite
  /\ phase' = "sweep"
  /\ UNCHANGED <<kind, refs, nameOf, left, bytes, rooted, globals, tempRoots,
                 job, marked, gray, nextGC>>

Garbage == Heap \ marked

(* recordFree, once per object freed, never takes the count below zero. *)
BytesAfterSweep ==
  IF Cardinality(Garbage) > bytes THEN 0 ELSE bytes - Cardinality(Garbage)

(* Mutant: no room for the heap to grow. *)
NewThresholdTight ==
  IF BytesAfterSweep < Threshold THEN Threshold ELSE BytesAfterSweep

(* What collectGarbage makes of g_nextGC once the sweep is over. *)
NewThreshold ==
  IF 2 * BytesAfterSweep < Threshold THEN Threshold ELSE 2 * BytesAfterSweep

(* The sweep frees what has no mark and takes the marks off the rest; then *)
(* collectGarbage returns to allocateObject, or to the native gc().        *)
Sweep ==
  /\ phase = "sweep"
  /\ kind' = [o \in Objects |-> IF o \in Garbage THEN "free" ELSE kind[o]]
  /\ refs' = [o \in Objects |-> IF o \in Garbage THEN {} ELSE refs[o]]
  /\ nameOf' = [o \in Objects |-> IF o \in Garbage THEN NoObject ELSE nameOf[o]]
  /\ left' = {p \in left : p[1] \notin Garbage}
  /\ bytes' = BytesAfterSweep
  /\ nextGC' = NewThreshold
  /\ marked' = marked \ Heap
  /\ IF job.op = "gc" THEN phase' = "run" /\ job' = Idle
                      ELSE phase' = "build" /\ UNCHANGED job
  /\ UNCHANGED <<interned, rooted, globals, tempRoots, gray>>

Collect == MaybeCollect \/ RemoveWhite \/ Sweep \/ \E o \in Objects : Blacken(o)
-----------------------------------------------------------------------------
(* The operations that allocate, up to their call of allocateObject. *)

(* Bound: an operation begins only while the model has addresses for it.   *)
HasRoomFor(n) == Cardinality(Heap) + n <= Cardinality(Objects)
HasRoom == HasRoomFor(1)
Begins(op) == phase = "run" /\ op \in Exercised

Ask(operation) == job' = operation /\ phase' = "ask"

Registered(b) == interned[b] \in GlobalKeys

(* VM::defineNative from VM::init: copyString(name) finds nothing yet. *)
DefineNative(b) ==
  /\ phase = "boot" /\ HasRoomFor(2)
  /\ ~Registered(b)
  /\ Ask([Idle EXCEPT !.op = "key", !.content = b])
  /\ UNCHANGED <<heapVars, gcVars, rooted, globals, tempRoots>>

BootDone ==
  /\ phase = "boot"
  /\ \A b \in Builtins : Registered(b)
  /\ phase' = "run"
  /\ UNCHANGED <<heapVars, gcVars, rooted, globals, tempRoots, job>>

(* copyString and takeString: a string already interned is returned as it  *)
(* is, whoever else can reach it; the caller puts it on the stack.         *)
FoundInterned(c) ==
  /\ phase = "run"
  /\ interned[c] # NoObject
  /\ rooted' = rooted \cup {interned[c]}
  /\ UNCHANGED <<heapVars, gcVars, globals, tempRoots, job, phase>>

NewString(c) ==
  /\ Begins("string") /\ HasRoom
  /\ interned[c] = NoObject
  /\ Ask([Idle EXCEPT !.op = "string", !.content = c])
  /\ UNCHANGED <<heapVars, gcVars, rooted, globals, tempRoots>>

(* initCompiler: the new function joins the chain of compilers. *)
NewFunction ==
  /\ Begins("function") /\ HasRoom
  /\ Ask([Idle EXCEPT !.op = "function"])
  /\ UNCHANGED <<heapVars, gcVars, rooted, globals, tempRoots>>

(* Mutant: interpret without its temporary root. *)
InterpretUnrooted(f) ==
  /\ Begins("script") /\ HasRoom
  /\ f \in rooted /\ kind[f] = "function"
  /\ rooted' = rooted \ {f}
  /\ Ask([Idle EXCEPT !.op = "script", !.arg = f])
  /\ UNCHANGED <<heapVars, gcVars, globals, tempRoots>>

(* VM::interpret after compile: the function has left the compiler chain   *)
(* and is named by a local only; it is pushed by interpret, then again by  *)
(* newClosure.                                                             *)
Interpret(f) ==
  /\ Begins("script") /\ HasRoom
  /\ f \in rooted /\ kind[f] = "function"
  /\ rooted' = rooted \ {f}
  /\ tempRoots' = PushTemp(PushTemp(tempRoots, f), f)
  /\ Ask([Idle EXCEPT !.op = "script", !.arg = f])
  /\ UNCHANGED <<heapVars, gcVars, globals>>

(* OpCode::Closure: the function is a constant of the running one. *)
NewClosure(f) ==
  /\ Begins("closure") /\ HasRoom
  /\ kind[f] = "function"
  /\ \E c \in rooted : \E g \in refs[c] :
        kind[c] = "closure" /\ kind[g] = "function" /\ f \in refs[g]
  /\ tempRoots' = PushTemp(tempRoots, f)
  /\ Ask([Idle EXCEPT !.op = "closure", !.arg = f])
  /\ UNCHANGED <<heapVars, gcVars, rooted, globals>>

(* captureUpvalue when the slot has no open upvalue: the closure that      *)
(* captures was pushed on the stack before.                                *)
NewUpvalue ==
  /\ phase = "capture" /\ HasRoom
  /\ phase' = "ask"
  /\ UNCHANGED <<heapVars, gcVars, rooted, globals, tempRoots, job>>

(* Mutant: newMap roots its prototype without asking if there is one. *)
NewMapNullRooted(p) ==
  /\ Begins("map") /\ HasRoom
  /\ p # NoObject => p \in rooted /\ kind[p] = "map"
  /\ tempRoots' = PushTemp(tempRoots, p)
  /\ Ask([Idle EXCEPT !.op = "map", !.arg = p])
  /\ UNCHANGED <<heapVars, gcVars, rooted, globals>>

(* OpCode::MakeMap with a null prototype, clone() with a map on the stack. *)
NewMap(p) ==
  /\ Begins("map") /\ HasRoom
  /\ p # NoObject => p \in rooted /\ kind[p] = "map"
  /\ tempRoots' = IF p = NoObject THEN tempRoots ELSE PushTemp(tempRoots, p)
  /\ Ask([Idle EXCEPT !.op = "map", !.arg = p])
  /\ UNCHANGED <<heapVars, gcVars, rooted, globals>>

(* gc() collects without allocating. *)
ForceCollection ==
  /\ Begins("gc")
  /\ MarkRoots
  /\ phase' = "trace"
  /\ job' = [Idle EXCEPT !.op = "gc"]
  /\ UNCHANGED <<heapVars, rooted, globals, tempRoots, nextGC>>
-----------------------------------------------------------------------------
(* The operations that allocate, from allocateObject's malloc on: the new  *)
(* object o gets its kind and its fields, the operation drops its          *)
(* temporary roots and puts the object where its caller does.              *)

Born(o, k, fields) ==
  /\ phase = "build"
  /\ o \notin Heap
  /\ kind' = [kind EXCEPT ![o] = k]
  /\ refs' = [refs EXCEPT ![o] = fields]
  /\ bytes' = bytes + 1
  /\ UNCHANGED left

Finish == job' = Idle /\ phase' = "run"

(* allocateString puts the string in g_strings before anybody sees it. *)
BuildString(o) ==
  /\ job.op = "string"
  /\ Born(o, "string", {})
  /\ interned' = [interned EXCEPT ![job.content] = o]
  /\ rooted' = rooted \cup {o}
  /\ Finish
  /\ UNCHANGED <<nameOf, globals, tempRoots, gcVars>>

(* Mutant: defineNative and newNative root neither the key nor the name. *)
BuildKeyUnrooted(o) ==
  /\ job.op = "key"
  /\ Born(o, "string", {})
  /\ interned' = [interned EXCEPT ![job.content] = o]
  /\ Ask([job EXCEPT !.op = "native", !.key = o,
                     !.name = interned'[job.content]])
  /\ UNCHANGED <<nameOf, rooted, globals, tempRoots, gcVars>>

(* defineNative has its key: it pushes the key and calls newNative, whose  *)
(* copyString of the same name finds that key and pushes it once more.     *)
BuildKey(o) ==
  /\ job.op = "key"
  /\ Born(o, "string", {})
  /\ interned' = [interned EXCEPT ![job.content] = o]
  /\ tempRoots' = PushTemp(PushTemp(tempRoots, o), interned'[job.content])
  /\ Ask([job EXCEPT !.op = "native", !.key = o,
                     !.name = interned'[job.content]])
  /\ UNCHANGED <<nameOf, rooted, globals, gcVars>>

(* globals_.set: the entry keeps the key object it already has. *)
WithGlobal(key, value) ==
  {g \in globals : g[1] # key} \cup {<<key, value>>}

BuildNative(o) ==
  /\ job.op = "native"
  /\ Born(o, "native", {})
  /\ nameOf' = [nameOf EXCEPT ![o] = job.name]
  /\ tempRoots' = PopTemp(PopTemp(tempRoots))
  /\ globals' = WithGlobal(job.key, o)
  /\ job' = Idle /\ phase' = "boot"
  /\ UNCHANGED <<interned, rooted, gcVars>>

BuildFunction(o) ==
  /\ job.op = "function"
  /\ Born(o, "function", {})
  /\ rooted' = rooted \cup {o}
  /\ Finish
  /\ UNCHANGED <<nameOf, interned, globals, tempRoots, gcVars>>

(* interpret's closure captures nothing. *)
BuildScript(o) ==
  /\ job.op = "script"
  /\ Born(o, "closure", {job.arg})
  /\ tempRoots' = PopTemp(PopTemp(tempRoots))
  /\ rooted' = rooted \cup {o}
  /\ Finish
  /\ UNCHANGED <<nameOf, interned, globals, gcVars>>

(* The instruction Closure pushes the closure and goes on to capture. *)
BuildClosure(o) ==
  /\ job.op = "closure"
  /\ Born(o, "closure", {job.arg})
  /\ tempRoots' = PopTemp(tempRoots)
  /\ rooted' = rooted \cup {o}
  /\ job' = [Idle EXCEPT !.op = "upvalue", !.arg = o]
  /\ phase' = "capture"
  /\ UNCHANGED <<nameOf, interned, globals, gcVars>>

(* The upvalue joins the open list and the closure that asked for it. *)
BuildUpvalue(o) ==
  /\ phase = "build" /\ job.op = "upvalue"
  /\ o \notin Heap
  /\ kind' = [kind EXCEPT ![o] = "upvalue"]
  /\ refs' = [refs EXCEPT ![o] = {}, ![job.arg] = @ \cup {o}]
  /\ bytes' = bytes + 1
  /\ rooted' = rooted \cup {o}
  /\ phase' = "capture"
  /\ UNCHANGED <<nameOf, interned, left, globals, tempRoots, job, gcVars>>

BuildMap(o) ==
  /\ job.op = "map"
  /\ Born(o, "map", {job.arg} \ {NoObject})
  /\ tempRoots' = IF job.arg = NoObject THEN tempRoots ELSE PopTemp(tempRoots)
  /\ rooted' = rooted \cup {o}
  /\ Finish
  /\ UNCHANGED <<nameOf, interned, globals, gcVars>>

Build == \E o \in Objects :
  \/ BuildString(o) \/ BuildKey(o) \/ BuildNative(o) \/ BuildFunction(o)
  \/ BuildScript(o) \/ BuildClosure(o) \/ BuildUpvalue(o) \/ BuildMap(o)
-----------------------------------------------------------------------------
(* Instructions and compiler steps that move references and allocate       *)
(* nothing.                                                                *)

IsValue(o) == kind[o] \in ValueKinds

(* What an instruction can push given that o is rooted: a map's fields, or *)
(* through a closure its function's constants and its upvalues' contents.  *)
Readable(o) ==
  {v \in IF kind[o] = "map" THEN refs[o]
         ELSE IF kind[o] = "closure" THEN UNION {refs[x] : x \in refs[o]}
         ELSE {} : IsValue(v)}

Push(o, v) ==
  /\ phase = "run"
  /\ o \in rooted /\ v \in Readable(o) \ rooted
  /\ rooted' = rooted \cup {v}
  /\ UNCHANGED <<heapVars, gcVars, globals, tempRoots, job, phase>>

GetGlobal(v) ==
  /\ phase = "run"
  /\ v \notin rooted
  /\ \E g \in globals : g[2] = v
  /\ v # NoObject
  /\ rooted' = rooted \cup {v}
  /\ UNCHANGED <<heapVars, gcVars, globals, tempRoots, job, phase>>

(* The last root naming o goes: a pop, a return, a scope's end, the undo   *)
(* log cleared, a compiler done with a function.  Upvalues leave the open  *)
(* list by CloseUpvalue and ResetStack.                                    *)
Drop(o) ==
  /\ phase = "run"
  /\ o \in rooted /\ kind[o] # "upvalue"
  /\ rooted' = rooted \ {o}
  /\ UNCHANGED <<heapVars, gcVars, globals, tempRoots, job, phase>>

Refer(o, targets) ==
  /\ refs' = [refs EXCEPT ![o] = targets]
  /\ UNCHANGED <<kind, nameOf, interned, bytes, gcVars, globals, tempRoots,
                 job, phase>>

(* A field is set (v) and another value it may have held is lost (old). *)
SetField(m, v, old) ==
  /\ phase = "run"
  /\ m \in rooted /\ kind[m] = "map"
  /\ v \in rooted /\ IsValue(v)
  /\ Cardinality((refs[m] \ old) \cup {v}) <= MaxFields
  /\ Refer(m, (refs[m] \ old) \cup {v})
  /\ UNCHANGED <<rooted, left>>

(* Open upvalues whose slot is dead.  Nothing marks what the slot holds,   *)
(* but `location` still points there (vm.cpp:500).                         *)
Left == {p[1] : p \in left}

WithoutSlot(u) == {p \in left : p[1] # u}

(* What a slot of the stack may hold; a number or nil is NoObject. *)
OnStack(v) == v = NoObject \/ (v \in rooted /\ IsValue(v))

(* What may be taken out of a dead slot: anything a program that Strays    *)
(* finds there, or else what something besides the slot keeps alive.       *)
Takes(v) == \/ Strays \/ v = NoObject
            \/ v \in Manager!Reachable /\ IsValue(v)

(* PopN in break and continue, CloseScope at the end of a match arm: the   *)
(* slot of the open upvalue u goes, with v in it, and u stays open.        *)
LeaveUpvalue(u, v) ==
  /\ phase = "run"
  /\ u \in rooted \ Left /\ kind[u] = "upvalue"
  /\ OnStack(v)
  /\ left' = left \cup {<<u, v>>}
  /\ rooted' \in {rooted, rooted \ {v}}
  /\ UNCHANGED <<kind, refs, nameOf, interned, bytes, gcVars, globals,
                 tempRoots, job, phase>>

(* resetStack after a runtime error: the stack and the list of open        *)
(* upvalues are emptied; what the undo log names is kept.                  *)
ResetStack(kept, slots) ==
  /\ phase = "run"
  /\ kept \subseteq {o \in rooted : kind[o] # "upvalue"}
  /\ DOMAIN slots = {u \in rooted \ Left : kind[u] = "upvalue"}
  /\ \A u \in DOMAIN slots : OnStack(slots[u])
  /\ left' = left \cup {<<u, slots[u]>> : u \in DOMAIN slots}
  /\ rooted' = kept
  /\ UNCHANGED <<kind, refs, nameOf, interned, bytes, gcVars, globals,
                 tempRoots, job, phase>>

(* GetUpvalue, or SetUpvalue saving the old value in the undo log, through *)
(* an upvalue that is neither closed nor on a live slot.                   *)
ReadLeft(c, u, v) ==
  /\ phase = "run"
  /\ c \in rooted /\ kind[c] = "closure" /\ u \in refs[c]
  /\ <<u, v>> \in left /\ v # NoObject /\ Takes(v)
  /\ rooted' = rooted \cup {v}
  /\ UNCHANGED <<heapVars, gcVars, globals, tempRoots, job, phase>>

(* The dead slot of u is used again by a push, or written by SetUpvalue.   *)
SlotWritten(u, v) ==
  /\ phase = "run"
  /\ u \in Left /\ <<u, v>> \notin left
  /\ OnStack(v)
  /\ left' = WithoutSlot(u) \cup {<<u, v>>}
  /\ UNCHANGED <<kind, refs, nameOf, interned, bytes, rooted, gcVars, globals,
                 tempRoots, job, phase>>

(* closeUpvalues: what the slot holds moves into the upvalue, which leaves *)
(* the open list; also when the slot is long dead.                         *)
CloseUpvalue(u, v) ==
  /\ phase = "run"
  /\ u \in rooted /\ kind[u] = "upvalue"
  /\ IF u \in Left THEN <<u, v>> \in left /\ Takes(v) ELSE OnStack(v)
  /\ Refer(u, {v} \ {NoObject})
  /\ rooted' = rooted \ {u}
  /\ left' = WithoutSlot(u)

(* SetUpvalue through a closure, on an upvalue that is closed. *)
SetUpvalue(c, u, v) ==
  /\ phase = "run"
  /\ c \in rooted /\ kind[c] = "closure"
  /\ u \in refs[c] \ (rooted \cup Left) /\ kind[u] = "upvalue"
  /\ OnStack(v)
  /\ Refer(u, {v} \ {NoObject})
  /\ UNCHANGED <<rooted, left>>

(* The instruction Closure reuses an open upvalue, which has a live slot   *)
(* from then on, or takes one over from the closure b that is running.     *)
ShareUpvalue(b, u) ==
  /\ phase = "capture"
  /\ kind[u] = "upvalue"
  /\ \/ u \in rooted /\ left' = WithoutSlot(u)
     \/ /\ b \in rooted /\ kind[b] = "closure" /\ u \in refs[b]
        /\ UNCHANGED left
  /\ Refer(job.arg, refs[job.arg] \cup {u})
  /\ UNCHANGED rooted

CaptureDone ==
  /\ phase = "capture"
  /\ Finish
  /\ UNCHANGED <<heapVars, gcVars, rooted, globals, tempRoots>>

(* makeConstant and the name of fnExpr: a string, or an inner function     *)
(* whose compiler has ended.                                               *)
AddConstant(f, v) ==
  /\ phase = "run"
  /\ f \in rooted /\ kind[f] = "function"
  /\ v \in rooted \ {f} /\ kind[v] \in {"string", "function"}
  /\ Cardinality(refs[f] \cup {v}) <= MaxFields
  /\ Refer(f, refs[f] \cup {v})
  /\ rooted' = IF kind[v] = "function" THEN rooted \ {v} ELSE rooted
  /\ UNCHANGED left

(* DefineGlobal, or SetGlobal of a defined name; a number is NoObject. *)
SetGlobal(k, v) ==
  /\ phase = "run"
  /\ k \in rooted /\ kind[k] = "string"
  /\ OnStack(v)
  /\ globals' = WithGlobal(k, v)
  /\ UNCHANGED <<heapVars, gcVars, rooted, tempRoots, job, phase>>

Mutate ==
  \/ \E c \in Names : FoundInterned(c) \/ NewString(c)
  \/ \E b \in Builtins : DefineNative(b)
  \/ BootDone \/ NewFunction \/ NewUpvalue \/ CaptureDone \/ ForceCollection
  \/ \E o \in Objects : Interpret(o) \/ NewClosure(o)
                        \/ GetGlobal(o) \/ Drop(o)
  \/ \E p \in Objects \cup {NoObject} : NewMap(p)
  \/ \E o, v \in Objects : Push(o, v) \/ AddConstant(o, v) \/ ShareUpvalue(o, v)
  \/ \E m, v \in Objects : \E old \in SUBSET refs[m] :
        Cardinality(old) <= 1 /\ SetField(m, v, old)
  \/ \E o \in Objects, v \in Objects \cup {NoObject} :
        \/ SetGlobal(o, v) \/ LeaveUpvalue(o, v) \/ SlotWritten(o, v)
        \/ CloseUpvalue(o, v)
  \/ \E c, u \in Objects, v \in Objects \cup {NoObject} :
        SetUpvalue(c, u, v) \/ ReadLeft(c, u, v)
  \/ \E kept \in SUBSET rooted :
       \E slots \in [{u \in rooted \ Left : kind[u] = "upvalue"}
                       -> Objects \cup {NoObject}] : ResetStack(kept, slots)

Next == Collect \/ Build \/ Mutate

Spec == Init /\ [][Next]_vars

(* The thread keeps running: a collection and the allocation it serves are *)
(* straight-line code and loops that nothing suspends.                     *)
FairSpec == Spec /\ WF_vars(Collect) /\ WF_vars(Build)
-----------------------------------------------------------------------------
ImplementsManagedHeap == Manager!HeapSpec

(* No pointer the interpreter can follow leads to freed memory: not from a *)
(* root, a local of the C++ function that is allocating, a field, the name *)
(* of a native or the intern table.  What is in a dead slot counts once it *)
(* is taken out through an upvalue that was not closed: with Strays it may *)
(* be freed memory, and this is violated.                                  *)
NoDangling == Manager!NoDangling

(* A collection leaves nothing behind that the program cannot reach: what  *)
(* the sweep keeps is reachable, so no mark was left over from before.     *)
NoFloatingGarbage ==
  [][phase = "sweep" /\ phase' # "sweep" => Heap' \subseteq Manager!Reachable']_vars

(* Two live strings never have the same contents: every string that is on  *)
(* the list when the mutator runs is the one the intern table lists for    *)
(* its contents, so comparing pointers compares strings (valuesEqual).     *)
LiveStringsInterned ==
  phase \in {"boot", "run", "capture"} =>
    {o \in Objects : kind[o] = "string"} = Interned

(* The heap never outgrows the threshold that was set from the data alive  *)
(* at the last collection (or its floor), and the count of bytes is exact. *)
HeapBounded ==
  /\ bytes = Cardinality(Heap)
  /\ bytes <= nextGC

(* An allocation, with the collection it may trigger, comes to its end. *)
AllocationEnds ==
  phase \in {"ask", "trace", "sweep", "build"}
    ~> phase \in {"boot", "run", "capture"}
-----------------------------------------------------------------------------
(* The inductive invariant behind these properties, by parts. *)

(* The temporary roots are those of the operation in progress, no others.  *)
TempRootsAre(n, o) ==
  Len(tempRoots) = n /\ \A i \in 1 .. n : tempRoots[i] = o

TempRootsMatchJob ==
  /\ job.op = "native" => TempRootsAre(2, job.key)
  /\ job.op = "script" => TempRootsAre(2, job.arg)
  /\ job.op = "closure" => TempRootsAre(1, job.arg)
  /\ job.op = "map" =>
       TempRootsAre(IF job.arg = NoObject THEN 0 ELSE 1, job.arg)
  /\ job.op \notin {"native", "script", "closure", "map"} =>
       TempRootsAre(0, NoObject)

(* What the operation in progress holds in its locals. *)
JobWellFormed ==
  /\ job.op = "native" <=> job.key # NoObject
  /\ job.name = job.key
  /\ job.op \in {"script", "closure", "upvalue"} => job.arg # NoObject
  /\ job.op \notin {"script", "closure", "upvalue", "map"} => job.arg = NoObject
  /\ job.op = "upvalue" => job.arg \in rooted /\ kind[job.arg] = "closure"
  /\ phase \in {"boot", "run"} <=> job.op = "none"
  /\ phase = "capture" => job.op = "upvalue"
  /\ phase \in {"ask", "build"} => job.op # "gc"

(* Nothing on the list names anything off it. *)
HeapClosed ==
  /\ Roots \subseteq Heap
  /\ Interned \subseteq Heap
  /\ \A o \in Objects : refs[o] \subseteq Heap
  /\ \A o \in Objects : kind[o] \in {"free", "string", "native"} => refs[o] = {}
  /\ \A c \in Names : interned[c] # NoObject => kind[interned[c]] = "string"

(* A native's name is a key of globals_, and a key never leaves it. *)
NamesAreGlobals ==
  \A o \in Objects : nameOf[o] # NoObject =>
                       kind[o] = "native" /\ nameOf[o] \in GlobalKeys

(* No marks outside a collection; inside, no black object names a white.   *)
MarksClean ==
  phase \notin {"trace", "sweep"} => marked = {} /\ gray = {}

TriColour ==
  phase \in {"trace", "sweep"} =>
    /\ gray \subseteq marked
    /\ marked \subseteq Heap
    /\ Roots \subseteq marked
    /\ \A o \in marked \ gray : refs[o] \subseteq marked

SweepReady == phase = "sweep" => gray = {} /\ Interned \subseteq marked

CollectorInv ==
  /\ TypeOK /\ TempRootsMatchJob /\ JobWellFormed /\ HeapClosed
  /\ NamesAreGlobals /\ MarksClean /\ TriColour /\ SweepReady

(* The string being allocated is not in the intern table, whatever the     *)
(* collection in between did to it, and a string that is going to survive  *)
(* is: so a second string with the same contents is never made.            *)
ContentFresh ==
  /\ job.op \in {"string", "key"} => interned[job.content] = NoObject
  /\ phase = "boot" \/ job.op \in {"key", "native"} =>
       Interned \subseteq GlobalKeys \cup {job.key}

StringsInterned ==
  \A o \in Objects :
    kind[o] = "string" /\ (phase = "sweep" => o \in marked) => o \in Interned

InternInv == ContentFresh /\ StringsInterned

(* An object that is about to be built still fits below the threshold.     *)
BoundInv == HeapBounded /\ (phase = "build" => bytes < nextGC)
=============================================================================
