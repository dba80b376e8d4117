# Rill, verified

TLA+ models of the Rill interpreter (`src/src/`), the TLC configurations that
check them and the proofs that TLAPS checks. Rill is a small dynamically typed
language: a lexer and a Pratt parser drive a single-pass compiler, whose
bytecode a stack VM runs over a mark-sweep heap. Everything runs on one thread;
what is hard here is not concurrency but *interruption* (a collection can happen
inside any allocation), *reuse* (stack slots, hash-table slots, addresses,
constant-pool entries) and *long legal sequences* of operations.

## 1. Inventory

| Component | Source | State | Operations | Interacts with |
|---|---|---|---|---|
| Collector | `gc.cpp` | mark bits, gray stack, temporary roots, bytes, threshold | `maybeCollect`, `collectGarbage`, `pushTempRoot`, `popTempRoot` | called by `allocateObject`; walks the roots of VM and compiler; purges the intern table |
| Objects | `object.cpp` | the list `g_objects` | `copyString`, `takeString`, `newFunction`, `newNative`, `newClosure`, `newUpvalue`, `newMap`, `freeObject` | allocate, and so may collect |
| Hash table | `table.cpp` | `entries`, `count`, `capacity` | `get`, `set`, `remove`, `adjustCapacity` | globals, map fields, intern table |
| Intern table | `g_strings` | a table of weak keys | `findString`, `set`, `removeWhite` | string constructors and collector |
| VM | `vm.cpp` | value stack, frames, open upvalues, globals, undo log | one case of `run` per instruction, `interpret`, `runtimeError` | everything |
| Scopes | `compiler.cpp` | locals with their slots, upvalue descriptors | `declareLocal`, `endScope`, `resolveUpvalue` | tell the VM which upvalues to close |
| Emitter | `compiler.cpp` | code, constant pool, peephole window, stack depth | `emitConstant`, `emitOp`, `emitCall`, `patchJump`, ... | driven by the parser |
| Parser | `parser.cpp` | token stream, loop contexts, immutable globals | one function per construct | emitter and scopes |
| Chunk | `chunk.cpp` | code, run-length lines, constants | `write`, `rewind`, `lineAt` | emitter, `runtimeError` |
| Recorder, debugger | `recorder.hpp`, `debugger.cpp` | the undo log | `begin`, `stepBack`, `stepForward` | VM; the log is a collector root |
| REPL | `main.cpp` | globals and `g_immutableGlobals`, across lines | `repl`, `interpret`, `compile` | parser and VM |
| Natives | `builtins.cpp` | none | `print`, `str`, `clone`, `gc`, ... | allocate and collect |
| Lexer, values, disassembler | `lexer.cpp`, `value.cpp`, `debug.cpp` | none of lasting interest | | |

What makes each one correct, and where it is hard:

- **Collector and objects.** No pointer anybody still follows leads to freed
  memory, although a C++ local is not a root (the code keeps this but for
  upvalues left open on a dead slot, see `UpvaluesAbrupt`); nothing unreachable
  survives; the heap stays under its threshold; a collection ends on cyclic graphs.
- **Hash table.** It is a map, through collisions, wrapped probes, tombstones
  and growth; probes end.
- **Intern table.** It lists exactly the live strings, each text once, though a
  collection may fall between the lookup and the insertion.
- **Stack, frames, upvalues.** A closure and a scope share a variable while the
  scope lives; the closure keeps it afterwards; a reused slot is never seen
  through an old upvalue.
- **Emitter.** The rewritten code computes what the plain code would, each byte
  keeps its line, and the window is forgotten wherever a rewrite would be wrong.
- **Parser and scopes.** Code is emitted in one order and executed in others; on
  every path the stack has the height that the compiler corrects by hand at
  branches and joins, because locals get their slots from it.
- **Session.** What the compiler remembers of globals agrees with the program that
  runs, although lines are compiled before they run and may fail midway.
- **Recorder.** A step back restores the state before the step, whatever was run,
  undone or collected in between.

`PROJECT.json` lists the hazards one by one with their lines.

## 2. Modules

### ManagedHeap, Collector (and their proofs)

`ManagedHeap` is what the memory manager promises, with no collector in it:
objects are allocated, references among reachable objects are rearranged, and an
object that is neither reachable nor listed in the intern table may disappear.

`Collector` is the code. Its variables are those of `gc.cpp` and `object.cpp`
(named in the module). The value stack, the frames, the open upvalues, the undo
log and the compiler chain are one set `rooted`; a field is an edge in `refs`.
The C++ function that is allocating is the record `job`, its position `phase`:

    run --(NewString, NewMap, NewClosure, Interpret, ...)--> ask
    ask --MaybeCollect--> trace | build
    trace --Blacken per gray object, RemoveWhite--> sweep --Sweep--> build
    build --(BuildString, BuildMap, ...)--> run

so that a collection falls exactly between the statements where the C++ function
has it, with the temporary roots pushed at that point. Between two allocations
the program may push, drop, set fields, constants and globals, close and share
upvalues, and it may drop the slot of an open upvalue: `LeaveUpvalue` is the
`PopN` of `break` and `continue` and the `CloseScope 1` of a match arm, and
`ResetStack` what a runtime error does. `left` has what the dead slot holds, which
nothing marks, and `ReadLeft`, `SetUpvalue`, `CloseUpvalue` and `SlotWritten` are
what the code may still do through `location`. A program that `Strays` takes
whatever it finds there, freed or not; one that does not takes only what
something besides the slot keeps alive (`Takes`). `boot` is `VM::init`, whose `defineNative` makes two nested
allocations; `capture` is the loop of the instruction `Closure`.

The list of objects and the gray stack are sets: the order of tracing is free,
which covers the code's. Every object has size 1.

Properties: `NoDangling`, `NoFloatingGarbage`, `LiveStringsInterned`,
`HeapBounded`, `AllocationEnds`, and `ImplementsManagedHeap`, a refinement under
which `uses` also has the pointer from a native to its name, which the
collector does not mark (the key in `globals_` keeps it), and `held` also has
the C++ locals, which the collector cannot see. `held` does not have the dead
slots: an object that only they name is out of reach for the refinement, and the
code does reclaim it. So `NoDangling` and `ImplementsManagedHeap` are claimed of
programs with `Strays = FALSE` only. Of the others they are false, as section 3
shows under `UpvaluesAbrupt`.

### KeyMap, Table, StringTable

`KeyMap` is a partial function with replies. `Table` is open addressing; `get`,
`set` and `remove` are one action each, the loop of `adjustCapacity` one step
per entry. The result of `findEntry` is defined by the distances at which its
loop passes a tombstone and stops. `Table` refines `KeyMap` (`IsAMap`) with
contents read back through `findEntry` itself.

`StringTable` extends `Table`, which is used either as a map or, once the first
string is made, as the intern table (`use`): `findString`, the strings alive, and
`removeWhite` one entry at a time, followed by the sweep. `copyString` is split
at its allocation: `Intern` has found nothing, a collection may come, `NewString`
inserts.

### Variables, Upvalues

`Variables` is the language's view: a variable is a cell shared by its scope and
the closures that captured it. `Upvalues` is the VM's: slots, frames, the sorted
open list. `cells` says what the compiler's table of locals says, which variable
a slot holds. The actions are the instructions grouped as the compiler emits
them (`EndScope` is `CloseUpvalue` with the lowest captured slot, then
`CloseScope`). `Abrupt` names three ways to leave a variable that the code does
not close properly: `break` and `continue`, the end of a match arm, a runtime
error. An operation that is not in `Abrupt` only happens when it does no harm. A
`return` of the script may come anywhere; what it leaves on the stack stays below
the next script (`Interpret`).

### Terms, StackCode, Lines, Emitter

`Terms` has the values and what an operator makes of them. `StackCode` says what
a program's instructions mean as they are asked for, with no rewriting, on terms
and for both truth values of a variable. `Lines` is the line table of a chunk,
the loop of `rewind` as a recursive function. `Emitter` has the code, the pool,
the window (`pendingConsts`, `constIndex`, `constCodeStart`), `tryFold`,
`tryFuseAddConst`, `emitCall`, the jumps of `and`, `breakExpr` with its
`emitPopN`, `stackDepth`, and the lines under which the bytes were written. `Run`
executes the emitted code; `MeansTheSame` is the refinement of `StackCode` by what
`Run` computes, also in the middle of an `and` whose jump is not patched yet and
after a `break`. `LinesTrue` compares `lineAt` of every byte with the line its
instruction was emitted at. `ConstantArguments` admits calls with the window open:
their last argument is a literal or was folded to one, as in `f(1 + 2) + 3`. A
`break` with nothing on the stack, which only jumps, is left out.

### Codegen

The parser and the compiler at the control structures. `contexts` is the C++
stack of parse functions, with their local variables (`base`, the jumps to be
patched, `loop`); one action is what a parse function does between two calls of
`expression` or `exprList`. Instead of the code the model keeps its effect: `c ++ i`
emits the instruction `i`, which changes the depth by `stackEffect`, and every
stack the VM may have at that place as the VM would. A jump to be patched is the
set of stacks with which it is taken, `patchJump` a union, `emitLoop` a comparison
with the stacks the loop was entered with. So the set `stacks` has all the paths
to the next instruction, whatever the tests yield. The value of a variable on the
stack is its number: `LocalsInSlots` says that the slot a local's operand byte
names has it.

`HeightIsKnown`: every one of these stacks is as high as the compiler thinks.
`Scattered` admits declarations inside other expressions; without it they are
items of a block or function body. The pattern of a match arm is a literal; the
parser takes any operand for one, which leaves one value just as a literal does.
Functions are compiled one after another;
an inner function changes nothing in the enclosing one but the push of its
closure, which counts as a literal here.

### Session

The REPL. A line is compiled item by item (`Declaration`, `Assignment`,
`FunctionDeclaration`, `Call`), which changes `immutable` at once, then run, which
changes `globals`; either may fail midway (`CompileError`, `RuntimeError`).
`bound` is what the last declaration that ran has promised, `lost` what a later
one said that was compiled and never ran, if there is one, and `assigned` are the
names that a function assigns to.

`RemembersTheTruth` says of every name what the compiler holds of it between
lines, also after failures: exactly what it was told last (`SaidLet`), whether the
declaration ran or not; so after a failed line a `var` may be refused or a `let`
assignable. `LetsHold` says that a global bound by `let` keeps its value if no
function assigns to it and its last declaration has run. Of the others it is false:
both are what the code does, and section 3 has programs that show it. A
declaration is an item of its own here; one in an operand that is skipped, as in
`false and var x = 2`, is left out, and would be one more that never runs.

### TimeTravel

The VM under the debugger. Stack slots and the `closed` fields of upvalues are
`cells`, which keep their content when they fall out of use, as `stack_` and
`frames_` do: that is what `stepBack` relies on. Instructions are grouped by what
they do to the stack, cells, table and frames; each appends a record to `log`
first (`Log`, with the writes that `noteSlotWrite` and `noteTableWrite` add).
`Undone` is the state `stepBack` makes of the newest record, `past` the states
there really were. `StateRestored` compares the two at every state, also those
reached by stepping back. `PastIsRooted` says that all closures in `past` are
marked: an address that is not marked is reused by `MakeClosure` and `Capture`.

`StateRestored` leaves out captured variables that were on the stack then and
are closed now: `stepBack` does not open their upvalues again.
`EverythingRestored` has them, too. An upvalue that a runtime error took off the
open list without closing it, or whose slot an instruction other than the closing
ones dropped, is no variable of the `View` any more and compared by neither (see
`UpvaluesAbrupt`).

`Marked` is what marking reaches, the closures in every set that has the marked
values and adds nothing when it is traced: a least set, which the proofs can use
without recursion.

`Lossy` names two ways in which the code loses what a step back needs. Without
`"frames"` a program makes no call into a frame that a record in the log still
needs; without `"operands"` no instruction drops more than the three values that
are saved.

### MC modules

`MCCollector`, `MCTables`, `MCUpvalues`, `MCEmitter`, `MCCodegen`, `MCSession` and
`MCTimeTravel` hold the values of constants (hashes, texts, literals) and the
symmetry sets. Collector addresses, upvalue addresses and variables, and the
names and numbers of a session, are interchangeable; no property under symmetry
is a liveness property.

## 3. Runs

| Run | Instance | Shows |
|---|---|---|
| `CollectorClosures` | 5 objects, collection at every allocation (`RILL_GC_STRESS`); strings, functions, scripts, closures, upvalues closed or left open on dead slots, `gc()`; `Strays = FALSE` | `NoDangling`, `NoFloatingGarbage`, `ImplementsManagedHeap` |
| `CollectorThreshold` | 3 objects, threshold 1, one native, fairness; strings, maps with prototypes, `gc()` | `TypeOK`, `LiveStringsInterned`, `HeapBounded`, `NoDangling`, `ImplementsManagedHeap`, `AllocationEnds` |
| `Tables` | map: 3 keys, two with one hash, one reached by a wrapped probe; intern table: 5 strings, two with one text, hashes colliding; capacities 4 and 8 | `KeysOnce`, `ProbesEnd`, `IsAMap`, `TextsOnce`, `ListsTheLiving` |
| `UpvaluesClosed` | 3 variables, 2 upvalues, 6 slots, 2 frames, nothing abrupt | `UpvaluesTypeOK`, `WritesAreShared`, `OpenSlotsLive`, `ImplementsVariables` |
| `UpvaluesAbrupt` | the same with `break`, `continue`, captured match bindings and errors anywhere | **violated**: `OpenSlotsLive` |
| `EmitterFolds` | both rewrites on, 5 instructions, 2 literals (a number, a string), one `and`, `break`, 2 lines | `EmitterTypeOK`, `DepthIsTrue`, `LinesTrue`, `MeansTheSame` |
| `EmitterCalls` | the same with calls whose last argument is a literal or folded to one | **violated**: `DepthIsTrue` |
| `CodegenPaths` | four constructs nested in any way, 2 arguments or fields, sequences and arms of any length | `CodegenTypeOK`, `HeightIsKnown`, `LocalsInSlots` |
| `CodegenLet` | the same with declarations anywhere | **violated**: `HeightIsKnown` |
| `SessionLets` | any number of lines of 2 items, 2 globals, 2 numbers, closures | `SessionTypeOK`, `LetsHold`, `RemembersTheTruth` |
| `TimeTravelBack` | 6 recorded instructions, one of them an aside; 4 slots, 2 frames, one closure besides the script's, one upvalue, one global; nothing lossy | `TravelTypeOK`, `StateRestored`, `PastIsRooted` |
| `TimeTravelLossy` | the same with 5 slots, frames reused and instructions that drop any number of values | **violated**: `EverythingRestored` |

Every property of a passing run has a mutant in `PROJECT.json`: a variant of one
definition, written beside it and commented as a mutant, under which TLC finds
the property violated.

### What the violations show

- `EmitterCalls`. `emitCall` leaves the window open, so in `f(1) + 2` the literals
  1 and 2 count as consecutive loads; folding takes the call back out of the
  code. A build with `RILL_FOLD` evaluates the expression to 3.
- `UpvaluesAbrupt`. `break` and `continue` pop the loop body's locals with `PopN`,
  a match arm drops its binding with `CloseScope 1`, and `runtimeError` empties
  the open list: an upvalue stays open on a slot that is used again. Each of the
  three, alone in `Abrupt`, violates the property; the run reports the one it
  meets first. In the REPL, `var g = nil`, then
  `{ var x = 7; g = fn() { x }; nope() }` (an error), then `print(g())` prints
  `<native print>`.

  The collector makes it worse: `markVMRoots` marks slots below `stackTop_` and
  `blackenObject` of an upvalue only `closed`, so what the dead slot holds may be
  freed before `GetUpvalue` or `closeUpvalues` reads it through `location`. In the
  REPL, `var g = nil`, then
  `{ let a = 1; let b = 2; let c = 3; var x = "a" + "b"; g = fn() { x }; nope() }`
  (an error), then `gc()`, then `print(g())` reads the freed string. `Collector` has
  these steps: with `Strays = TRUE` instead, six objects and a threshold of 8, TLC
  finds `NoDangling` violated within 27 states, where `closeUpvalues` puts a pointer
  to freed memory into an upvalue that is alive.
- `CodegenLet`. A declaration leaves its variable's slot and a nil, two values
  where its place in the grammar has one. As an operand, as in
  `{a: let x = 1}` or `false and let b = 2`, it makes the stack higher than the
  compiler thinks, on one path or on all, and later locals are read one slot off:
  the body `false and let b = 2; let c = 3; c` of a function yields nil.
- `TimeTravelLossy`. Three losses, of which the run reports the first it meets.
  Closing an upvalue is not in the undo log: after a step back the scope has its
  variable in a slot again, its closures have their own copy. The debugger on

      {
        var x = 1;
        let g = fn() { x = x + 1 };
        g();
        print(x)
      }

  prints 2 for `step 100`, and 1 for `back 9` and `step 100`. And after a call has
  returned, another call overwrites its frame; stepping back over the first
  `Return` revives the entry with the second callee's closure and slots (this
  alone breaks `StateRestored`). With `let a = f()` and then `let b = g()` the
  debugger, back inside `f`, prints `[line -1] in g`. Last, a record saves three
  values, and an instruction may drop more (`Lossy = {"operands"}` alone breaks
  `StateRestored`): with `let f = fn(a, b, c) { a }`, `let r = f(1, 2, 3)` and
  `print(r)`, `step 100`, `back 10` and `step 100` end in "can only call functions".

What the compiler remembers of globals, as `RemembersTheTruth` and `LetsHold` have
it, is not what the documents promise. `declaration` notes a `let` while it compiles
and takes nothing back if the line fails: after `var x = 1` and the line `let x = (`,
which does not compile, `x = 2` is refused, although "`var` introduces a mutable"
binding (design document, line 84). And README.md:35 of the repository says "`let` is
immutable — assigning to one is a COMPILE error", but a function compiled before the
name is noted assigns to it later: `let x = fn() { x = 1 }`, `x()` and `print(x)` on
three lines print 1. After `let f = fn() { x = 5 }`, `let x = 10` and `f()`, `x` is 5.

`LocalsInSlots` needs slots that fit a byte. With `SlotWidth = 2` it breaks as
the code does when 255 temporaries are below a local: only the number of locals
is limited.

### Bounds

Named in the modules. `Objects`, `MaxFields` and `Exercised` bound the heap:
five objects are a script function, its closure, an inner function, its closure
and an upvalue, the longest chain the code builds in one operation;
`CollectorThreshold` trades closures for maps and natives. `TempRootsMax = 2` is the deepest
nesting of temporary roots, so that one more push would be dropped and seen.
Table capacities 4 and 8 give one growth, full loads of 3 of 4, wrapped probes
and tombstone chains; the code's first capacity, 8, only adds length. Six slots
and two frames are a callee, its caller, two locals, a result and what an earlier
script left behind; three variables and two upvalues let a closure outlive a
variable while the other is reused. `CodeMax`, `PoolMax`, `AndsMax` bound the
expression compiled; a number and a string are the literals, and folding makes other numbers of the one, for
operands that can be told apart. Two lines let a rewrite take back a run, part of
one, or cross from one to the other. In the code `PoolMax` is 256 and one
constant too many is a compile error.

In `Codegen`, `NestingMax` = 4 counts the function, so three constructs inside one
another: a `break` in an `if` in an operand of a loop, a `match` in a `match`; one
name gives shadowing. The number of items, arms and locals has no bound but what
nesting and one name leave, and `ItemsMax` = 2 lets the depth be corrected for one
argument, two, or none. `SlotWidth` is the code's 256. In `Session` two items let
a line fail after it has declared, or declare after it has assigned; lines may
follow one another for ever.

In `TimeTravel`, `LogMax` bounds the walk: six instructions make, capture, call,
write and return. `AsidesMax` lets one of them be of the kinds that only move
values or jump, in any place. Four slots hold a call of two arguments, or
a local of the callee and its temporaries, and one slot more than a record saves;
the fifth of `TimeTravelLossy` lets an instruction drop more values than that.

`CHECK_DEADLOCK` is off for the emitter and for `Codegen` only: a compilation ends,
with an error or with the code that was bounded.

### Fairness

`AllocationEnds` assumes weak fairness of the collector's steps and of the
constructor's second half: they are straight-line code and loops on the only
thread, which nothing suspends. No fairness is assumed of the program.

## 4. Proofs

For every value of the constants that satisfies the assumptions named in the
modules. Those of the code: finitely many addresses, at least one string content,
room for two temporary roots, a positive threshold, a first table capacity of two
or more, the null pointer no address and nil no key, a value to push, at least one
value of an operand byte, a nesting that admits the function, bounds of the emitter
that are numbers and lines that begin at one, and for `TimeTravel`
a stack, a frame and an instruction, with slots that are no upvalues and an absent
value that is none (`BoundsAssumption`, `AddressAssumption`).

| Theorem | Module | States |
|---|---|---|
| `CollectorInvariant` | `CollectorProofs` | `Spec => []CollectorInv`, if `~Strays` |
| `CollectorTypeCorrect` | `CollectorProofs` | `Spec => []TypeOK`, if `~Strays` |
| `CollectorInternsStrings` | `CollectorProofs` | `Spec => []LiveStringsInterned`, if `~Strays` |
| `CollectorBounded` | `CollectorProofs` | `Spec => []HeapBounded`, if `~Strays` |
| `CollectorNeverDangles` | `CollectorProofs` | `Spec => []NoDangling`, if `~Strays` |
| `CollectorRefines` | `CollectorProofs` | `Spec => ImplementsManagedHeap`, if `~Strays` |
| `CollectorLeavesNoGarbage` | `CollectorProofs` | `Spec => NoFloatingGarbage`, if `~Strays` |
| `HeapNeverDangles` | `ManagedHeapProofs` | `HeapSpec => []NoDangling` |
| `TableInvariant` | `TableProofs` | `TableSpec => []TableInv` |
| `StringInvariant` | `TableProofs` | `StringSpec => []StringInv` |
| `KeysOnceTheorem` | `TableProofs` | `StringSpec => []KeysOnce` |
| `ProbesEndTheorem` | `TableProofs` | `StringSpec => []ProbesEnd` |
| `TextsOnceTheorem` | `TableProofs` | `StringSpec => []TextsOnce` |
| `ListsTheLivingTheorem` | `TableProofs` | `StringSpec => []ListsTheLiving` |
| `TableIsAMap` | `TableProofs` | `StringSpec => IsAMap` |
| `SessionInvariant` | `SessionProofs` | `SessionSpec => []SessionInv` |
| `SessionTyped` | `SessionProofs` | `SessionSpec => []SessionTypeOK` |
| `LetsHoldTheorem` | `SessionProofs` | `SessionSpec => []LetsHold` |
| `RemembersTheTruthTheorem` | `SessionProofs` | `SessionSpec => []RemembersTheTruth` |
| `UpvaluesInvariant` | `UpvaluesProofs` | `UpvaluesSpec => []UpvaluesInv`, if `Abrupt = {}` |
| `UpvaluesTyped` | `UpvaluesProofs` | `UpvaluesSpec => []UpvaluesTypeOK`, if `Abrupt = {}` |
| `OpenSlotsLiveTheorem` | `UpvaluesProofs` | `UpvaluesSpec => []OpenSlotsLive`, if `Abrupt = {}` |
| `WritesAreSharedTheorem` | `UpvaluesProofs` | `UpvaluesSpec => []WritesAreShared`, if `Abrupt = {}` |
| `StackHoldsVariables` | `UpvaluesProofs` | `UpvaluesSpec => ImplementsVariables`, if `Abrupt = {}` |
| `TypeCorrect` | `CodegenProofs` | `CodegenSpec /\ [](compiler.depth <= SlotWidth) => []CodegenTypeOK`, if `~Scattered` |
| `HeightAlwaysKnown` | `CodegenProofs` | `CodegenSpec /\ [](compiler.depth <= SlotWidth) => []HeightIsKnown`, if `~Scattered` |
| `LocalsAlwaysInSlots` | `CodegenProofs` | `CodegenSpec /\ [](compiler.depth <= SlotWidth) => []LocalsInSlots`, if `~Scattered` |
| `EmitterInvariant` | `EmitterProofs` | `EmitterSpec => []EmitterInv`, if `ConstantArguments => ~Fold /\ ~SuperOps` |
| `EmitterTypeCorrect` | `EmitterProofs` | `EmitterSpec => []EmitterTypeOK`, likewise |
| `DepthAlwaysTrue` | `EmitterProofs` | `EmitterSpec => []DepthIsTrue`, likewise |
| `LinesAlwaysTrue` | `EmitterProofs` | `EmitterSpec => []LinesTrue`, likewise |
| `RewritesKeepMeaning` | `EmitterProofs` | `EmitterSpec => MeansTheSame`, likewise |
| `TravelInvariant` | `TimeTravelProofs` | `TravelSpec => []TravelInv`, if `Lossy = {}` |
| `TravelTypeCorrect` | `TimeTravelProofs` | `TravelSpec => []TravelTypeOK`, if `Lossy = {}` |
| `StepBackRestores` | `TimeTravelProofs` | `TravelSpec => []StateRestored`, if `Lossy = {}` |
| `PastStaysAlive` | `TimeTravelProofs` | `TravelSpec => []PastIsRooted`, if `Lossy = {}` |

None of the properties is inductive. What strengthens them is in the modules;
TLC finds no violation of any of these invariants on instances like those of the runs:
the emitter's with both rewrites and one line, and without rewrites and with calls
with the window open; `TravelInv` on four recorded instructions. Each proof has one step per action.

**Collector.** `CollectorInv` strengthens `NoDangling` by parts:

- `TempRootsMatchJob`, `JobWellFormed`: the temporary roots are those of the
  operation in progress, so each of its C++ locals is rooted when it allocates;
- `HeapClosed`: whatever is rooted or named by a field is allocated;
- `NamesAreGlobals`: the name of a native is also a key of the globals, which is
  why the collector may leave it unmarked;
- `MarksClean`: no mark and no gray object outside a collection;
- `TriColour`: during the trace the roots are marked and a marked object that is
  not gray names marked objects only;
- `SweepReady`: when the sweep begins nothing is gray and the intern table names
  marked objects only.

At the sweep these say that the marked set contains the roots and is closed
under fields, so it contains what is reachable: that gives `NoDangling`, and the
step `Reclaim` of the refinement. What is taken out of a dead slot must be on
the heap still: that is what `~Strays` is for (`TakenLives`), and without it the
theorems are false. Everything else about open upvalues with a dead slot, that
they are dropped, kept by closures, closed late or collected, is in the proof. The
converse, marked implies reachable, gives
`NoFloatingGarbage`. `InternInv` (`ContentFresh`, `StringsInterned`) is a second
invariant on top, for the intern table. `BoundInv` is a third, for `HeapBounded`:
the object that `allocateObject` has decided to make still fits under the
threshold, also when the collection before it has just set a new one.

**Hash table.** `CountExact` (the count is that of the slots that are not empty,
tombstones included) and `LoadBounded` (at most three quarters of them) leave an
empty slot, so a probe, which passes every slot once, ends (`CapacitySound`).
A key is found because no slot between the one it hashes to and its own is empty
(`KeysReached`): `remove` leaves a tombstone and an insertion never empties a
slot. `GrowthSound` says that while `adjustCapacity` is under way the new array
has what was in the old one up to the cursor, and is searchable itself. On
this rests the refinement: `Contents`, read through `findEntry`, is the pairs in
the array, and each of `get`, `set` and `remove` does to them what it does to a
map; a step of the growth is a stutter.

**Intern table.** `ListInv` relates what the table lists to what is alive in every
phase of an operation: while it grows, the new string is alive and not listed yet;
while `removeWhite` runs, what it has not passed may be dead. `WantedIsNew` says that a
`findString` that found nothing stays true over the collection that may follow,
because a collection only takes strings away; so `NewString` makes no second copy.

**Session.** The compiler's set of immutable names says nothing of the present, as it
runs ahead of the program by a line. `SessionInv` says what it does mean: a name
is in it if it *will be* bound by `let` when the code of this line has run
(`WillBeLet`), and not in it if it will not (`WillBeVar`); each assignment still to
run has a target that will not be bound by `let` when its turn comes; and `assigned`
has the names that any closure of this session may assign to. When a line fails, the
declarations it has not run go into `lost` with what the last of them said, so that
`SaidLet` is after it what `WillBeLet` was before. Between lines no code is left, and
`RemembersTheTruth` is what remains of the invariant.

**Upvalues.** `FramesNested` (a frame begins above the parameters of the one below; no
two slots hold the same variable), `OpenSorted` (the open list descends and is
exactly what is open) and `CapturesSound` (what is open points at the slot of its
variable; what is held and closed has left every scope; nothing is captured
twice). The list descends, so `closeUpvalues(last)` takes a prefix that is
everything at `last` or above, and so whatever drops slots has closed what was
open on them. The operations that drop slots all keep a prefix of the stack, put
temporaries above it and leave each closure the value it read (`Keeps`): that alone
gives the invariant and the step `Leave` of `Variables`. The others map to `Declare`,
`Enter`, `Assign`, `Capture` and `Release`; `SettledIs` reduces each to what the next
state's slots and closures hold. The hypothesis `Abrupt = {}` is what the code
does not keep: `break`, `continue`, match arms and errors may leave a captured
variable, and then the theorems are false (run `UpvaluesAbrupt`). With it, an
operation of those kinds is still taken when what it drops is not captured.

**Codegen.** The compiler keeps one number, the depth, and trusts each parse function
to set it at a branch or a join to what it was when the function began. `CodegenInv`
says what they rely on: there is a chain of *positions*, one for each parse function
in progress (`Linked`), each the place where that function's next operand begins:
the depth there, how many locals are in scope, and all stacks the VM may have. A
function began at the position before its own (`Began`), so its `base`, its jumps to
be patched and a loop's `start` and `breaks` are stacks that have those of that
position below and a known number of values above (`Over`). Every position `Extends`
those before it, and at each the locals in scope are in their slots (`Holds`). The
compiler is at the last position, or one value above it (`IsAt`). For an instruction
`Reaches` says which stacks it makes of which; `break` and `continue` unwind through
all positions down to the loop's, and because each extends it, what is left is one of
the stacks the loop was begun with. At the end of any construct its position leaves
the chain, with one value above the one before it.

Both hypotheses are needed. A declaration inside an expression makes a local
above temporaries that come off below it (run `CodegenLet`). `namedVariable` cuts the
slot to a byte while `declareLocal` limits only the number of locals: a depth above
`SlotWidth` makes an assignment change another value, so that `LocalsInSlots` is
false; and if it is a value below a loop, the loop goes back with another stack
than it began with, so that `HeightIsKnown` is false, too (TLC finds both with a
`SlotWidth` of 2). In the run `CodegenPaths` it is 256, which its programs do
not reach. The theorems put no bound on names, items or nesting.

**Emitter.** What a rewrite takes away is known from outside the code, from
`pendingConsts`, `constIndex` and `constCodeStart`; `EmitterInv` says that what they
claim is so. It has five parts besides the types:

- `CodeInv`: every load names a constant of the pool, a later load a later constant,
  and no jump that is patched lands beyond the next instruction;
- `WindowInv`: where a rewrite can happen, the window is the end of the code, its loads
  are those of the last constants of the pool, and no jump lands inside it;
- `AndsInv`: each `and` in progress has a conditional jump of its own, not patched yet;
- `RunInv`: for both values of the variable, an execution that gets to the end of the
  code has a stack of `stackDepth` values; one that does not stopped at a `Jump` or waits at
  the jump of an `and`, with as many values as the depth the parser keeps for it and one;
- `LinesInv`: the line table gives each byte the line of its instruction.

So the constants that `tryFold` takes off the pool are loaded nowhere else, and taking
the window off the code leaves the stack, in each execution, as it was before the two
loads; no jump can tell, because none lands between them. From this there is one lemma per
action on what `Run` becomes: the effect of the operator asked for, on the executions
that get there, and no change on the others. These are the actions of `StackCode`, which
is the refinement. A patched jump lets the executions that waited at it go on, with
the value they had. `setStackDepth` after an `and` is right because both ways leave as many.

`EmitterSpec` is proved to keep this for codes, pools and nestings of every size,
without rewrites for every program, and with them for programs in which no call has a
last argument that is a literal or folded to one. That hypothesis is what the code needs: in the other
programs `WindowInv` is false after the call, and so are `DepthIsTrue` and `MeansTheSame`
after a rewrite (run `EmitterCalls`).

`Run`, `Seen` and `Rewound` are functions over a length: that they are what their
equations say, and depend on the part of the code before it only, is proved for the
set of the lengths for which it holds. `Everywhere`, a set of naturals with 0 and
all successors is all of them, comes from the well-foundedness of `<`: a fact about a
set, where the induction theorem of the library takes an operator. `Rewound`, the loop
of `rewind`, is shown to keep the lines of all bytes that are left, over any number of
runs, and `Written` to add one; `LineAt` finds the only run an offset is in.

**Time travel.** A step back uses one record, but what it restores must be right again
for the step back after it, so the invariant is about the whole log. `TravelInv` has
five parts:

- `MachineInv`: the types, frames that begin one above the other, open upvalues that
  point at slots;
- `RecordsInv`: each record `Matches` what was seen before its instruction: its height,
  its frames, and as its saved values the topmost three;
- `StoredInv`: whatever was below these three, the closures of the frames and the
  values of the table have been on top before, so an earlier record saves them. That
  is why the log roots everything that stepping back brings back (`PastIsRooted`),
  though a record has neither frames nor closures;
- `ReplayInv`: for each record `i` and each cell, table key and frame in use before
  its instruction, the first record from `i` on whose undoing writes it writes what was
  there (`CellComesBack`, `KeyComesBack`, `FrameComesBack`), or none writes it and it
  is there now;
- `UsedInv`: the closures that were in use then, as a least traced set through the
  upvalues as they are *now*: the log keeps them alive, so no address of theirs is
  reused and no upvalue changes its closure.

An instruction preserves `ReplayInv` because it `Overwrites` only cells its own record
restores or that are above the height; a step back because the record it takes off
does what the next one in line expects (`Back`). `Lossy = {}` is what the code does
not keep: it makes `Call` and `Replace` refuse the calls and the drops with which the
theorems are false (run `TimeTravelLossy`).

The smallest element of a set of numbers comes from the well-foundedness of `<` on
the naturals, as `Everywhere` above does.

Only model-checked: `AllocationEnds` (liveness under fairness, which the prover
cannot do), and what the violated runs show, which theorems exclude by their
hypotheses. Every other property of a passing run is the subject of a theorem.

## 5. Not modelled

- The lexer, number formatting and the disassembler: pure functions on
  characters, or output only. Names and literals are what the models have of them.
- Of the parser: the table of precedences (the models let any operand follow any
  operator, as with parentheses), unary operators (an instruction that changes no
  height; `Emitter` has `Negate`), recovery after an error (a program with an
  error is never run), and `resolveUpvalue`, by which an inner function names a
  local of an outer one: `Upvalues` starts from captures that name the right slot.
- Of the driver: files and the command line. `freeObjects` runs once at exit.
- Byte offsets of jumps and their 16-bit limit: jumps lead to instructions.
- A bound on temporaries (hazard at `vm.cpp:32`): the code states none.
- Strings' characters and C memory (`chars`, table arrays, code vectors) are not
  objects: the collector's own count leaves them out, too. Numbers are integers in
  the emitter; folding and the VM use the same C++ operators on doubles.

## 6. Plan

Done: `Collector` against `ManagedHeap`; `Table` against `KeyMap`, `StringTable`;
`Upvalues` against `Variables`; `Session`; `Codegen`; `TimeTravel`; `Lines` and `Emitter`
against `StackCode`; all of these with proofs.

Left, in this order:

1. Functions inside functions in `Codegen`: a stack of compilers, `resolveUpvalue`
   and `addUpvalue`, with the property that the descriptors lead from a use to
   the slot that holds the variable when the closure is made.
