----------------------------- MODULE TimeTravel -----------------------------
(***************************************************************************)
(* The VM under the debugger: instructions that log how to undo them       *)
(* (run with singleStep, recorder.hpp), and VM::stepBack.                  *)
(*                                                                         *)
(* The value stack, the frames and `closed` of an upvalue keep their old   *)
(* content when they fall out of use, so they are arrays here, not         *)
(* sequences.  A cell is anything a Value* points to: a slot of the stack, *)
(* by its number, or `closed` of an upvalue, by the upvalue.  `past` is    *)
(* auxiliary: what the program saw before each instruction in the log.     *)
(* Abstracted: any instruction may follow any other; the values are Nil    *)
(* and closures, all closures take any number of arguments and have at     *)
(* most one upvalue; one table stands for the globals and for the fields   *)
(* of the map SetProperty writes; the line of a record is left out.        *)
(***************************************************************************)
EXTENDS Naturals, Sequences, FiniteSets

CONSTANTS
  Closures, Script,     \* bound: ObjClosure addresses; the one of the script
  Upvalues,             \* bound: ObjUpvalue addresses
  Keys,                 \* names of globals and properties
  Nil,                  \* any value that is not a closure
  Absent,               \* the "value" of a key that is not in the table
  Null,                 \* the null pointer
  StackMax, FramesMax,  \* kStackMax and kFramesMax
  CodeMax,              \* bound: instructions of a function
  LogMax,               \* bound: the recorder's log is unbounded
  AsidesMax,            \* bound: records in the log of instructions that
                        \* neither make, call, capture nor write variables
  Lossy                 \* bound: ways, a subset of LossyWays, in which the
                        \* program may lose what a step back needs

LossyWays == {"frames", "operands"}

ASSUME ScriptAssumption == Script \in Closures
ASSUME LossyAssumption == Lossy \subseteq LossyWays
ASSUME BoundsAssumption ==
  StackMax \in Nat \ {0} /\ FramesMax \in Nat \ {0} /\ CodeMax \in Nat \ {0}

Values == Closures \cup {Nil}
Slots == 1 .. StackMax
Cells == Slots \cup Upvalues

ASSUME AddressAssumption ==
  /\ Nil \notin Closures /\ Absent \notin Values /\ Upvalues \cap Slots = {}
  /\ Null \notin Closures \cup Cells \cup Keys

VARIABLES
  cells,                \* stack_, and `closed` of every upvalue
  top,                  \* stackTop_ - stack_
  frames, frameCount,   \* frames_ and frameCount_
  location,             \* upvalue -> the cell it points to, itself if closed
  open,                 \* openUpvalues_, as a set
  upvalue,              \* closure -> its upvalue, or Null
  table,                \* globals_ or the fields of a map
  log,                  \* Recorder::log_
  past,                 \* auxiliary: the View before each instruction of log
  asides                \* bound: the asides among the instructions of log

machineVars == <<cells, top, frames, frameCount, table>>
closureVars == <<location, open, upvalue>>
travelVars == <<machineVars, closureVars, log, past, asides>>

Frame == frames[frameCount]
Running == frameCount > 0

(* The slots of the running function above its callee. *)
Owned == IF Running THEN Frame.slots + 1 .. top ELSE {}

(* The upvalues of the closure that runs. *)
OwnUpvalues == IF Running THEN {upvalue[Frame.closure]} \ {Null} ELSE {}
-----------------------------------------------------------------------------
Last(s) == s[Len(s)]
ClosuresOf(S) == S \cap Closures
ValuesIn(f) == {f[x] : x \in DOMAIN f}

HeldBy(S) == {upvalue[c] : c \in S} \ {Null}

(* Tracing adds nothing to T: an upvalue marks its `closed`. *)
Traced(T) == ClosuresOf({cells[u] : u \in HeldBy(T)}) \subseteq T

(* What marking reaches from the values in S *)
Marked(S) ==
  {c \in Closures : \A T \in SUBSET Closures : ClosuresOf(S) \subseteq T /\ Traced(T) => c \in T}

InUse ==
  {cells[i] : i \in 1 .. top} \cup {frames[i].closure : i \in 1 .. frameCount}
    \cup ValuesIn(table) \cup {cells[u] : u \in open}

(* Mutant: the operands in the log are not marked. *)
RootsWithoutOperands ==
  InUse \cup UNION {{log[i].slotOld, log[i].tableOld} : i \in 1 .. Len(log)}

(* markVMRoots. *)
Roots ==
  InUse \cup UNION {ValuesIn(log[i].saved) \cup {log[i].slotOld, log[i].tableOld} :
                      i \in 1 .. Len(log)}

Alive == Marked(Roots)

(* What the program and the debugger's commands see of the machine;        *)
(* `captured` are the variables of the closures in use, `open` tells which *)
(* of them are still on the stack.  An upvalue that a runtime error took   *)
(* off the open list, or whose slot fell off the stack before it was       *)
(* closed (Upvalues.tla), is no variable any more.                         *)
View ==
  LET held == HeldBy(Marked(InUse))
      onStack == {u \in open \cap held : location[u] <= top}
  IN [stack |-> [i \in 1 .. top |-> cells[i]],
      frames |-> [i \in 1 .. frameCount |-> frames[i]],
      table |-> table,
      open |-> onStack,
      captured |-> [u \in onStack \cup {w \in held : location[w] = w} |-> cells[location[u]]]]
-----------------------------------------------------------------------------
SavedMax == 3

(* Mutant: an operand too few. *)
SavedTooFew ==
  LET keep == IF top < 2 THEN top ELSE 2
  IN [j \in 1 .. keep |-> cells[top - keep + j]]

(* The operands run saves before each instruction. *)
Saved ==
  LET keep == IF top < SavedMax THEN top ELSE SavedMax
  IN [j \in 1 .. keep |-> cells[top - keep + j]]

Aside == Cardinality(asides) < AsidesMax /\ asides' = asides \cup {Len(log) + 1}
NoAside == UNCHANGED asides

(* Recorder::begin, and what noteSlotWrite(cell) and noteTableWrite(key)   *)
(* add to the record; either may be Null.                                  *)
Log(cell, key) ==
  /\ Running /\ Len(log) < LogMax
  /\ log' = Append(log,
       [ip |-> Frame.ip, stackHeight |-> top, frameCount |-> frameCount, saved |-> Saved,
        slotTarget |-> cell, slotOld |-> IF cell = Null THEN Nil ELSE cells[cell],
        tableKey |-> key, tableOld |-> IF key = Null THEN Absent ELSE table[key]])
  /\ past' = Append(past, View)

Advance ==
  /\ Frame.ip < CodeMax
  /\ frames' = [frames EXCEPT ![frameCount].ip = @ + 1]
  /\ UNCHANGED frameCount

Losable(n) == "operands" \in Lossy \/ n <= SavedMax

(* The values `results` take the place of the n operands on top. *)
Replace(n, results) ==
  /\ n <= Cardinality(Owned) /\ Losable(n)
  /\ top - n + Len(results) <= StackMax
  /\ top' = top - n + Len(results)
  /\ cells' = [i \in Cells |-> IF i \in Slots /\ i \in top - n + 1 .. top'
                               THEN results[i - (top - n)] ELSE cells[i]]

(* What can be pushed: a constant, a local, a global or an upvalue. *)
Loadable ==
  {Nil} \cup {cells[i] : i \in Owned} \cup (ValuesIn(table) \ {Absent})
    \cup {cells[location[u]] : u \in OwnUpvalues}
-----------------------------------------------------------------------------
TravelInit ==
  /\ cells = [c \in Cells |-> IF c = 1 THEN Script ELSE Nil]
  /\ top = 1 /\ frameCount = 1
  /\ frames = [i \in 1 .. FramesMax |->
                 IF i = 1 THEN [closure |-> Script, ip |-> 1, slots |-> 1]
                 ELSE [closure |-> Null, ip |-> 0, slots |-> 0]]
  /\ location = [u \in Upvalues |-> u]
  /\ open = {}
  /\ upvalue = [c \in Closures |-> Null]
  /\ table = [k \in Keys |-> Absent]
  /\ log = <<>> /\ past = <<>> /\ asides = {}

(* Constant, Nil, True, False, Dup, GetLocal, GetGlobal, GetUpvalue. *)
Load(v) ==
  /\ NoAside
  /\ Log(Null, Null) /\ Advance
  /\ Replace(0, <<v>>)
  /\ UNCHANGED <<closureVars, table>>

(* Operators, MakeMap, GetProperty and calls of natives: one result. *)
Operate(n) ==
  /\ Aside
  /\ Log(Null, Null) /\ Advance
  /\ Replace(n, <<Nil>>)
  /\ UNCHANGED <<closureVars, table>>

Swap ==
  /\ Aside
  /\ Cardinality(Owned) >= 2
  /\ Log(Null, Null) /\ Advance
  /\ Replace(2, <<cells[top], cells[top - 1]>>)
  /\ UNCHANGED <<closureVars, table>>

(* Pop and PopN. *)
PopN(n) ==
  /\ Aside
  /\ Log(Null, Null) /\ Advance
  /\ Replace(n, <<>>)
  /\ UNCHANGED <<closureVars, table>>

CloseScope(n) ==
  /\ Aside
  /\ Log(Null, Null) /\ Advance
  /\ Replace(n + 1, <<cells[top]>>)
  /\ UNCHANGED <<closureVars, table>>

(* Jump, JumpIfFalse, JumpIfTrue and Loop. *)
Jump(target) ==
  /\ Aside
  /\ Log(Null, Null)
  /\ frames' = [frames EXCEPT ![frameCount].ip = target]
  /\ UNCHANGED <<cells, top, frameCount, closureVars, table>>

SetCell(cell) ==
  /\ NoAside
  /\ Owned # {}
  /\ Log(cell, Null) /\ Advance
  /\ cells' = [cells EXCEPT ![cell] = cells[top]]
  /\ UNCHANGED <<top, closureVars, table>>

SetLocal(i) == i \in Owned \ {top} /\ SetCell(i)

SetUpvalue(u) == u \in OwnUpvalues /\ SetCell(location[u])

(* DefineGlobal, SetGlobal and SetProperty pop n values and push m of the  *)
(* one on top.                                                             *)
SetKey(k, n, m) ==
  /\ NoAside
  /\ Owned # {}
  /\ Log(Null, k) /\ Advance
  /\ table' = [table EXCEPT ![k] = cells[top]]
  /\ Replace(n, [i \in 1 .. m |-> cells[top]])
  /\ UNCHANGED closureVars

DefineGlobal(k) == SetKey(k, 1, 0)
SetProperty(k) == SetKey(k, 2, 1)

(* Of a name that is defined; for another one, see RuntimeError. *)
SetGlobal(k) == table[k] # Absent /\ SetKey(k, 0, 0)

(* Closure, of a function without upvalues or one that shares the upvalue  *)
(* of the function that runs.                                              *)
MakeClosure(c, u) ==
  /\ NoAside
  /\ u \in OwnUpvalues \cup {Null}
  /\ Log(Null, Null) /\ Advance
  /\ Replace(0, <<c>>)
  /\ upvalue' = [upvalue EXCEPT ![c] = u]
  /\ UNCHANGED <<open, location, table>>

(* Closure, of a function that captures the local in slot i: the upvalue   *)
(* in the open list, or a new one, with a nil `closed`.                    *)
Capture(c, i, u) ==
  /\ NoAside
  /\ i \in Owned /\ top < StackMax
  /\ Log(Null, Null) /\ Advance
  /\ upvalue' = [upvalue EXCEPT ![c] = u]
  /\ top' = top + 1
  /\ cells' = [cells EXCEPT ![top'] = c, ![u] = IF u \in open THEN @ ELSE Nil]
  /\ IF \E w \in open : location[w] = i
     THEN u \in open /\ location[u] = i
     ELSE u \in Upvalues \ (open \cup HeldBy(Alive))
  /\ open' = open \cup {u}
  /\ location' = [location EXCEPT ![u] = i]
  /\ UNCHANGED table

(* closeUpvalues(last): what is on the stack moves into the upvalues. *)
Closing(last) == {u \in open : location[u] >= last}
Closed(last) == [c \in Cells |-> IF c \in Closing(last) THEN cells[location[c]] ELSE cells[c]]
Unlink(last) ==
  /\ location' = [u \in Upvalues |-> IF u \in Closing(last) THEN u ELSE location[u]]
  /\ open' = open \ Closing(last)

(* endScope emits it for a slot that was captured. *)
CloseUpvalue(i) ==
  /\ NoAside
  /\ i \in Owned /\ \E u \in open : location[u] = i
  /\ Log(Null, Null) /\ Advance
  /\ Unlink(i) /\ cells' = Closed(i)
  /\ UNCHANGED <<top, upvalue, table>>

(* Mutant: the limit is tested once too late. *)
CallOneTooDeep(n) ==
  /\ n + 1 <= Cardinality(Owned) /\ cells[top - n] \in Closures
  /\ frameCount <= FramesMax
  /\ Log(Null, Null) /\ NoAside
  /\ frames' = [i \in 1 .. FramesMax |-> IF i = frameCount + 1
                                         THEN [closure |-> cells[top - n], ip |-> 1,
                                               slots |-> top - n]
                                         ELSE frames[i]]
  /\ frameCount' = frameCount + 1
  /\ UNCHANGED <<cells, top, closureVars, table>>

(* Call of a closure with n arguments. *)
Call(n) ==
  /\ NoAside
  /\ n + 1 <= Cardinality(Owned) /\ cells[top - n] \in Closures
  /\ frameCount < FramesMax /\ Frame.ip < CodeMax
  /\ "frames" \in Lossy \/ \A i \in 1 .. Len(log) : log[i].frameCount <= frameCount
  /\ Log(Null, Null)
  /\ frames' = [frames EXCEPT ![frameCount].ip = @ + 1,
                              ![frameCount + 1] =
                  [closure |-> cells[top - n], ip |-> 1, slots |-> top - n]]
  /\ frameCount' = frameCount + 1
  /\ UNCHANGED <<cells, top, closureVars, table>>

Return ==
  /\ NoAside
  /\ frameCount > 1 /\ Owned # {}
  /\ Losable(top - Frame.slots + 1)
  /\ Log(Null, Null)
  /\ Unlink(Frame.slots)
  /\ cells' = [Closed(Frame.slots) EXCEPT ![Frame.slots] = cells[top]]
  /\ top' = Frame.slots
  /\ frameCount' = frameCount - 1
  /\ UNCHANGED <<frames, upvalue, table>>

(* The script returns: pops its result and "the script function itself". *)
ReturnFromScript ==
  /\ NoAside
  /\ frameCount = 1 /\ Owned # {}
  /\ Log(Null, Null)
  /\ Unlink(Frame.slots) /\ cells' = Closed(Frame.slots)
  /\ top' = top - 2
  /\ frameCount' = 0
  /\ UNCHANGED <<frames, upvalue, table>>

(* An instruction fails: resetStack.  A SetGlobal of a name k that is not  *)
(* defined has written to the table and taken the key out again.           *)
RuntimeError(k) ==
  /\ Aside
  /\ Running /\ Frame.ip < CodeMax
  /\ k # Null => table[k] = Absent
  /\ Log(Null, k)
  /\ frames' = [frames EXCEPT ![frameCount].ip = @ + 1]
  /\ top' = 0 /\ frameCount' = 0 /\ open' = {}
  /\ UNCHANGED <<cells, location, upvalue, table>>
-----------------------------------------------------------------------------
(* Mutant: a key that the instruction created stays in the table. *)
UndoneKeepingKey(rec) ==
  IF rec.tableOld = Absent THEN table ELSE [table EXCEPT ![rec.tableKey] = rec.tableOld]

UndoneTable(rec) ==
  IF rec.tableKey = Null THEN table ELSE [table EXCEPT ![rec.tableKey] = rec.tableOld]

(* The memory that stepBack makes of the newest record. *)
Undone ==
  LET rec == Last(log)
      deep == IF rec.slotTarget = Null THEN cells
              ELSE [cells EXCEPT ![rec.slotTarget] = rec.slotOld]
      base == rec.stackHeight - Len(rec.saved)
  IN [cells |-> [c \in Cells |-> IF c \in Slots /\ c \in base + 1 .. rec.stackHeight
                                 THEN rec.saved[c - base] ELSE deep[c]],
      top |-> rec.stackHeight,
      frames |-> [frames EXCEPT ![rec.frameCount].ip = rec.ip],
      frameCount |-> rec.frameCount,
      table |-> UndoneTable(rec)]

StepBack ==
  /\ log # <<>>
  /\ \E mem \in {Undone} :
       /\ cells' = mem.cells /\ top' = mem.top /\ table' = mem.table
       /\ frames' = mem.frames /\ frameCount' = mem.frameCount
  /\ log' = SubSeq(log, 1, Len(log) - 1)
  /\ past' = SubSeq(past, 1, Len(past) - 1)
  /\ asides' = asides \ {Len(log)}
  /\ UNCHANGED closureVars

StepForward ==
  \/ \E v \in Loadable : Load(v)
  \/ \E n \in 1 .. StackMax : Operate(n) \/ PopN(n) \/ CloseScope(n)
  \/ Swap \/ Return \/ ReturnFromScript
  \/ \E n \in 0 .. StackMax : Call(n)
  \/ \E i \in Slots : SetLocal(i) \/ CloseUpvalue(i)
  \/ \E u \in Upvalues : SetUpvalue(u)
  \/ \E k \in Keys : DefineGlobal(k) \/ SetGlobal(k) \/ SetProperty(k)
  \/ \E k \in Keys \cup {Null} : RuntimeError(k)
  \/ \E target \in 1 .. CodeMax : Jump(target)
  \/ \E c \in Closures \ Alive : \/ \E u \in Upvalues \cup {Null} : MakeClosure(c, u)
                                 \/ \E i \in Slots, u \in Upvalues : Capture(c, i, u)

TravelNext == StepForward \/ StepBack

TravelSpec == TravelInit /\ [][TravelNext]_travelVars
-----------------------------------------------------------------------------
(* Cells, frames and upvalues point where they may, whatever was undone.   *)
TravelTypeOK ==
  /\ cells \in [Cells -> Values]
  /\ top \in 0 .. StackMax
  /\ frames \in [1 .. FramesMax -> [closure : Closures \cup {Null}, ip : 0 .. CodeMax,
                                    slots : 0 .. StackMax]]
  /\ frameCount \in 0 .. FramesMax
  /\ \A i \in 1 .. frameCount : frames[i].closure # Null /\ frames[i].slots \in 1 .. top
  /\ location \in [Upvalues -> Cells]
  /\ \A u \in Upvalues : location[u] \in Upvalues => location[u] = u
  /\ open \subseteq Upvalues
  /\ upvalue \in [Closures -> Upvalues \cup {Null}]
  /\ table \in [Keys -> Values \cup {Absent}]

(* A step back gives the captured variables C the values they had.         *)
CapturedRestored(mem, was, C) ==
  \A u \in C \cap DOMAIN was.captured : mem.cells[location[u]] = was.captured[u]

(* A step back from here gives the stack, the frames, the table and the    *)
(* captured variables as they were before the instruction that is undone,  *)
(* also after other steps back.  Of the captured variables, those that are *)
(* on the stack then and were closed since are left out.                   *)
StateRestored ==
  log # <<>> =>
    \E mem \in {Undone}, was \in {Last(past)} :
      /\ mem.top = Len(was.stack) /\ \A i \in 1 .. mem.top : mem.cells[i] = was.stack[i]
      /\ mem.frameCount = Len(was.frames)
      /\ \A i \in 1 .. mem.frameCount : mem.frames[i] = was.frames[i]
      /\ mem.table = was.table
      /\ CapturedRestored(mem, was, Upvalues \ (was.open \ open))

(* "Every instruction is reversible" (debugger.cpp): a step back gives     *)
(* all of that, every captured variable included.                          *)
EverythingRestored ==
  /\ StateRestored
  /\ log # <<>> => CapturedRestored(Undone, Last(past), Upvalues)

(* The undo log is a root (markVMRoots): no closure that stepping back can *)
(* bring back has been collected, whatever the program dropped meanwhile.  *)
PastIsRooted ==
  \A alive \in {Alive}, i \in 1 .. Len(past) :
    ClosuresOf(ValuesIn(past[i].stack) \cup ValuesIn(past[i].table)
               \cup ValuesIn(past[i].captured)
               \cup {past[i].frames[j].closure : j \in DOMAIN past[i].frames}) \subseteq alive
=============================================================================
