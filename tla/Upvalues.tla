------------------------------ MODULE Upvalues ------------------------------
(***************************************************************************)
(* Local variables on the VM's value stack, the frames that hold them and  *)
(* the upvalues through which closures reach them (vm.cpp), as driven by   *)
(* the instructions the compiler emits at the ends of scopes, match arms,  *)
(* loops and functions.                                                    *)
(*                                                                         *)
(* `cells` says which variable of the program a stack slot holds: what the *)
(* compiler's table of locals says at this point of the code.  `cellOf` is *)
(* auxiliary: the variable an upvalue was made for.                        *)
(* Abstracted: a closure is the upvalue it holds; all values but Nil are   *)
(* interchangeable; slots are numbered from 1.                             *)
(***************************************************************************)
EXTENDS Naturals, Sequences, FiniteSets

CONSTANTS
  Values,         \* values of the program
  Cells,          \* bound: variables that exist at the same time
  Upvalues,       \* bound: ObjUpvalue addresses
  Temporary,      \* the "cell" of a slot that is no variable
  Dead,           \* the content of a cell nobody can name
  StackMax,       \* kStackMax, 64 * 256 in the code, which never checks it
  FramesMax,      \* kFramesMax, 64 in the code
  Abrupt          \* bound: the operations, a subset of AbruptOps, that may
                  \* leave a variable that is captured

AbruptOps == {"break", "match", "error"}

ASSUME CellsAssumption == Temporary \notin Cells
ASSUME BoundsAssumption == StackMax \in Nat /\ FramesMax \in Nat \ {0}
ASSUME AbruptAssumption == Abrupt \subseteq AbruptOps
ASSUME ValuesAssumption == Values # {}

VARIABLES
  stack,          \* stack_ below stackTop_
  frames,         \* frames_: the slot of the callee and the parameter count
  open,           \* openUpvalues_: the list from its head
  at,             \* upvalue -> the slot `location` points to, 0 when closed
  closed,         \* upvalue -> closed
  held,           \* upvalues some closure holds
  cells,          \* Local of the compiler: the variable in a slot, or Temporary
  cellOf          \* auxiliary: upvalue -> the variable it was made for

upvalueVars == <<stack, frames, open, at, closed, held, cells, cellOf>>
stackVars == <<stack, frames, cells>>
listVars == <<open, at, closed, held, cellOf>>

Top == Len(stack)
Frame == frames[Len(frames)]
Running == frames # <<>>

(* Slots of the running function above its parameters. *)
FirstFree == Frame.slots + Frame.params + 1

UpvaluesTypeOK ==
  /\ stack \in Seq(Values) /\ Top <= StackMax
  /\ cells \in Seq(Cells \cup {Temporary}) /\ Len(cells) = Top
  /\ frames \in Seq([slots : 1 .. Top, params : Nat]) /\ Len(frames) <= FramesMax
  /\ open \in Seq(Upvalues)
  /\ at \in [Upvalues -> 0 .. StackMax]
  /\ closed \in [Upvalues -> Values]
  /\ held \subseteq Upvalues
  /\ cellOf \in [Upvalues -> Cells \cup {Temporary}]

AnyValue == CHOOSE v \in Values : TRUE

UpvaluesInit ==
  /\ stack = <<>> /\ frames = <<>> /\ cells = <<>>
  /\ open = <<>>
  /\ at = [u \in Upvalues |-> 0]
  /\ closed = [u \in Upvalues |-> AnyValue]
  /\ held = {}
  /\ cellOf = [u \in Upvalues |-> Temporary]
-----------------------------------------------------------------------------
IsOpen(u) == \E i \in 1 .. Len(open) : open[i] = u

(* Cells of the program that are not in use. *)
InScope == {cells[i] : i \in 1 .. Len(cells)} \ {Temporary}
CapturedCells == {cellOf[u] : u \in held}
Unused == Cells \ (InScope \cup CapturedCells)

(* Mutant: the slot `last` itself is left open. *)
ClosesAbove(last) ==
  CHOOSE n \in 0 .. Len(open) :
    /\ \A i \in 1 .. n : at[open[i]] > last
    /\ n < Len(open) => at[open[n + 1]] <= last

(* How many upvalues, from the head of the list, closeUpvalues(last) takes.*)
ClosesFrom(last) ==
  CHOOSE n \in 0 .. Len(open) :
    /\ \A i \in 1 .. n : at[open[i]] >= last
    /\ n < Len(open) => at[open[n + 1]] < last

(* The collector takes an upvalue that nothing names; its fields are lost. *)
Without(f, garbage, lost) ==
  [u \in Upvalues |-> IF u \in garbage THEN lost ELSE f[u]]

(* closeUpvalues(last): their values move from the stack into them; those  *)
(* that no closure holds are garbage now.                                  *)
CloseUpvalues(last) ==
  LET leaving == {open[i] : i \in 1 .. ClosesFrom(last)}
  IN /\ closed' = [u \in Upvalues |-> IF u \in leaving \cap held THEN stack[at[u]]
                                      ELSE closed[u]]
     /\ at' = Without(at, leaving, 0)
     /\ open' = SubSeq(open, ClosesFrom(last) + 1, Len(open))
     /\ cellOf' = Without(cellOf, leaving \ held, Temporary)
     /\ UNCHANGED held

(* *location of an upvalue. *)
Read(u) == IF at[u] = 0 THEN closed[u] ELSE stack[at[u]]
-----------------------------------------------------------------------------
(* VM::interpret: the script's closure and its frame. *)
Interpret ==
  /\ ~Running /\ Top < StackMax
  /\ stack' = Append(stack, AnyValue)
  /\ cells' = Append(cells, Temporary)
  /\ frames' = <<[slots |-> Top + 1, params |-> 0]>>
  /\ UNCHANGED listVars

PushTemporary(v) ==
  /\ Running /\ Top < StackMax
  /\ stack' = Append(stack, v)
  /\ cells' = Append(cells, Temporary)
  /\ UNCHANGED frames

(* Any instruction that leaves one more temporary. *)
Push(v) == PushTemporary(v) /\ UNCHANGED listVars

HasTemporary == Running /\ Top >= FirstFree /\ cells[Top] = Temporary

Pop ==
  /\ HasTemporary
  /\ stack' = SubSeq(stack, 1, Top - 1)
  /\ cells' = SubSeq(cells, 1, Top - 1)
  /\ UNCHANGED <<frames, listVars>>

(* declareLocal and declareLocalAtSlot: the value on top is the variable. *)
Bind(c) ==
  /\ HasTemporary /\ c \in Unused
  /\ cells' = [cells EXCEPT ![Top] = c]
  /\ UNCHANGED <<stack, frames, listVars>>

IsLocal(i) == i \in Frame.slots .. Top /\ cells[i] # Temporary

SetLocal(i, v) ==
  /\ Running /\ IsLocal(i)
  /\ stack' = [stack EXCEPT ![i] = v]
  /\ UNCHANGED <<frames, cells, listVars>>

SetUpvalue(u, v) ==
  /\ Running /\ u \in held
  /\ IF at[u] = 0
     THEN closed' = [closed EXCEPT ![u] = v] /\ UNCHANGED stack
     ELSE stack' = [stack EXCEPT ![at[u]] = v] /\ UNCHANGED closed
  /\ UNCHANGED <<frames, cells, open, at, held, cellOf>>

(* Mutant: every closure gets an upvalue of its own. *)
CaptureUnshared(i, u) ==
  /\ PushTemporary(AnyValue) /\ IsLocal(i)
  /\ u \notin held /\ ~IsOpen(u)
  /\ LET n == Cardinality({w \in Upvalues : IsOpen(w) /\ at[w] > i})
     IN open' = SubSeq(open, 1, n) \o <<u>> \o SubSeq(open, n + 1, Len(open))
  /\ at' = [at EXCEPT ![u] = i]
  /\ held' = held \cup {u}
  /\ cellOf' = [cellOf EXCEPT ![u] = cells[i]]
  /\ UNCHANGED closed

(* The instruction Closure pushes a closure that captures the local in     *)
(* slot i: captureUpvalue walks past the open upvalues of higher slots and *)
(* then finds the one of this slot, or links a new one in there.           *)
Capture(i, u) ==
  LET n == CHOOSE m \in 0 .. Len(open) :
             /\ \A j \in 1 .. m : at[open[j]] > i
             /\ m < Len(open) => at[open[m + 1]] <= i
  IN /\ PushTemporary(AnyValue) /\ IsLocal(i)
     /\ IF n < Len(open) /\ at[open[n + 1]] = i
        THEN u = open[n + 1] /\ UNCHANGED <<open, at>>
        ELSE /\ u \notin held /\ ~IsOpen(u)
             /\ open' = SubSeq(open, 1, n) \o <<u>> \o SubSeq(open, n + 1, Len(open))
             /\ at' = [at EXCEPT ![u] = i]
     /\ held' = held \cup {u}
     /\ cellOf' = [cellOf EXCEPT ![u] = cells[i]]
     /\ UNCHANGED closed

(* The last closure that holds u is gone; an open upvalue stays listed. *)
Release(u) ==
  /\ u \in held
  /\ held' = held \ {u}
  /\ IF IsOpen(u)
     THEN UNCHANGED <<closed, cellOf>>
     ELSE /\ closed' = Without(closed, {u}, AnyValue)
          /\ cellOf' = Without(cellOf, {u}, Temporary)
  /\ UNCHANGED <<stackVars, open, at>>

(* Mutant: the frame limit is tested once too late. *)
CallOneTooDeep(params) ==
  /\ Running /\ Len(frames) <= FramesMax
  /\ Len(params) < Top /\ Top - Len(params) >= FirstFree
  /\ \A i \in Top - Len(params) .. Top : cells[i] = Temporary
  /\ \A i \in 1 .. Len(params) : params[i] \in Unused
  /\ frames' = Append(frames, [slots |-> Top - Len(params), params |-> Len(params)])
  /\ cells' = SubSeq(cells, 1, Top - Len(params)) \o params
  /\ UNCHANGED <<stack, listVars>>

(* callValue: the arguments on top become the parameters. *)
Call(params) ==
  /\ Running /\ Len(frames) < FramesMax
  /\ Len(params) < Top /\ Top - Len(params) >= FirstFree
  /\ \A i \in Top - Len(params) .. Top : cells[i] = Temporary
  /\ \A i \in 1 .. Len(params) : params[i] \in Unused
  /\ \A i, j \in 1 .. Len(params) : params[i] = params[j] => i = j
  /\ frames' = Append(frames, [slots |-> Top - Len(params), params |-> Len(params)])
  /\ cells' = SubSeq(cells, 1, Top - Len(params)) \o params
  /\ UNCHANGED <<stack, listVars>>

(* n slots below the one on top go; the one on top stays on top. *)
CloseScope(n) ==
  /\ stack' = Append(SubSeq(stack, 1, Top - n - 1), stack[Top])
  /\ cells' = Append(SubSeq(cells, 1, Top - n - 1), Temporary)
  /\ UNCHANGED frames

OpenIn(S) == {i \in S : \E u \in Upvalues : IsOpen(u) /\ at[u] = i}

(* n variables lie right below a temporary, the result. *)
Covers(n) ==
  /\ HasTemporary /\ Top - n >= FirstFree
  /\ \A i \in Top - n .. Top - 1 : cells[i] # Temporary

(* Mutant: endScope remembers the highest captured slot. *)
EndScopeFromHighest(n) ==
  /\ n > 0 /\ Covers(n)
  /\ LET captured == OpenIn(Top - n .. Top - 1)
     IN IF captured = {} THEN UNCHANGED listVars
        ELSE CloseUpvalues(CHOOSE s \in captured : \A t \in captured : t <= s)
  /\ CloseScope(n)

(* A block ends: endScope emits CloseUpvalue with the lowest slot that a   *)
(* closure captured, and CloseScope.                                       *)
EndScope(n) ==
  /\ n > 0 /\ Covers(n)
  /\ LET captured == OpenIn(Top - n .. Top - 1)
     IN IF captured = {} THEN UNCHANGED listVars
        ELSE CloseUpvalues(CHOOSE s \in captured : \A t \in captured : s <= t)
  /\ CloseScope(n)

(* An arm `name -> body` ends: matchExpr emits CloseScope 1 only. *)
EndMatchArm ==
  /\ Covers(1)
  /\ "match" \in Abrupt \/ OpenIn({Top - 1}) = {}
  /\ CloseScope(1)
  /\ UNCHANGED listVars

(* break and continue: PopN back to the depth the loop started at. *)
LeaveLoop(n) ==
  /\ Running /\ n > 0 /\ Top - n >= FirstFree - 1
  /\ "break" \in Abrupt \/ OpenIn(Top - n + 1 .. Top) = {}
  /\ stack' = SubSeq(stack, 1, Top - n)
  /\ cells' = SubSeq(cells, 1, Top - n)
  /\ UNCHANGED <<frames, listVars>>

Return ==
  /\ HasTemporary /\ Len(frames) > 1
  /\ CloseUpvalues(Frame.slots)
  /\ stack' = Append(SubSeq(stack, 1, Frame.slots - 1), stack[Top])
  /\ cells' = Append(SubSeq(cells, 1, Frame.slots - 1), Temporary)
  /\ frames' = SubSeq(frames, 1, Len(frames) - 1)

(* The script returns: two slots are popped, its result and what is below  *)
(* it.  A `return` inside a block or an expression leaves slots behind,    *)
(* and the next script of the REPL begins above them.                      *)
ReturnFromScript ==
  /\ HasTemporary /\ Len(frames) = 1
  /\ CloseUpvalues(Frame.slots)
  /\ stack' = SubSeq(stack, 1, Top - 2)
  /\ cells' = [i \in 1 .. Top - 2 |-> Temporary]
  /\ frames' = <<>>

(* runtimeError ends with resetStack. *)
RuntimeError ==
  /\ Running
  /\ "error" \in Abrupt \/ \A u \in held : ~IsOpen(u)
  /\ stack' = <<>> /\ cells' = <<>> /\ frames' = <<>>
  /\ open' = <<>>
  /\ at' = Without(at, Upvalues \ held, 0)
  /\ cellOf' = Without(cellOf, Upvalues \ held, Temporary)
  /\ UNCHANGED <<closed, held>>

UpvaluesNext ==
  \/ Interpret \/ Pop \/ Return \/ ReturnFromScript \/ RuntimeError
  \/ EndMatchArm
  \/ \E v \in Values : Push(v)
  \/ \E c \in Cells : Bind(c) \/ Call(<<c>>)
  \/ Call(<<>>)
  \/ \E i \in 1 .. Top : \/ \E v \in Values : SetLocal(i, v)
                         \/ \E u \in Upvalues : Capture(i, u)
                         \/ EndScope(i) \/ LeaveLoop(i)
  \/ \E u \in Upvalues : Release(u) \/ \E v \in Values : SetUpvalue(u, v)

UpvaluesSpec == UpvaluesInit /\ [][UpvaluesNext]_upvalueVars
-----------------------------------------------------------------------------
(* What a cell holds, as a closure sees it if one captured it. *)
Content ==
  [c \in Cells |->
     IF c \in CapturedCells THEN Read(CHOOSE u \in held : cellOf[u] = c)
     ELSE IF c \in InScope THEN stack[CHOOSE i \in 1 .. Top : cells[i] = c]
     ELSE Dead]

Program == INSTANCE Variables
  WITH scope <- InScope, captured <- CapturedCells, content <- Content

(* Closures and scopes see variables, not slots: a captured variable keeps *)
(* its value when its scope ends, and no other write reaches it.           *)
ImplementsVariables == Program!CellsSpec

(* A closure and the scope of the variable it captured, and two closures   *)
(* that captured the same variable, see each other's assignments.          *)
WritesAreShared ==
  \A u \in held :
    /\ \A w \in held : cellOf[u] = cellOf[w] => u = w
    /\ \A i \in 1 .. Top : cells[i] = cellOf[u] => at[u] = i

(* An upvalue that points into the stack points at the slot of its own     *)
(* variable, while that slot is live (object.hpp: "once the slot dies the  *)
(* value is copied").                                                      *)
OpenSlotsLive ==
  \A u \in held : at[u] # 0 => at[u] <= Top /\ cells[at[u]] = cellOf[u]
-----------------------------------------------------------------------------
(* A frame begins above the parameters of the one below it, its variables  *)
(* are above its callee, and no two slots hold the same variable.          *)
FramesNested ==
  /\ \A i, j \in 1 .. Len(frames) :
       i < j => frames[i].slots + frames[i].params < frames[j].slots
  /\ Running => Frame.slots + Frame.params <= Top
  /\ \A i \in 1 .. Top : cells[i] # Temporary => Running /\ frames[1].slots <= i
  /\ \A i, j \in 1 .. Top : cells[i] = cells[j] /\ cells[i] # Temporary => i = j

(* openUpvalues_ goes from higher to lower slots and lists what is open.   *)
OpenSorted ==
  /\ \A i, j \in 1 .. Len(open) : i < j => at[open[j]] < at[open[i]]
  /\ \A u \in Upvalues : at[u] # 0 <=> IsOpen(u)

(* What is open is a variable in its slot; what a closure holds and is     *)
(* closed has left every scope; nothing was captured twice.                *)
CapturesSound ==
  /\ \A u \in Upvalues : at[u] # 0 =>
       at[u] <= Top /\ cells[at[u]] = cellOf[u] /\ cellOf[u] # Temporary
  /\ \A u \in held : at[u] = 0 => cellOf[u] \in Cells \ InScope
  /\ \A u, w \in held : cellOf[u] = cellOf[w] => u = w

UpvaluesInv == UpvaluesTypeOK /\ FramesNested /\ OpenSorted /\ CapturesSound
=============================================================================
