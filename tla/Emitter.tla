------------------------------ MODULE Emitter ------------------------------
(***************************************************************************)
(* The code emitter of the compiler (compiler.cpp) with its two peephole   *)
(* rewrites, constant folding (RILL_FOLD) and AddConst (RILL_SUPEROPS), on *)
(* the code of expressions: literals, a local variable, operators, calls,  *)
(* `and`, `break` and discarded values; and the lines that the chunk says  *)
(* the code is from.                                                       *)
(*                                                                         *)
(* Abstracted: offsets count instructions, but in the line table bytes;    *)
(* the four GetLocal superinstructions are the one for slot 0; numbers are *)
(* integers, on which folding and the VM compute the same; of the five     *)
(* arithmetic operators two are here, the fused one and another.           *)
(***************************************************************************)
EXTENDS Terms, Lines

CONSTANTS
  Constants,        \* literals: terms
  Fold,             \* RILL_FOLD
  SuperOps,         \* RILL_SUPEROPS
  CodeMax,          \* bound: instructions
  PoolMax,          \* constants of a chunk, UINT8_MAX + 1 in the code
  AndsMax,          \* bound: nesting of `and`
  LineMax,          \* bound: lines
  ConstantArguments \* bound: calls with the window open, that is, with a
                    \* last argument that is a literal or folded to one

ASSUME FlagsAssumption ==
  Fold \in BOOLEAN /\ SuperOps \in BOOLEAN /\ ConstantArguments \in BOOLEAN

ASSUME BoundsAssumption ==
  CodeMax \in Nat /\ PoolMax \in Nat /\ AndsMax \in Nat /\ LineMax \in Nat \ {0}

VARIABLES
  code,             \* Chunk::code
  constants,        \* Chunk::constants
  pendingConsts,    \* the window: how many constant loads, 0, 1 or 2,
  constIndex,       \* their pool indices
  constCodeStart,   \* and where the first is
  stackDepth,       \* the depth the compiler believes in
  ands,             \* the parser's `and`s in progress: jump and depth below
  line,             \* parser.previous.line
  lines,            \* Chunk::lines_
  lineOf            \* auxiliary: instruction -> the line it was emitted at

emitterVars == <<code, constants, pendingConsts, constIndex, constCodeStart,
                 stackDepth, ands, line, lines, lineOf>>
window == <<pendingConsts, constIndex, constCodeStart>>

Instruction ==
  [op : {"Constant", "AddConst"}, arg : Nat]
    \cup [op : {"GetLocal"} \cup Operators, arg : {0}]
    \cup [op : {"JumpIfFalse", "Jump", "PopN"}, arg : Nat]

EmitterTypeOK ==
  /\ code \in Seq(Instruction) /\ Len(code) <= CodeMax
  /\ Len(constants) <= PoolMax
  /\ pendingConsts \in 0 .. 2
  /\ constIndex \in [0 .. 1 -> Nat]
  /\ constCodeStart \in Nat
  /\ stackDepth \in Nat
  /\ ands \in Seq([jump : Nat, base : Nat])
  /\ line \in 1 .. LineMax /\ lines \in Runs
  /\ Len(lineOf) = Len(code)

EmitterInit ==
  /\ code = <<>> /\ constants = <<>>
  /\ pendingConsts = 0 /\ constIndex = [i \in 0 .. 1 |-> 1]
  /\ constCodeStart = 0
  /\ stackDepth = 0
  /\ ands = <<>>
  /\ line = 1 /\ lines = <<>> /\ lineOf = <<>>
-----------------------------------------------------------------------------
(* Depth below the operands of the expression the parser is in. *)
Base == IF ands = <<>> THEN 0 ELSE ands[Len(ands)].base

(* The parser asks for an operator when its operands are there. *)
HasOperands(n) == stackDepth - Base >= n

HasRoomFor(n) == Len(code) + n <= CodeMax

Instr(op, arg) == [op |-> op, arg |-> arg]

(* Bytes: the opcode and its operands. *)
Width(op) ==
  CASE op \in {"Constant", "AddConst", "Call", "PopN"} -> 2
    [] op \in {"JumpIfFalse", "Jump"} -> 3
    [] op = "GetLocal" -> IF SuperOps THEN 1 ELSE 2
    [] OTHER -> 1

(* The byte at which the instruction i of the code c begins *)
Offset(c, i) ==
  LET at[j \in 1 .. i] == IF j = 1 THEN 0 ELSE at[j - 1] + Width(c[j - 1].op) IN at[i]

(* emitByte: the bytes of i, at the line of the parser *)
Emitted(runs, i) == Written(runs, Width(i.op), line)

(* The code is rewound to its first n instructions; then i is emitted. *)
EmitFrom(n, i) ==
  LET dropped == Offset(code, Len(code) + 1) - Offset(code, n + 1)
  IN /\ code' = Append(SubSeq(code, 1, n), i)
     /\ lines' = Emitted(Rewound(lines, dropped), i)
     /\ lineOf' = Append(SubSeq(lineOf, 1, n), line)
     /\ UNCHANGED line

Emit(i) == EmitFrom(Len(code), i)

Emit2(i, j) ==
  /\ code' = code \o <<i, j>>
  /\ lines' = Emitted(Emitted(lines, i), j)
  /\ lineOf' = lineOf \o <<line, line>>
  /\ UNCHANGED line

(* advance, to a token of a later line *)
NewLine ==
  /\ line < LineMax
  /\ line' = line + 1
  /\ UNCHANGED <<code, constants, window, stackDepth, ands, lines, lineOf>>

(* How emitConstant slides the window over a load at `start`. *)
SlideWindow(start, index) ==
  IF pendingConsts = 1
  THEN /\ pendingConsts' = 2
       /\ constIndex' = [constIndex EXCEPT ![1] = index]
       /\ UNCHANGED constCodeStart
  ELSE /\ pendingConsts' = 1
       /\ constIndex' = [constIndex EXCEPT ![0] = index]
       /\ constCodeStart' = start

(* One constant too many is a compile error. *)
EmitConstant(v) ==
  /\ HasRoomFor(1) /\ Len(constants) < PoolMax
  /\ constants' = Append(constants, v)
  /\ SlideWindow(Len(code), Len(constants'))
  /\ Emit(Instr("Constant", Len(constants')))
  /\ stackDepth' = stackDepth + 1
  /\ UNCHANGED ands

(* emitOpArg(GetLocal, slot) closes the window. *)
EmitLocal ==
  /\ HasRoomFor(1)
  /\ Emit(Instr("GetLocal", 0))
  /\ pendingConsts' = 0
  /\ stackDepth' = stackDepth + 1
  /\ UNCHANGED <<constants, constIndex, constCodeStart, ands>>

CanFold(op) ==
  /\ Fold
  /\ pendingConsts = 2 /\ op \in Arithmetic
  /\ IsNumber(constants[constIndex[0]])
  /\ IsNumber(constants[constIndex[1]])

CanFuse(op) ==
  /\ SuperOps
  /\ op = "Add" /\ pendingConsts = 1
  /\ Len(code) = constCodeStart + 1
  /\ IsNumber(constants[constIndex[0]])

StackEffect(op) ==
  CASE op \in Arithmetic -> -1
    [] op = "Negate" -> 0
    [] op = "Pop" -> -1

(* Mutant: the loads taken back are still in the depth. *)
FoldConstantsDeep(op) ==
  LET folded == Result(op, constants[constIndex[0]], constants[constIndex[1]])
      pool == IF constIndex[1] = Len(constants)
              THEN SubSeq(constants, 1, Len(constants) - 1) ELSE constants
  IN /\ EmitFrom(constCodeStart, Instr("Constant", Len(pool) + 1))
     /\ constants' = Append(pool, folded)
     /\ pendingConsts' = 1
     /\ constIndex' = [constIndex EXCEPT ![0] = Len(pool) + 1]
     /\ UNCHANGED constCodeStart
     /\ stackDepth' = stackDepth + 1

(* Mutant: the pool keeps the constant that is taken back. *)
FoldConstantsKeeping(op) ==
  LET folded == Result(op, constants[constIndex[0]], constants[constIndex[1]])
      pool == constants
  IN /\ EmitFrom(constCodeStart, Instr("Constant", Len(pool) + 1))
     /\ constants' = Append(pool, folded)
     /\ pendingConsts' = 1
     /\ constIndex' = [constIndex EXCEPT ![0] = Len(pool) + 1]
     /\ UNCHANGED constCodeStart
     /\ stackDepth' = stackDepth - 2 + 1

(* tryFold: both loads are taken back, with the pool's last constant, and  *)
(* one of the result is emitted, which starts a new window.                *)
FoldConstants(op) ==
  LET folded == Result(op, constants[constIndex[0]], constants[constIndex[1]])
      pool == IF constIndex[1] = Len(constants)
              THEN SubSeq(constants, 1, Len(constants) - 1) ELSE constants
  IN /\ EmitFrom(constCodeStart, Instr("Constant", Len(pool) + 1))
     /\ constants' = Append(pool, folded)
     /\ pendingConsts' = 1
     /\ constIndex' = [constIndex EXCEPT ![0] = Len(pool) + 1]
     /\ UNCHANGED constCodeStart
     /\ stackDepth' = stackDepth - 2 + 1

(* tryFuseAddConst *)
FuseAddConst ==
  /\ EmitFrom(constCodeStart, Instr("AddConst", constIndex[0]))
  /\ pendingConsts' = 0
  /\ stackDepth' = stackDepth - 1
  /\ UNCHANGED <<constants, constIndex, constCodeStart>>

EmitPlain(op) ==
  /\ HasRoomFor(1)
  /\ Emit(Instr(op, 0))
  /\ pendingConsts' = 0
  /\ stackDepth' = stackDepth + StackEffect(op)
  /\ UNCHANGED <<constants, constIndex, constCodeStart>>

EmitOp(op) ==
  /\ HasOperands(Operands(op))
  /\ IF CanFold(op) THEN FoldConstants(op)
     ELSE IF CanFuse(op) THEN FuseAddConst
     ELSE EmitPlain(op)
  /\ UNCHANGED ands

(* emitCall of one argument, which leaves the window as it is.  The guard  *)
(* of the bound also leaves out calls with a folded argument, f(1 + 2).    *)
EmitCall ==
  /\ HasOperands(Operands("Call")) /\ HasRoomFor(1)
  /\ ConstantArguments \/ pendingConsts = 0
  /\ Emit(Instr("Call", 0))
  /\ stackDepth' = stackDepth - 1
  /\ UNCHANGED <<constants, window, ands>>

Unpatched == 0

(* andExpr after its left operand: a jump, to be patched, and Pop. *)
BeginAnd ==
  /\ HasOperands(1) /\ HasRoomFor(2) /\ Len(ands) < AndsMax
  /\ Emit2(Instr("JumpIfFalse", Unpatched), Instr("Pop", 0))
  /\ pendingConsts' = 0
  /\ stackDepth' = stackDepth - 1
  /\ ands' = Append(ands, [jump |-> Len(code) + 1, base |-> stackDepth - 1])
  /\ UNCHANGED <<constants, constIndex, constCodeStart>>

(* Mutant: patchJump leaves the window open. *)
PatchJumpOpen ==
  LET jump == ands[Len(ands)].jump
  IN /\ code' = [code EXCEPT ![jump].arg = Len(code) + 1]
     /\ UNCHANGED window

(* The jump leads to the next instruction that is emitted. *)
PatchJump ==
  LET jump == ands[Len(ands)].jump
  IN /\ code' = [code EXCEPT ![jump].arg = Len(code) + 1]
     /\ pendingConsts' = 0
     /\ UNCHANGED <<constIndex, constCodeStart>>

EndAnd ==
  /\ ands # <<>> /\ stackDepth = Base + 1
  /\ PatchJump
  /\ ands' = SubSeq(ands, 1, Len(ands) - 1)
  /\ UNCHANGED <<constants, stackDepth, line, lines, lineOf>>

(* Mutant: emitJump leaves the window open, as emitPopN does. *)
BreakOpen ==
  /\ HasRoomFor(2) /\ stackDepth > 0
  /\ Emit2(IF stackDepth = 1 THEN Instr("Pop", 0) ELSE Instr("PopN", stackDepth),
           Instr("Jump", Unpatched))
  /\ pendingConsts' = IF stackDepth = 1 THEN 0 ELSE pendingConsts
  /\ stackDepth' = stackDepth + 1
  /\ UNCHANGED <<constants, constIndex, constCodeStart, ands>>

(* breakExpr in a loop that has begun where this code does: emitPopN, with *)
(* Pop for one value, and a jump out of this code; a break with nothing to *)
(* pop only jumps, and is left out.                                        *)
Break ==
  /\ HasRoomFor(2) /\ stackDepth > 0
  /\ Emit2(IF stackDepth = 1 THEN Instr("Pop", 0) ELSE Instr("PopN", stackDepth),
           Instr("Jump", Unpatched))
  /\ pendingConsts' = 0
  /\ stackDepth' = stackDepth + 1
  /\ UNCHANGED <<constants, constIndex, constCodeStart, ands>>

EmitterNext ==
  \/ \E v \in Constants : EmitConstant(v)
  \/ \E op \in Arithmetic \cup {"Negate", "Pop"} : EmitOp(op)
  \/ EmitLocal \/ EmitCall \/ BeginAnd \/ EndAnd \/ Break \/ NewLine

EmitterSpec == EmitterInit /\ [][EmitterNext]_emitterVars
-----------------------------------------------------------------------------
(* The VM on the emitted code, for a truth of x.  `target` is where the    *)
(* VM jumps to, 0 if it goes on, and Len(code) + 1 for a jump not patched. *)

Step(program, pool, i, truth, vm) ==
  LET s == vm.stack
      op == program[i].op
      arg == program[i].arg
  IN IF i < vm.target \/ vm.jump # 0 THEN vm
     ELSE CASE op = "Constant" -> [vm EXCEPT !.stack = Append(s, pool[arg])]
            [] op = "GetLocal" -> [vm EXCEPT !.stack = Append(s, X)]
            [] op = "AddConst" ->
                 [vm EXCEPT !.stack =
                    Append(Dropping(s, 1),
                           IF IsNumber(pool[arg]) THEN Result("Add", LastOf(s), pool[arg])
                           ELSE Failure)]
            [] op = "JumpIfFalse" ->
                 IF ~IsFalsy(LastOf(s), truth) THEN vm
                 ELSE IF arg = Unpatched THEN [vm EXCEPT !.jump = i]
                 ELSE [vm EXCEPT !.target = arg]
            [] op = "PopN" -> [vm EXCEPT !.stack = Dropping(s, arg)]
            [] op = "Jump" -> [vm EXCEPT !.jump = i]
            [] OTHER -> [vm EXCEPT !.stack = After(op, s)]

(* The CHOOSE is of the one next state: with it TLC evaluates that once.   *)
Execution(program, pool, truth) ==
  LET vm[i \in 0 .. Len(program)] ==
        IF i = 0 THEN [stack |-> <<>>, target |-> 0, jump |-> 0]
        ELSE CHOOSE next \in {Step(program, pool, i, truth, last) : last \in {vm[i - 1]}} : TRUE
  IN vm[Len(program)]

Run(truth) == Execution(code, constants, truth)

Stacks == [b \in BOOLEAN |-> Run(b).stack]

(* The `and` in progress whose jump is not patched yet, 0, or Gone. *)
Skipping ==
  [b \in BOOLEAN |->
     IF Run(b).jump = 0 THEN 0
     ELSE IF code[Run(b).jump].op = "Jump" THEN AndsMax + 1
     ELSE CHOOSE n \in 1 .. Len(ands) : ands[n].jump = Run(b).jump]

Plain == INSTANCE StackCode WITH left <- Stacks, skipping <- Skipping

(* The rewritten code leaves on the stack what the code as it was emitted  *)
(* leaves, whatever is folded or fused: no call is lost, no constant       *)
(* changes, no jump lands elsewhere.                                       *)
MeansTheSame == Plain!MeaningSpec

(* The compiler knows the height of the stack: it is what locals' slots    *)
(* are taken from.                                                         *)
DepthIsTrue ==
  \A b \in BOOLEAN : Run(b).jump = 0 => stackDepth = Len(Run(b).stack)

(* Every byte of an instruction is from the line it was emitted at, also   *)
(* after rewrites that take back bytes of several lines: it is the line    *)
(* that a runtime error and the debugger show.                             *)
LinesTrue ==
  \A i \in DOMAIN code : \A byte \in Offset(code, i) .. Offset(code, i + 1) - 1 :
    LineAt(lines, byte) = lineOf[i]
=============================================================================
