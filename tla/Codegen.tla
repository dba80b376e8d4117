------------------------------ MODULE Codegen ------------------------------
(***************************************************************************)
(* The single-pass compiler at the control structures: function bodies of  *)
(* any length, parsed (parser.cpp) and compiled (compiler.cpp) construct   *)
(* by construct.  Code is emitted in one order and executed (vm.cpp) in    *)
(* others, so the compiler corrects the stack depth it tracks at every     *)
(* branch and join, and takes the slots of locals from it.                 *)
(*                                                                         *)
(* The parser's C++ stack is `contexts`; an action is what one parse       *)
(* function does between two calls of expression() or exprList().  Instead *)
(* of the code, the model keeps what it does: `stacks`, all the stacks     *)
(* with which the VM can get to the next instruction.  A jump to be        *)
(* patched is the set of stacks that take it.                              *)
(*                                                                         *)
(* Abstracted: a stack value is only the variable it is; a test may go     *)
(* either way; precedence is free, as with parentheses.  A program with a  *)
(* compile error ends at it.  Captured locals are in Upvalues, the         *)
(* peephole window in Emitter.                                             *)
(***************************************************************************)
EXTENDS Integers, Sequences

CONSTANTS
  Names,            \* of locals
  SlotWidth,        \* slots an operand byte can name, UINT8_MAX + 1 in the code
  Scattered,        \* bound: programs with `let` and `var` inside expressions
  NestingMax,       \* bound: contexts
  ItemsMax          \* bound: arguments and fields

ASSUME CodegenAssumption ==
  /\ SlotWidth \in Nat \ {0} /\ Scattered \in BOOLEAN
  /\ NestingMax \in Nat \ {0} /\ ItemsMax \in Nat

VARIABLES
  compiler,         \* depth, scopeDepth and locals of Compiler, the stacks, and
                    \* those `strayed` to a loop's start that had others
  contexts,         \* the parse functions that are active
  expects           \* what comes next: an "operand", an "operator" or an "end"

codegenVars == <<compiler, contexts, expects>>

Temporary == 0      \* a stack value that is no variable

Locals == [name : Names, depth : Nat, slot : Nat, mutable : BOOLEAN, variable : Nat]

CodegenTypeOK ==
  /\ \A i \in DOMAIN compiler.locals : compiler.locals[i] \in Locals
  /\ compiler.depth \in Nat /\ compiler.scopeDepth \in Nat
  /\ \A s \in compiler.stacks : s \in Seq(Nat)
  /\ expects \in {"operand", "operator", "end"}
  /\ Len(contexts) \in 1 .. NestingMax

Last(s) == s[Len(s)]
Front(s) == SubSeq(s, 1, Len(s) - 1)

(* initCompiler: slot 0 holds the callee; the body is a scope, an exprList. *)
NoCode == [depth |-> 1, scopeDepth |-> 1, locals |-> <<>>,
           stacks |-> {<<Temporary>>}, strayed |-> {}]

CodegenInit ==
  /\ compiler = NoCode
  /\ contexts = <<[of |-> "function", begun |-> FALSE]>>
  /\ expects = "operand"
-----------------------------------------------------------------------------
(* Emission: what the instruction does to the depth the compiler believes  *)
(* in, and to the stacks there are.                                        *)

StackEffect(op) ==
  CASE op \in {"Constant", "Nil", "GetLocal", "Dup"} -> 1
    [] op \in {"Pop", "Equal"} -> -1
    [] OTHER -> 0

Pushed(s) == Append(s, Temporary)
Popped(s, n) == SubSeq(s, 1, Len(s) - n)

(* The stack, from the frame's slots on, after the VM has executed i. *)
Executed(i, s) ==
  CASE i.op \in {"Constant", "Nil", "GetLocal", "Dup"} -> Pushed(s)
    [] i.op \in {"Pop", "PopN"} -> Popped(s, i.arg)
    [] i.op = "Equal" -> Pushed(Popped(s, 2))
    [] i.op = "GetProperty" -> Pushed(Popped(s, 1))
    [] i.op = "Swap" -> Popped(s, 2) \o <<Last(s), s[Len(s) - 1]>>
    [] i.op = "Call" -> Pushed(Popped(s, i.arg + 1))
    [] i.op = "MakeMap" -> Pushed(Popped(s, 2 * i.arg))
    [] i.op = "CloseScope" -> Append(Popped(s, i.arg + 1), Last(s))
    [] i.op = "SetLocal" -> [s EXCEPT ![i.slot + 1] = i.arg]
    [] OTHER -> s

(* Execution goes on with the next instruction. *)
FallsThrough(op) == op \notin {"Jump", "Loop", "Return"}

(* c after emitOp or emitOpArg of i *)
c ++ i ==
  [c EXCEPT !.depth = @ + StackEffect(i.op),
            !.stacks = IF FallsThrough(i.op) THEN {Executed(i, s) : s \in @} ELSE {}]

OpArg(op, arg) == [op |-> op, arg |-> arg]
Op(op) == OpArg(op, 1)

SetDepth(c, depth) == [c EXCEPT !.depth = depth]

(* emitPopN *)
Unwound(c, count) ==
  IF count <= 0 THEN c
  ELSE IF count = 1 THEN c ++ Op("Pop")
  ELSE SetDepth(c ++ OpArg("PopN", count), c.depth - count)

(* Mutant: the callee is taken off the depth, the result is not put back. *)
EmitCallLost(c, count) == SetDepth(c ++ OpArg("Call", count), c.depth - count - 1)

EmitCall(c, count) == SetDepth(c ++ OpArg("Call", count), c.depth - count)

(* patchJump: who takes the jump gets here, too. *)
Patched(c, jump) == [c EXCEPT !.stacks = @ \cup jump]

(* emitLoop, to a place the VM has got to with `start` *)
EmitLoop(c, start) ==
  [c EXCEPT !.stacks = {}, !.strayed = @ \cup (c.stacks \ start)]
-----------------------------------------------------------------------------
(* Scopes *)

BeginScope(c) == [c EXCEPT !.scopeDepth = @ + 1]

(* How many locals are left when those of the scope are taken off the end. *)
Outside(c) ==
  CHOOSE n \in 0 .. Len(c.locals) :
    /\ n = 0 \/ c.locals[n].depth < c.scopeDepth
    /\ \A i \in n + 1 .. Len(c.locals) : c.locals[i].depth >= c.scopeDepth

EndScope(c) ==
  LET popped == Len(c.locals) - Outside(c)
      left == [c EXCEPT !.scopeDepth = @ - 1, !.locals = SubSeq(@, 1, Outside(c))]
  IN IF popped = 0 THEN left
     ELSE SetDepth(left ++ OpArg("CloseScope", popped), c.depth - popped)

(* A variable no stack has; numbers of variables that are gone are reused. *)
Fresh(c) ==
  LET used == {c.locals[i].variable : i \in DOMAIN c.locals}
  IN CHOOSE v \in 1 .. Len(c.locals) + 1 : v \notin used

(* The value on top, in all the stacks, is from here on the variable's. *)
DeclareAtSlot(c, name, slot, mutable) ==
  [c EXCEPT !.locals = Append(@, [name |-> name, depth |-> c.scopeDepth, slot |-> slot,
                                  mutable |-> mutable, variable |-> Fresh(c)]),
            !.stacks = {Append(Front(s), Fresh(c)) : s \in @}]

(* Mutant: a local's slot is its place among the locals. *)
DeclareLocalByIndex(c, name, mutable) ==
  DeclareAtSlot(c, name, Len(c.locals) + 1, mutable)

DeclareLocal(c, name, mutable) == DeclareAtSlot(c, name, c.depth - 1, mutable)

(* declareLocal reports a second binding of a name in one scope. *)
InThisScope(c, name) ==
  \E i \in DOMAIN c.locals : c.locals[i].name = name /\ c.locals[i].depth = c.scopeDepth

RemoveInnermostLocal(c) == [c EXCEPT !.locals = IF @ = <<>> THEN @ ELSE Front(@)]

(* resolveLocal: the innermost local of that name, if there is one *)
Resolved(name) ==
  LET named == {i \in DOMAIN compiler.locals : compiler.locals[i].name = name}
  IN {compiler.locals[i] : i \in {j \in named : \A k \in named : k <= j}}
-----------------------------------------------------------------------------
(* The parser *)

Lists == {"function", "body", "block"}   \* contexts of an exprList

Top == Last(contexts)
Operand == expects = "operand"
Ended == expects # "operand"
In(of) == Ended /\ Top.of = of
Part(of, part) == In(of) /\ Top.part = part

(* After `c` comes what `next` says. *)
Goes(c, next) == compiler' = c /\ expects' = next

HasRoom == Len(contexts) < NestingMax
Enter(context) == HasRoom /\ contexts' = Append(contexts, context)
Become(context) == contexts' = Append(Front(contexts), context)
Leave == contexts' = Front(contexts)

Literal == Operand /\ Goes(compiler ++ Op("Constant"), "operator") /\ UNCHANGED contexts

(* namedVariable.  It resolves the name before it compiles a value to assign. *)
Variable(name) ==
  /\ Operand /\ Resolved(name) # {}
  /\ Goes(compiler ++ Op("GetLocal"), "operator")
  /\ UNCHANGED contexts

BeginAssignment(name) ==
  /\ Operand
  /\ \E local \in Resolved(name) :
       local.mutable /\ Enter([of |-> "assignment", local |-> local])
  /\ UNCHANGED <<compiler, expects>>

Byte(slot) == slot % SlotWidth

EndAssignment ==
  /\ In("assignment")
  /\ Goes(compiler ++ [op |-> "SetLocal", slot |-> Byte(Top.local.slot),
                       arg |-> Top.local.variable], "operator")
  /\ Leave

(* `let` and `var` yield nil above the slot they keep. *)
BeginDeclaration(name, mutable) ==
  /\ Operand /\ (Scattered \/ Top.of \in Lists)
  /\ Enter([of |-> "declaration", name |-> name, mutable |-> mutable])
  /\ UNCHANGED <<compiler, expects>>

EndDeclaration ==
  /\ In("declaration") /\ ~InThisScope(compiler, Top.name)
  /\ Goes(DeclareLocal(compiler, Top.name, Top.mutable) ++ Op("Nil"),
          IF Scattered THEN "operator" ELSE "end")
  /\ Leave

(* exprList: a value that another expression follows is discarded. *)
NextItem ==
  /\ Ended /\ Top.of \in Lists
  /\ Goes(compiler ++ Op("Pop"), "operand")
  /\ Become([Top EXCEPT !.begun = TRUE])

(* What is emitted when the closing brace comes: before any expression,    *)
(* but for a block, as a literal `{}` is a map; after the last one; or     *)
(* after one that a `;` discards.                                          *)
Closing ==
  IF Operand
  THEN IF Top.begun \/ Top.of = "block" THEN {} ELSE {compiler ++ Op("Nil")}
  ELSE {compiler, compiler ++ Op("Pop") ++ Op("Nil")}

BeginBlock ==
  /\ Operand
  /\ compiler' = BeginScope(compiler)
  /\ Enter([of |-> "block", begun |-> FALSE])
  /\ UNCHANGED expects

EndBlock ==
  /\ Top.of \in {"block", "body"}
  /\ \E c \in Closing : Goes(EndScope(c), "operator")
  /\ Leave

(* The block of an `if` or a `while`, whose context becomes `context`. *)
OpenBlock(c, context) ==
  /\ Goes(BeginScope(c), "operand")
  /\ HasRoom /\ contexts' = Front(contexts) \o <<context, [of |-> "body", begun |-> FALSE]>>

(* endCompiler, and another function begins. *)
Finish ==
  /\ Len(contexts) = 1
  /\ \E c \in Closing : Goes([NoCode EXCEPT !.strayed = c.strayed], "operand")
  /\ Become([Top EXCEPT !.begun = FALSE])

(* declareParam: the argument is on the stack when the frame starts. *)
DeclareParam(name) ==
  /\ Operand /\ Len(contexts) = 1 /\ ~Top.begun
  /\ ~InThisScope(compiler, name)
  /\ compiler' = DeclareLocal(compiler ++ Op("Nil"), name, TRUE)
  /\ UNCHANGED <<contexts, expects>>

(* returnExpr, bare or with a value *)
Returned(c, before) == SetDepth(c ++ Op("Return"), before + 1)

BareReturn ==
  /\ Operand
  /\ Goes(Returned(compiler ++ Op("Nil"), compiler.depth), "operator")
  /\ UNCHANGED contexts

BeginReturn ==
  /\ Operand
  /\ Enter([of |-> "return", before |-> compiler.depth])
  /\ UNCHANGED <<compiler, expects>>

EndReturn == In("return") /\ Goes(Returned(compiler, Top.before), "operator") /\ Leave
-----------------------------------------------------------------------------
(* Operators, calls and maps *)

Operator == expects = "operator"

(* binary and SetProperty: two operands make one value. *)
BeginBinary == Operator /\ Goes(compiler, "operand") /\ Enter([of |-> "binary"])
EndBinary == In("binary") /\ Goes(compiler ++ Op("Equal"), "operator") /\ Leave

(* andExpr and orExpr, whose left operand stays if the right is skipped *)
BeginAnd ==
  /\ Operator
  /\ Goes(compiler ++ Op("JumpIfFalse") ++ Op("Pop"), "operand")
  /\ Enter([of |-> "logic", end |-> compiler.stacks])

BeginOr ==
  /\ Operator
  /\ LET else == compiler ++ Op("JumpIfFalse")
     IN Goes(Patched(else ++ Op("Jump"), compiler.stacks) ++ Op("Pop"), "operand")
  /\ Enter([of |-> "logic", end |-> compiler.stacks])

EndLogic == In("logic") /\ Goes(Patched(compiler, Top.end), "operator") /\ Leave

(* call, and dot for a method, whose receiver is the first argument *)
BeginCall(method) ==
  /\ Operator
  /\ Goes(IF method THEN compiler ++ Op("Dup") ++ Op("GetProperty") ++ Op("Swap")
          ELSE compiler, "operand")
  /\ Enter([of |-> "call", count |-> IF method THEN 1 ELSE 0, begun |-> FALSE])

NextArgument ==
  /\ In("call") /\ Top.count + 1 < ItemsMax
  /\ Goes(compiler, "operand")
  /\ Become([Top EXCEPT !.count = @ + 1, !.begun = TRUE])

EndCall ==
  /\ Top.of = "call" /\ (Ended \/ ~Top.begun)
  /\ Goes(EmitCall(compiler, Top.count + IF Ended THEN 1 ELSE 0), "operator")
  /\ Leave

(* mapLiteral: a name constant below each value *)
MakeMap(fields, base) == SetDepth(compiler ++ OpArg("MakeMap", fields), base + 1)

EmptyMap == Operand /\ Goes(MakeMap(0, compiler.depth), "operator") /\ UNCHANGED contexts

BeginMap ==
  /\ Operand
  /\ Goes(compiler ++ Op("Constant"), "operand")
  /\ Enter([of |-> "map", fields |-> 1, base |-> compiler.depth])

NextField ==
  /\ In("map") /\ Top.fields < ItemsMax
  /\ Goes(compiler ++ Op("Constant"), "operand")
  /\ Become([Top EXCEPT !.fields = @ + 1])

EndMap == In("map") /\ Goes(MakeMap(Top.fields, Top.base), "operator") /\ Leave
-----------------------------------------------------------------------------
(* ifExpr *)

Condition(c) == [of |-> "if", part |-> "condition", base |-> c.depth, jump |-> {}]

BeginIf == Operand /\ Enter(Condition(compiler)) /\ UNCHANGED <<compiler, expects>>

BeginThen ==
  /\ Part("if", "condition")
  /\ OpenBlock(compiler ++ Op("JumpIfFalse") ++ Op("Pop"),
               [Top EXCEPT !.part = "then", !.jump = compiler.stacks])

(* The other branch begins after a jump over it. *)
OtherBranch ==
  SetDepth(Patched(compiler ++ Op("Jump"), Top.jump), Top.base + 1) ++ Op("Pop")
ElsePart == [Top EXCEPT !.part = "else", !.jump = compiler.stacks]

NoElse ==
  /\ Part("if", "then")
  /\ Goes(Patched(OtherBranch ++ Op("Nil"), compiler.stacks), "operator")
  /\ Leave

BeginElse == Part("if", "then") /\ OpenBlock(OtherBranch, ElsePart)

BeginElseIf ==
  /\ Part("if", "then") /\ HasRoom
  /\ Goes(OtherBranch, "operand")
  /\ contexts' = Front(contexts) \o <<ElsePart, Condition(OtherBranch)>>

EndElse == Part("if", "else") /\ Goes(Patched(compiler, Top.jump), "operator") /\ Leave
-----------------------------------------------------------------------------
(* whileExpr, breakExpr, continueExpr *)

BeginWhile ==
  /\ Operand
  /\ Enter([of |-> "while", part |-> "condition", base |-> compiler.depth,
            start |-> compiler.stacks, exit |-> {}, breaks |-> {}])
  /\ UNCHANGED <<compiler, expects>>

BeginLoopBody ==
  /\ Part("while", "condition")
  /\ OpenBlock(compiler ++ Op("JumpIfFalse") ++ Op("Pop"),
               [Top EXCEPT !.part = "body", !.exit = compiler.stacks])

EndWhile ==
  /\ Part("while", "body")
  /\ LET body == EmitLoop(compiler ++ Op("Pop"), Top.start)
         exit == SetDepth(Patched(body, Top.exit), Top.base + 1) ++ Op("Pop")
     IN Goes(Patched(exit, Top.breaks) ++ Op("Nil"), "operator")
  /\ Leave

Loops == {n \in DOMAIN contexts : contexts[n].of = "while"}
Loop == CHOOSE n \in Loops : \A m \in Loops : m <= n
UnwoundToLoop == Unwound(compiler, compiler.depth - contexts[Loop].base)

(* Mutant: the depth stays as it is after the unwinding. *)
BreakUnwound ==
  /\ Operand /\ Loops # {}
  /\ Goes(UnwoundToLoop ++ Op("Jump"), "operator")
  /\ contexts' = [contexts EXCEPT ![Loop].breaks = @ \cup UnwoundToLoop.stacks]

Break ==
  /\ Operand /\ Loops # {}
  /\ Goes(SetDepth(UnwoundToLoop ++ Op("Jump"), compiler.depth + 1), "operator")
  /\ contexts' = [contexts EXCEPT ![Loop].breaks = @ \cup UnwoundToLoop.stacks]

Continue ==
  /\ Operand /\ Loops # {}
  /\ Goes(SetDepth(EmitLoop(UnwoundToLoop, contexts[Loop].start), compiler.depth + 1),
          "operator")
  /\ UNCHANGED contexts
-----------------------------------------------------------------------------
(* matchExpr: the subject stays in its slot while arms are tried. *)

BeginMatch ==
  /\ Operand
  /\ Enter([of |-> "match", part |-> "subject", base |-> compiler.depth,
            bound |-> FALSE, tested |-> FALSE, fails |-> {}, ends |-> {}])
  /\ UNCHANGED <<compiler, expects>>

(* After the subject, or after an arm *)
BetweenArms == In("match") /\ Top.part \in {"subject", "arms"}

(* After a pattern comes a guard, or the arm's body. *)
BeginArm(c, context, guarded) ==
  /\ BetweenArms
  /\ Goes(IF guarded THEN c ELSE SetDepth(c, Top.base + 1), "operand")
  /\ Become([context EXCEPT !.part = IF guarded THEN "guard" ELSE "body"])

Wildcard(guarded) == BeginArm(compiler, Top, guarded)

Binding(name, guarded) ==
  BeginArm(DeclareAtSlot(compiler, name, Top.base, FALSE), [Top EXCEPT !.bound = TRUE],
           guarded)

(* A pattern, or two joined by `|`: the second is tried if the first fails. *)
(* The parser takes any operand for one; here it is a literal.             *)
Tested(c) == c ++ Op("Dup") ++ Op("Constant") ++ Op("Equal")

Pattern(alternatives, guarded) ==
  LET first == Tested(compiler)
      last == IF alternatives = 1 THEN first
              ELSE Tested(first ++ Op("JumpIfTrue") ++ Op("Pop"))
      matched == IF alternatives = 1 THEN {} ELSE first.stacks
  IN BeginArm(SetDepth(Patched(last ++ Op("JumpIfFalse"), matched), Top.base + 2)
                ++ Op("Pop"),
              [Top EXCEPT !.tested = TRUE, !.fails = last.stacks], guarded)

EndGuard ==
  /\ Part("match", "guard")
  /\ Goes(SetDepth(compiler ++ Op("JumpIfFalse") ++ Op("Pop"), Top.base + 1), "operand")
  /\ Become([Top EXCEPT !.part = "body", !.tested = TRUE,
                        !.fails = @ \cup compiler.stacks])

EndArm ==
  /\ Part("match", "body")
  /\ LET unbound == IF Top.bound THEN RemoveInnermostLocal(compiler) ELSE compiler
         result == SetDepth(unbound ++ OpArg("CloseScope", 1), Top.base + 1)
         next == result ++ Op("Jump")
     IN /\ Goes(IF Top.tested
                THEN SetDepth(Patched(next, Top.fails), Top.base + 2) ++ Op("Pop")
                ELSE next, "end")
        /\ Become([Top EXCEPT !.part = "arms", !.bound = FALSE, !.tested = FALSE,
                              !.fails = {}, !.ends = @ \cup result.stacks])

EndMatch ==
  /\ BetweenArms
  /\ LET unmatched == SetDepth(compiler, Top.base + 1) ++ Op("Pop") ++ Op("Nil")
     IN Goes(SetDepth(Patched(unmatched, Top.ends), Top.base + 1), "operator")
  /\ Leave
-----------------------------------------------------------------------------
CodegenNext ==
  \/ Literal
  \/ \E name \in Names : Variable(name) \/ BeginAssignment(name) \/ DeclareParam(name)
  \/ \E name \in Names, mutable \in BOOLEAN : BeginDeclaration(name, mutable)
  \/ EndAssignment \/ EndDeclaration
  \/ NextItem \/ BeginBlock \/ EndBlock \/ Finish
  \/ BareReturn \/ BeginReturn \/ EndReturn
  \/ BeginBinary \/ EndBinary \/ BeginAnd \/ BeginOr \/ EndLogic
  \/ \E method \in BOOLEAN : BeginCall(method)
  \/ NextArgument \/ EndCall
  \/ EmptyMap \/ BeginMap \/ NextField \/ EndMap
  \/ BeginIf \/ BeginThen \/ NoElse \/ BeginElse \/ BeginElseIf \/ EndElse
  \/ BeginWhile \/ BeginLoopBody \/ EndWhile \/ Break \/ Continue
  \/ BeginMatch
  \/ \E guarded \in BOOLEAN :
       \/ Wildcard(guarded)
       \/ \E name \in Names : Binding(name, guarded)
       \/ \E alternatives \in 1 .. 2 : Pattern(alternatives, guarded)
  \/ EndGuard \/ EndArm \/ EndMatch

CodegenSpec == CodegenInit /\ [][CodegenNext]_codegenVars
-----------------------------------------------------------------------------
(* On every path to an instruction the stack has the height the compiler   *)
(* emits it for (setStackDepth at branches, joins and jumps), and a loop   *)
(* goes back with a stack it was begun with.                               *)
HeightIsKnown ==
  /\ \A s \in compiler.stacks : Len(s) = compiler.depth
  /\ compiler.strayed = {}

(* On every path each local in scope is in the slot that the operand byte  *)
(* for it names, whatever temporaries there were below it and whatever     *)
(* was unwound, jumped over or bound in between.                           *)
LocalsInSlots ==
  \A s \in compiler.stacks, i \in DOMAIN compiler.locals :
    LET local == compiler.locals[i]
    IN Byte(local.slot) < Len(s) /\ s[Byte(local.slot) + 1] = local.variable
=============================================================================
