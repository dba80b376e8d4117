-------------------------------- MODULE Terms --------------------------------
(***************************************************************************)
(* Values as terms: what the instructions without operand that compute     *)
(* (vm.cpp) make of the stack.  Numbers are computed with, all else is     *)
(* remembered; X is a variable, true or false.                             *)
(***************************************************************************)
EXTENDS Integers, Sequences

Number(n) == [kind |-> "number", number |-> n]
String == [kind |-> "string", number |-> 0]
X == [kind |-> "x", number |-> 0]
Failure == [kind |-> "error", number |-> 0]

IsNumber(t) == t.kind = "number"

(* nil and false are falsy; numbers and strings are truthy. *)
IsFalsy(t, truth) == t = X /\ ~truth

Arithmetic == {"Add", "Subtract"}

(* A number where the operands are numbers, and else a term. *)
Result(op, a, b) ==
  IF IsNumber(a) /\ IsNumber(b)
  THEN Number(IF op = "Add" THEN a.number + b.number ELSE a.number - b.number)
  ELSE [kind |-> op, first |-> a, second |-> b]

Negated(a) ==
  IF IsNumber(a) THEN Number(0 - a.number) ELSE [kind |-> "Negate", first |-> a]

Returned(callee, argument) ==
  [kind |-> "Call", first |-> callee, second |-> argument]

LastOf(s) == s[Len(s)]
Dropping(s, n) == SubSeq(s, 1, Len(s) - n)

(* The stack s after the instruction op without operand. *)
After(op, s) ==
  CASE op \in Arithmetic ->
         Append(Dropping(s, 2), Result(op, s[Len(s) - 1], LastOf(s)))
    [] op = "Negate" -> Append(Dropping(s, 1), Negated(LastOf(s)))
    [] op = "Pop" -> Dropping(s, 1)
    [] op = "Call" ->
         Append(Dropping(s, 2), Returned(s[Len(s) - 1], LastOf(s)))

Operators == Arithmetic \cup {"Negate", "Pop", "Call"}

Operands(op) == IF op \in Arithmetic \cup {"Call"} THEN 2 ELSE 1
=============================================================================
