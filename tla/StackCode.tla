----------------------------- MODULE StackCode -----------------------------
(***************************************************************************)
(* What the instructions the compiler emits for an expression mean, with   *)
(* no instruction ever rewritten: the values they leave on the stack, as   *)
(* terms, for both truth values the variable x can have.                   *)
(* Emitter.tla implements it with a peephole optimiser.                    *)
(***************************************************************************)
EXTENDS Terms

CONSTANTS
  Constants,      \* the literals of the program
  AndsMax         \* bound: nesting of `and`

VARIABLES
  left,           \* truth of x -> the terms on the stack
  skipping        \* truth of x -> the `and` whose right side it jumps over, 0
                  \* or Gone

meaningVars == <<left, skipping>>

Truths == BOOLEAN
Gone == AndsMax + 1     \* out of the loop this code is in

(* Every execution that gets here has n values on the stack. *)
Have(n) == \A b \in Truths : skipping[b] = 0 => Len(left[b]) >= n
-----------------------------------------------------------------------------
MeaningInit ==
  /\ left = [b \in Truths |-> <<>>]
  /\ skipping = [b \in Truths |-> 0]

(* Only what is not jumped over is executed. *)
Executes(after(_)) ==
  left' = [b \in Truths |-> IF skipping[b] = 0 THEN after(left[b]) ELSE left[b]]

Load(t) ==
  /\ LET Pushed(s) == Append(s, t) IN Executes(Pushed)
  /\ UNCHANGED skipping

Apply(op) ==
  /\ Have(Operands(op))
  /\ LET Applied(s) == After(op, s) IN Executes(Applied)
  /\ UNCHANGED skipping

(* The n-th `and` that is not finished: a falsy left operand is its value. *)
BeginAnd(n) ==
  /\ Have(1)
  /\ skipping' = [b \in Truths |->
       IF skipping[b] = 0 /\ IsFalsy(LastOf(left[b]), b) THEN n ELSE skipping[b]]
  /\ left' = [b \in Truths |->
       IF skipping'[b] = 0 THEN Dropping(left[b], 1) ELSE left[b]]

EndAnd(n) ==
  /\ skipping' = [b \in Truths |-> IF skipping[b] = n THEN 0 ELSE skipping[b]]
  /\ UNCHANGED left

(* `break`: all the values of the loop's body are dropped. *)
Leave ==
  /\ LET Nothing(s) == <<>> IN Executes(Nothing)
  /\ skipping' = [b \in Truths |-> IF skipping[b] = 0 THEN Gone ELSE skipping[b]]

MeaningNext ==
  \/ Leave
  \/ \E t \in Constants \cup {X} : Load(t)
  \/ \E op \in Operators : Apply(op)
  \/ \E n \in 1 .. AndsMax : BeginAnd(n) \/ EndAnd(n)

MeaningSpec == MeaningInit /\ [][MeaningNext]_meaningVars
=============================================================================
