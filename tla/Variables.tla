----------------------------- MODULE Variables -----------------------------
(***************************************************************************)
(* What a Rill program sees of its local variables: a variable is a cell   *)
(* that its scope and the closures that captured it share, and that lives  *)
(* as long as either of them does.  Upvalues.tla implements it with a      *)
(* stack and upvalues.                                                     *)
(***************************************************************************)
CONSTANTS Cells, Values,
          Dead                  \* the content of a cell nobody can name

VARIABLES
  scope,                        \* cells of the variables in scope
  captured,                     \* cells some closure holds
  content                       \* cell -> its value

cellVars == <<scope, captured, content>>

Live == scope \cup captured

CellsInit ==
  scope = {} /\ captured = {} /\ content = [c \in Cells |-> Dead]

(* Cells nobody can name any more lose their content, no other does. *)
Settle(values) ==
  content' = [c \in Cells |-> IF c \in Live' THEN values[c] ELSE Dead]

Declare(c, v) ==
  /\ c \notin Live
  /\ scope' = scope \cup {c}
  /\ UNCHANGED captured
  /\ Settle([content EXCEPT ![c] = v])

(* The arguments of a call become the variables of its parameters. *)
Enter(C) ==
  /\ C \cap Live = {}
  /\ scope' = scope \cup C
  /\ UNCHANGED captured
  /\ \E new \in [C -> Values] :
       Settle([c \in Cells |-> IF c \in C THEN new[c] ELSE content[c]])

Assign(c, v) ==
  /\ c \in Live
  /\ UNCHANGED <<scope, captured>>
  /\ Settle([content EXCEPT ![c] = v])

Capture(c) ==
  /\ c \in scope
  /\ captured' = captured \cup {c}
  /\ UNCHANGED <<scope, content>>

Leave(C) ==
  /\ scope' = scope \ C
  /\ UNCHANGED captured
  /\ Settle(content)

Release(C) ==
  /\ captured' = captured \ C
  /\ UNCHANGED scope
  /\ Settle(content)

CellsNext ==
  \/ \E c \in Cells : Capture(c) \/ \E v \in Values : Declare(c, v) \/ Assign(c, v)
  \/ \E C \in SUBSET Cells : Enter(C) \/ Leave(C) \/ Release(C)

CellsSpec == CellsInit /\ [][CellsNext]_cellVars
=============================================================================
