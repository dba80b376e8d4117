----------------------------- MODULE MCEmitter -----------------------------
(* Instances of Emitter for TLC: a number and a string.  Folding makes     *)
(* other numbers of it, for operands that can be told apart.               *)
EXTENDS Emitter

MCConstants == {Number(1), String}
=============================================================================
