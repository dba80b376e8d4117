----------------------------- MODULE MCUpvalues -----------------------------
(* Instances of Upvalues for TLC. *)
EXTENDS Upvalues, TLC

CONSTANTS x, y, z, u1, u2

Interchangeable == Permutations(Cells) \cup Permutations(Upvalues)
=============================================================================
