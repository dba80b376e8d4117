---------------------------- MODULE MCTimeTravel ----------------------------
(* Instances of TimeTravel for TLC. *)
EXTENDS TimeTravel

CONSTANTS script, f, u1, k
=============================================================================
