----------------------------- MODULE MCSession -----------------------------
(* Instances of Session for TLC: names and numbers are interchangeable. *)
EXTENDS Session, TLC

MCSymmetry == Permutations(Names) \cup Permutations(Numbers)
=============================================================================
