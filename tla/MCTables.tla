------------------------------ MODULE MCTables ------------------------------
(* Instance of StringTable: four texts, the first with two addresses; all  *)
(* hashes but one collide in the smallest table.  Of the keys of a map two *)
(* collide at every capacity, and a probe for them meets the third one, in *)
(* the small table after it has wrapped around.                            *)
EXTENDS StringTable, TLC

CONSTANTS a1, a2, b, c, d

MCText == a1 :> "a" @@ a2 :> "a" @@ b :> "b" @@ c :> "c" @@ d :> "d"
MCHash == a1 :> 3 @@ a2 :> 3 @@ b :> 3 @@ c :> 7 @@ d :> 4
=============================================================================
