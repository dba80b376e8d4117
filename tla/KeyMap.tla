------------------------------- MODULE KeyMap -------------------------------
(***************************************************************************)
(* What table.cpp's hash table promises: a partial function from string    *)
(* objects to values.  Table.tla implements it by open addressing.         *)
(***************************************************************************)
CONSTANTS Keys, Values,
          Absent                \* what a key maps to when it is not there

VARIABLES
  contents,                     \* key -> its value, or Absent
  reply                         \* what the last get, set or remove returned

mapVars == <<contents, reply>>

MapInit == contents = [k \in Keys |-> Absent] /\ reply = Absent

Lookup(k) == reply' = contents[k] /\ UNCHANGED contents

(* set says whether the key is new, remove whether there was one. *)
Put(k, v) ==
  /\ contents' = [contents EXCEPT ![k] = v]
  /\ reply' = (contents[k] = Absent)

Delete(k) ==
  /\ contents' = [contents EXCEPT ![k] = Absent]
  /\ reply' = (contents[k] # Absent)

MapNext ==
  \E k \in Keys : \/ Lookup(k) \/ Delete(k)
                  \/ \E v \in Values : Put(k, v)

MapSpec == MapInit /\ [][MapNext]_mapVars
=============================================================================
