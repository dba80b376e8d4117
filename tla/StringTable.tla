---------------------------- MODULE StringTable ----------------------------
(***************************************************************************)
(* The intern table g_strings: a Table whose keys are looked up by their   *)
(* characters (findString) before a string is made (copyString), and whose *)
(* dead keys the collector removes between its mark and its sweep          *)
(* (removeWhite).  The keys it lists are all the strings there are.  The   *)
(* other tables are maps that programs use; a table is the one or the      *)
(* other, as `use` says.                                                   *)
(***************************************************************************)
EXTENDS Table

CONSTANT Text     \* string object -> its characters

(* Equal strings have equal hashes. *)
ASSUME TextAssumption ==
  \A k, l \in Keys : Text[k] = Text[l] => Hash[k] = Hash[l]

(* nullptr is no string; nil is a value. *)
ASSUME NilAssumption == Absent \notin Keys /\ Values # {}

VARIABLES
  use,            \* "map" or "strings"
  alive,          \* strings on the collector's list g_objects
  wanted          \* the text copyString is making a string for, or Absent

stringVars == <<tableVars, use, alive, wanted>>

(* allocateString's g_strings.set(string, nilValue()). *)
Nil == CHOOSE v \in Values : TRUE

StringInit ==
  TableInit /\ use \in {"map", "strings"} /\ alive = {} /\ wanted = Absent

(* Mutant: a tombstone ends findString's probe. *)
FindStringHasty(k) ==
  LET stops == {d \in Indices(capacity) :
                  LET s == slots[At(capacity, k, d)]
                  IN ~HasKey(s) \/ Text[s.key] = Text[k]}
      s == slots[At(capacity, k, Least(stops))]
  IN IF count # 0 /\ HasKey(s) THEN s.key ELSE Absent

(* findString for the characters and the hash of k: hashes, lengths and    *)
(* bytes are equal exactly when the texts are.                             *)
FindString(k) ==
  LET stops == {d \in Indices(capacity) :
                  LET s == slots[At(capacity, k, d)]
                  IN s = Empty \/ (HasKey(s) /\ Text[s.key] = Text[k])}
      s == slots[At(capacity, k, Least(stops))]
  IN IF count # 0 /\ HasKey(s) THEN s.key ELSE Absent

(* copyString and takeString, up to allocateString: the text of k is not   *)
(* in the table.                                                           *)
Intern(k) ==
  /\ doing = Nothing /\ wanted = Absent
  /\ FindString(k) = Absent
  /\ wanted' = Text[k]
  /\ UNCHANGED <<tableVars, alive>>

(* allocateString after malloc returned the address k. *)
NewString(k) ==
  /\ wanted # Absent /\ Text[k] = wanted
  /\ k \notin alive
  /\ Set(k, Nil) \/ SetAndGrow(k, Nil)
  /\ alive' = alive \cup {k}
  /\ wanted' = Absent

(* The collector has marked what is reachable and calls removeWhite; this  *)
(* may be inside allocateString, when findString has already answered.     *)
Collect(dead) ==
  /\ doing = Nothing
  /\ doing' = [op |-> "purge", dead |-> dead]
  /\ cursor' = 0
  /\ UNCHANGED <<slots, capacity, count, fresh, reply, alive, wanted>>

(* Mutant: removeWhite leaves out the last entry. *)
PurgedShort == cursor >= capacity - 1

Purged == cursor = capacity

(* One round of removeWhite: the entry is removed through its key. *)
PurgeEntry ==
  /\ doing.op = "purge" /\ ~Purged
  /\ cursor' = cursor + 1
  /\ IF HasKey(slots[cursor]) /\ slots[cursor].key \in doing.dead
     THEN RemoveKey(slots[cursor].key)
     ELSE UNCHANGED <<slots, count>>
  /\ UNCHANGED <<capacity, fresh, doing, reply, alive, wanted>>

(* The sweep frees the dead strings. *)
SweepStrings ==
  /\ doing.op = "purge" /\ Purged
  /\ alive' = alive \ doing.dead
  /\ doing' = Nothing /\ cursor' = 0
  /\ UNCHANGED <<slots, capacity, count, fresh, reply, wanted>>

StringTableNext ==
  \/ \E k \in Keys : Intern(k) \/ NewString(k)
  \/ \E dead \in SUBSET alive : Collect(dead)
  \/ Grow /\ UNCHANGED <<alive, wanted>>
  \/ PurgeEntry
  \/ SweepStrings

StringNext ==
  /\ \/ use = "map" /\ TableNext /\ UNCHANGED <<alive, wanted>>
     \/ use = "strings" /\ StringTableNext
  /\ UNCHANGED use

StringSpec == StringInit /\ [][StringNext]_stringVars
-----------------------------------------------------------------------------
Map == INSTANCE KeyMap
  WITH Keys <- MapKeys,
       contents <- IF use = "map" THEN Contents ELSE [k \in MapKeys |-> Absent],
       reply <- IF use = "map" THEN reply ELSE Absent

(* A table that is not the intern table is a map from keys to values:      *)
(* every get, set and remove answers and changes what a map would,         *)
(* whatever keys collide, wherever a probe wraps, passes tombstones or is  *)
(* moved by adjustCapacity.                                                *)
IsAMap == Map!MapSpec

(* Two strings with the same characters are one object, so comparing       *)
(* pointers compares strings.                                              *)
TextsOnce == \A k, l \in alive : Text[k] = Text[l] => k = l

(* The table lists every string there is and none that was freed: a later  *)
(* findString reads no freed memory and misses no string.                  *)
ListsTheLiving ==
  doing = Nothing /\ use = "strings" =>
    {slots[i].key : i \in {j \in Indices(capacity) : HasKey(slots[j])}} = alive
-----------------------------------------------------------------------------
Listed == {p.key : p \in Pairs(slots, Indices(capacity))}

(* What the table lists while it grows, to make room for a string that is  *)
(* on the list of objects already, and while removeWhite goes through it.  *)
ListInv ==
  /\ alive \subseteq Keys
  /\ doing.op = "none" => Listed = alive
  /\ doing.op = "set" =>
       Listed = alive \ {doing.key} /\ doing.key \in alive
  /\ doing.op = "purge" =>
       /\ Listed \subseteq alive /\ alive \ doing.dead \subseteq Listed
       /\ \A i \in Indices(cursor) : HasKey(slots[i]) => slots[i].key \notin doing.dead

(* findString's answer holds until the string is made: collections only    *)
(* take strings away.                                                      *)
WantedIsNew == wanted # Absent => \A k \in alive : Text[k] # wanted

StringInv ==
  /\ TableInv /\ use \in {"map", "strings"}
  /\ use = "map" => doing.op # "purge" /\ (doing.op = "set" => doing.key \in MapKeys)
  /\ use = "strings" => ListInv /\ TextsOnce /\ WantedIsNew
  /\ use = "map" => alive = {}
=============================================================================
