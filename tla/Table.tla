------------------------------- MODULE Table -------------------------------
(***************************************************************************)
(* Rill's hash table (table.cpp): open addressing, linear probing, a       *)
(* tombstone where a key was removed.  The globals, the fields of every    *)
(* map and the intern table are each one of these.                         *)
(*                                                                         *)
(* get, set and remove are one action each, but for the two loops over all *)
(* entries, adjustCapacity and removeWhite, which take one step per entry. *)
(* A probe is not unrolled: findEntry's result is defined by the distance  *)
(* at which its loop stops.                                                *)
(***************************************************************************)
EXTENDS Integers, FiniteSets

CONSTANTS
  Keys,           \* addresses of interned strings
  MapKeys,        \* bound: those that a program uses as keys of a map
  Values,         \* values a program stores
  Hash,           \* key -> its hash
  MinCapacity,    \* the first capacity of a table, 8 in the code
  MaxCapacity,    \* bound: the table is not grown beyond this
  Empty,          \* the entry (nullptr, nil)
  Tombstone,      \* the entry (nullptr, true)
  Absent          \* no value: get and findString found nothing

ASSUME HashAssumption == Hash \in [Keys -> Nat]
ASSUME MapKeysAssumption == MapKeys \subseteq Keys
ASSUME CapacityAssumption == MinCapacity \in Nat /\ MinCapacity >= 2
ASSUME MarkersAssumption == Empty # Tombstone /\ Absent \notin Values
ASSUME EntriesAssumption ==
  {Empty, Tombstone} \cap [key : Keys, value : Values] = {}

VARIABLES
  slots,          \* entries: index -> Empty, Tombstone or a key and a value
  capacity,       \* capacity
  count,          \* count: keys and tombstones
  fresh,          \* adjustCapacity's new array, while it fills it
  cursor,         \* the loop variable i of adjustCapacity or removeWhite
  doing,          \* the operation in progress
  reply           \* what the last operation returned

tableVars == <<slots, capacity, count, fresh, cursor, doing, reply>>

Entries == [key : Keys, value : Values]
Slot == Entries \cup {Empty, Tombstone}
Indices(n) == 0 .. n - 1
Blank(n) == [i \in Indices(n) |-> Empty]

HasKey(s) == s \notin {Empty, Tombstone}

Nothing == [op |-> "none"]
Doing ==
  {Nothing} \cup [op : {"set"}, key : Keys, value : Values]
            \cup [op : {"purge"}, dead : SUBSET Keys]

TableTypeOK ==
  /\ capacity \in Nat /\ count \in Nat /\ cursor \in Nat
  /\ slots \in [Indices(capacity) -> Slot]
  /\ \E n \in {0, 2 * capacity, MinCapacity} : fresh \in [Indices(n) -> Slot]
  /\ doing \in Doing
  /\ reply \in Values \cup BOOLEAN \cup {Absent}

TableInit ==
  /\ slots = Blank(0) /\ capacity = 0 /\ count = 0
  /\ fresh = Blank(0) /\ cursor = 0
  /\ doing = Nothing
  /\ reply = Absent
-----------------------------------------------------------------------------
(* findEntry probes from the key's hash.  Capacities are powers of two, so *)
(* masking with capacity - 1 is the remainder.                             *)

At(n, key, d) == (Hash[key] + d) % n

Holds(array, i, key) == HasKey(array[i]) /\ array[i].key = key

(* The loop of findEntry leaves at distance d: the key, or an empty slot. *)
StopsAt(array, n, key, d) ==
  LET i == At(n, key, d) IN Holds(array, i, key) \/ array[i] = Empty

Least(D) == CHOOSE d \in D : \A e \in D : d <= e

(* Mutant: the first tombstone ends the probe. *)
FindEntryHasty(array, n, key) ==
  At(n, key, Least({d \in Indices(n) : \/ StopsAt(array, n, key, d)
                                       \/ array[At(n, key, d)] = Tombstone}))

(* The entry of the key, or else the slot where it belongs: the first      *)
(* tombstone that was passed, or the empty slot.                           *)
FindEntry(array, n, key) ==
  LET stop == Least({d \in Indices(n) : StopsAt(array, n, key, d)})
      passed == {d \in 0 .. stop - 1 : array[At(n, key, d)] = Tombstone}
  IN IF Holds(array, At(n, key, stop), key) \/ passed = {}
     THEN At(n, key, stop)
     ELSE At(n, key, Least(passed))

(* findEntry's loop ends for every key. *)
Terminates(array, n) == \E i \in Indices(n) : array[i] = Empty

(* The value under a key in an array that findEntry can search. *)
ValueOf(array, n, key) ==
  LET s == array[FindEntry(array, n, key)]
  IN IF HasKey(s) THEN s.value ELSE Absent
-----------------------------------------------------------------------------
Get(k) ==
  /\ doing = Nothing
  /\ reply' = IF count = 0 THEN Absent ELSE ValueOf(slots, capacity, k)
  /\ UNCHANGED <<slots, capacity, count, fresh, cursor, doing>>

(* Mutant: the table may fill up to the last slot. *)
IsFullAtCapacity == count + 1 > capacity

(* (double)(count + 1) > (double)capacity * 0.75 *)
IsFull == 4 * (count + 1) > 3 * capacity

GrownCapacity == IF capacity < MinCapacity THEN MinCapacity ELSE 2 * capacity

(* The count after set has written over s: a tombstone is counted already. *)
CountWith(s) == IF s = Empty THEN count + 1 ELSE count

(* set once there is room. *)
Store(k, v) ==
  LET i == FindEntry(slots, capacity, k)
  IN /\ slots' = [slots EXCEPT ![i] = [key |-> k, value |-> v]]
     /\ count' = CountWith(slots[i])
     /\ reply' = ~HasKey(slots[i])
     /\ doing' = Nothing

Set(k, v) ==
  /\ doing = Nothing
  /\ ~IsFull
  /\ Store(k, v)
  /\ UNCHANGED <<capacity, fresh, cursor>>

(* set calls adjustCapacity, whether or not the key is there already. *)
SetAndGrow(k, v) ==
  /\ doing = Nothing
  /\ IsFull /\ GrownCapacity <= MaxCapacity
  /\ doing' = [op |-> "set", key |-> k, value |-> v]
  /\ fresh' = Blank(GrownCapacity)
  /\ count' = 0
  /\ cursor' = 0
  /\ UNCHANGED <<slots, capacity, reply>>

(* One round of adjustCapacity's loop: tombstones are left behind. *)
Reinsert ==
  /\ doing.op = "set" /\ cursor < capacity
  /\ cursor' = cursor + 1
  /\ IF HasKey(slots[cursor])
     THEN /\ fresh' = [fresh EXCEPT
                 ![FindEntry(fresh, GrownCapacity, slots[cursor].key)] =
                    slots[cursor]]
          /\ count' = count + 1
     ELSE UNCHANGED <<fresh, count>>
  /\ UNCHANGED <<slots, capacity, doing, reply>>

(* adjustCapacity installs the new array and returns to set. *)
Install ==
  /\ doing.op = "set" /\ cursor = capacity
  /\ LET i == FindEntry(fresh, GrownCapacity, doing.key)
     IN /\ slots' = [fresh EXCEPT ![i] = [key |-> doing.key,
                                          value |-> doing.value]]
        /\ count' = CountWith(fresh[i])
        /\ reply' = ~HasKey(fresh[i])
  /\ capacity' = GrownCapacity
  /\ fresh' = Blank(0) /\ cursor' = 0
  /\ doing' = Nothing

(* Mutant: remove empties the slot. *)
BuriedEmpty(i) == slots' = [slots EXCEPT ![i] = Empty] /\ UNCHANGED count

(* remove leaves a tombstone, which still counts. *)
Buried(i) == slots' = [slots EXCEPT ![i] = Tombstone] /\ UNCHANGED count

(* remove: a key that is there is buried. *)
RemoveKey(k) ==
  IF count > 0 /\ HasKey(slots[FindEntry(slots, capacity, k)])
  THEN Buried(FindEntry(slots, capacity, k))
  ELSE UNCHANGED <<slots, count>>

Remove(k) ==
  /\ doing = Nothing
  /\ RemoveKey(k)
  /\ reply' = (slots' # slots)
  /\ UNCHANGED <<capacity, fresh, cursor, doing>>

Grow == Reinsert \/ Install

TableNext ==
  \/ \E k \in MapKeys : \/ Get(k) \/ Remove(k)
                        \/ \E v \in Values : Set(k, v) \/ SetAndGrow(k, v)
  \/ Grow

TableSpec == TableInit /\ [][TableNext]_tableVars

-----------------------------------------------------------------------------
Contents ==
  [k \in MapKeys |-> IF capacity = 0 THEN Absent ELSE ValueOf(slots, capacity, k)]

(* findEntry and findString loop until they meet an empty slot: there is   *)
(* one in every array they search, so neither loops for ever.              *)
ProbesEnd ==
  /\ count > 0 => Terminates(slots, capacity)
  /\ doing.op = "set" => Terminates(fresh, GrownCapacity)

KeysDistinct(array, n) ==
  \A i, j \in Indices(n) :
     HasKey(array[i]) /\ HasKey(array[j]) /\ array[i].key = array[j].key => i = j

(* No key is in two slots: a removal would bring the older value back.     *)
KeysOnce == KeysDistinct(slots, capacity)

-----------------------------------------------------------------------------
(* Why probes end: count is exact and the load stays under three quarters. *)
Used(array, n) == {i \in Indices(n) : array[i] # Empty}

CountExact ==
  IF doing.op = "set" THEN count = Cardinality(Used(fresh, GrownCapacity))
                      ELSE count = Cardinality(Used(slots, capacity))

LoadBounded == doing.op # "set" => 4 * count <= 3 * capacity

CapacitySound ==
  /\ capacity # 0 => capacity >= MinCapacity /\ Terminates(slots, capacity)
  /\ doing.op # "none" => cursor <= capacity

(* Why keys are found: no slot is empty between the one a key hashes to    *)
(* and the one it is in.                                                   *)
NoGap(array, n, key, i) ==
  \E d \in Indices(n) : /\ At(n, key, d) = i
                        /\ \A e \in 0 .. d - 1 : array[At(n, key, e)] # Empty

KeysReached(array, n) ==
  \A i \in Indices(n) : HasKey(array[i]) => NoGap(array, n, array[i].key, i)

Searchable(array, n) == KeysDistinct(array, n) /\ KeysReached(array, n)

(* The keys and their values in some slots *)
Pairs(array, S) == {array[i] : i \in {j \in S : HasKey(array[j])}}

(* adjustCapacity has moved what it has passed, and nothing else. *)
GrowthSound ==
  doing.op = "set" =>
    /\ fresh \in [Indices(GrownCapacity) -> Slot]
    /\ Searchable(fresh, GrownCapacity)
    /\ \A i \in Indices(GrownCapacity) : fresh[i] # Tombstone
    /\ count <= cursor
    /\ Pairs(fresh, Indices(GrownCapacity)) = Pairs(slots, Indices(cursor))

TableInv ==
  /\ TableTypeOK /\ CountExact /\ LoadBounded /\ CapacitySound
  /\ Searchable(slots, capacity) /\ GrowthSound
=============================================================================
