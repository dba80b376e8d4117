-------------------------- MODULE TimeTravelProofs --------------------------
(***************************************************************************)
(* Proofs about TimeTravel, for stacks, frames, logs, closures and         *)
(* upvalues of every number, as long as the program loses nothing that a   *)
(* step back needs (Lossy = {}).                                           *)
(***************************************************************************)
EXTENDS TimeTravel, FiniteSetTheorems, TLAPS

(* The records and what was seen before their instructions *)
FrameRecords == [closure : Closures, ip : 0 .. CodeMax, slots : Slots]

Records ==
  [ip : 0 .. CodeMax, stackHeight : Slots, frameCount : 1 .. FramesMax, saved : Seq(Values),
   slotTarget : Cells \cup {Null}, slotOld : Values,
   tableKey : Keys \cup {Null}, tableOld : Values \cup {Absent}]

Pasts ==
  [stack : Seq(Values), frames : Seq(FrameRecords), table : [Keys -> Values \cup {Absent}],
   open : SUBSET Upvalues, captured : UNION {[D -> Values] : D \in SUBSET Upvalues}]

Base(rec) == rec.stackHeight - Len(rec.saved)

(* The frames 1 to n of fs begin one above the other, below the height. *)
Nested(fs, n, height) ==
  /\ \A j \in 1 .. n : fs[j] \in FrameRecords /\ fs[j].slots <= height
  /\ \A j, l \in 1 .. n : j < l => fs[j].slots < fs[l].slots

MachineInv ==
  /\ TravelTypeOK
  /\ Nested(frames, frameCount, top)
  /\ \A u \in open : location[u] \in Slots
  /\ \A u \in Upvalues : location[u] # u => cells[u] = Nil

ClosedIn(was) == DOMAIN was.captured \ was.open

(* The record and the view of one instruction *)
Matches(rec, was) ==
  /\ Len(rec.saved) = IF rec.stackHeight < SavedMax THEN rec.stackHeight ELSE SavedMax
  /\ Len(was.stack) = rec.stackHeight
  /\ \A j \in 1 .. Len(rec.saved) : rec.saved[j] = was.stack[Base(rec) + j]
  /\ Len(was.frames) = rec.frameCount
  /\ Nested(was.frames, rec.frameCount, rec.stackHeight)
  /\ was.open \subseteq DOMAIN was.captured
  /\ rec.slotTarget \in Upvalues => rec.slotTarget \in ClosedIn(was)

RecordsInv ==
  /\ log \in Seq(Records) /\ past \in Seq(Pasts) /\ Len(past) = Len(log)
  /\ \A i \in 1 .. Len(log) : Matches(log[i], past[i])

(* The values that were on top of the stack before the first n instructions *)
SavedBy(records, n) == UNION {ValuesIn(records[m].saved) : m \in 1 .. n}

(* What is below the slots that are saved next has been saved, and so has  *)
(* what the frames and the table hold: all of it was on top once.          *)
Stored(stack, height, fs, count, keys, saved) ==
  /\ \A j \in 1 .. height : j <= height - SavedMax => stack[j] \in saved
  /\ \A j \in 1 .. count : fs[j].closure \in saved \cup {Script}
  /\ \A k \in Keys : keys[k] \in saved \cup {Absent}

StoredInv ==
  /\ Stored(cells, top, frames, frameCount, table, SavedBy(log, Len(log)))
  /\ \A i \in 1 .. Len(log) :
       Stored(past[i].stack, log[i].stackHeight, past[i].frames, log[i].frameCount,
              past[i].table, SavedBy(log, i - 1))
  /\ IF log = <<>> THEN top = 1 /\ cells[1] = Script
     ELSE log[1].stackHeight = 1 /\ past[1].stack[1] = Script

(* Undoing a record writes the cell c. *)
Restores(rec, c) ==
  c = rec.slotTarget \/ (c \in Slots /\ c \in Base(rec) + 1 .. rec.stackHeight)

Restored(rec, c) ==
  IF c \in Slots /\ c \in Base(rec) + 1 .. rec.stackHeight
  THEN rec.saved[c - Base(rec)] ELSE rec.slotOld

OnStack(c, height) == c \in Slots => c <= height

(* The slots that are not in use *)
Height == IF Running THEN top ELSE StackMax

(* Undoing the records from the i-th on gives c the value v: the first of  *)
(* them that writes c writes v, or none does and v is there.               *)
CellComesBack(records, now, height, i, c, v) ==
  \E m \in i .. Len(records) + 1 :
    /\ \A l \in i .. m - 1 : ~Restores(records[l], c) /\ OnStack(c, records[l].stackHeight)
    /\ IF m <= Len(records)
       THEN /\ Restores(records[m], c) /\ Restored(records[m], c) = v
            /\ OnStack(c, records[m].stackHeight)
       ELSE now[c] = v /\ OnStack(c, height)

KeyComesBack(records, now, i, k, v) ==
  \E m \in i .. Len(records) + 1 :
    /\ \A l \in i .. m - 1 : records[l].tableKey # k
    /\ IF m <= Len(records) THEN records[m].tableKey = k /\ records[m].tableOld = v
       ELSE now[k] = v

(* The frame j is the frame f, but for the instruction it is at. *)
FrameComesBack(records, now, i, j, f) ==
  /\ now[j].closure = f.closure /\ now[j].slots = f.slots
  /\ \E m \in i .. Len(records) + 1 :
       /\ \A l \in i .. m - 1 : records[l].frameCount # j
       /\ IF m <= Len(records) THEN records[m].frameCount = j /\ records[m].ip = f.ip
          ELSE now[j].ip = f.ip

(* Of a variable that was on the stack, the slot is restored, as long as   *)
(* its upvalue stays open; one that was closed still is.                   *)
VariableComesBack(i, u) ==
  IF u \in past[i].open
  THEN /\ past[i].captured[u] \in ValuesIn(past[i].stack)
       /\ u \in open => /\ location[u] <= log[i].stackHeight
                        /\ past[i].captured[u] = past[i].stack[location[u]]
  ELSE location[u] = u /\ CellComesBack(log, cells, Height, i, u, past[i].captured[u])

ComesBack(i) ==
  /\ \A c \in 1 .. log[i].stackHeight :
       CellComesBack(log, cells, Height, i, c, past[i].stack[c])
  /\ \A j \in 1 .. log[i].frameCount : FrameComesBack(log, frames, i, j, past[i].frames[j])
  /\ \A k \in Keys : KeyComesBack(log, table, i, k, past[i].table[k])
  /\ \A u \in DOMAIN past[i].captured : VariableComesBack(i, u)

ReplayInv == \A i \in 1 .. Len(log) : ComesBack(i)

(* What was in use then, besides what was reached through closed variables *)
RootsThen(was) ==
  ClosuresOf(ValuesIn(was.stack) \cup ValuesIn(was.table)
             \cup {was.frames[j].closure : j \in DOMAIN was.frames})

TracedThen(was, T, of) ==
  \A c \in T : /\ of[c] \in ClosedIn(was)
               /\ was.captured[of[c]] \in Closures
               => was.captured[of[c]] \in T

(* M are the closures that were in use, and their upvalues are still those *)
(* that `of` gives.                                                        *)
UsedThen(was, M, of) ==
  /\ M \subseteq Closures /\ RootsThen(was) \subseteq M /\ TracedThen(was, M, of)
  /\ \A u \in DOMAIN was.captured : \E c \in M : of[c] = u
  /\ \A T \in SUBSET M : RootsThen(was) \subseteq T /\ TracedThen(was, T, of) => T = M

UsedInv == \A i \in 1 .. Len(log) : \E M \in SUBSET Closures : UsedThen(past[i], M, upvalue)

TravelInv == MachineInv /\ RecordsInv /\ StoredInv /\ ReplayInv /\ UsedInv
-----------------------------------------------------------------------------
LEMMA MarkedIs ==
  ASSUME NEW S
  PROVE  /\ ClosuresOf(S) \subseteq Marked(S) /\ Traced(Marked(S)) /\ Marked(S) \subseteq Closures
         /\ \A T \in SUBSET Closures : ClosuresOf(S) \subseteq T /\ Traced(T) => Marked(S) \subseteq T
  <1>1. ClosuresOf(S) \subseteq Marked(S)
    BY DEF Marked, ClosuresOf
  <1>2. Marked(S) \subseteq Closures
    BY DEF Marked
  <1>3. \A T \in SUBSET Closures : ClosuresOf(S) \subseteq T /\ Traced(T) => Marked(S) \subseteq T
    BY DEF Marked
  <1>4. Traced(Marked(S))
    <2> SUFFICES ASSUME NEW c \in Marked(S), upvalue[c] # Null, cells[upvalue[c]] \in Closures,
                        NEW T \in SUBSET Closures, ClosuresOf(S) \subseteq T, Traced(T)
                 PROVE  cells[upvalue[c]] \in T
      BY DEF Traced, Marked, HeldBy, ClosuresOf
    <2>1. c \in T
      BY <1>3
    <2>2. upvalue[c] \in HeldBy(T)
      BY <2>1 DEF HeldBy
    <2>3. QED
      BY <2>2 DEF Traced, ClosuresOf
  <1>5. QED
    BY <1>1, <1>2, <1>3, <1>4

LEMMA OwnedIs ==
  ASSUME MachineInv, Running
  PROVE  /\ Frame \in FrameRecords /\ Frame.slots \in 1 .. top /\ top \in Slots
         /\ frameCount \in 1 .. FramesMax /\ Frame.ip \in 0 .. CodeMax
         /\ Owned = Frame.slots + 1 .. top
         /\ Cardinality(Owned) = top - Frame.slots
  <1>1. top \in 0 .. StackMax /\ frameCount \in 1 .. FramesMax
    BY BoundsAssumption DEF MachineInv, TravelTypeOK, Running
  <1>2. Frame \in FrameRecords /\ Frame.slots <= top
    BY <1>1 DEF MachineInv, Nested, Frame
  <1>3. Frame.slots \in 1 .. StackMax /\ Frame.ip \in 0 .. CodeMax
    BY <1>2 DEF FrameRecords, Slots
  <1>4. Owned = Frame.slots + 1 .. top
    BY DEF Owned
  <1>5. Cardinality(Frame.slots + 1 .. top) = top - Frame.slots
    <2>1. Frame.slots + 1 \in Int /\ top \in Int /\ (Frame.slots + 1 > top => top - Frame.slots = 0)
      BY <1>1, <1>2, <1>3, BoundsAssumption
    <2>2. Cardinality(Frame.slots + 1 .. top)
            = IF Frame.slots + 1 > top THEN 0 ELSE top - (Frame.slots + 1) + 1
      BY <2>1, FS_Interval
    <2>3. QED
      BY <1>1, <1>3, <2>1, <2>2, BoundsAssumption
  <1>6. QED
    BY <1>1, <1>2, <1>3, <1>4, <1>5, BoundsAssumption DEF Slots

(* The record of an instruction *)
NewRecord(cell, key) ==
  [ip |-> Frame.ip, stackHeight |-> top, frameCount |-> frameCount, saved |-> Saved,
   slotTarget |-> cell, slotOld |-> IF cell = Null THEN Nil ELSE cells[cell],
   tableKey |-> key, tableOld |-> IF key = Null THEN Absent ELSE table[key]]

LEMMA SavedIs ==
  ASSUME MachineInv
  PROVE  /\ Saved \in Seq(Values)
         /\ Len(Saved) = IF top < SavedMax THEN top ELSE SavedMax
         /\ \A j \in 1 .. Len(Saved) : Saved[j] = cells[top - Len(Saved) + j]
  <1> DEFINE keep == IF top < SavedMax THEN top ELSE SavedMax
  <1>1. top \in 0 .. StackMax /\ keep \in 0 .. top /\ StackMax \in Nat
    BY BoundsAssumption DEF MachineInv, TravelTypeOK, SavedMax
  <1>2. \A j \in 1 .. keep : cells[top - keep + j] \in Values
    <2>1. cells \in [Cells -> Values]
      BY DEF MachineInv, TravelTypeOK
    <2>2. \A j \in 1 .. keep : top - keep + j \in 1 .. StackMax
      BY <1>1
    <2>3. \A j \in 1 .. keep : top - keep + j \in Cells
      BY <2>2 DEF Cells, Slots
    <2>4. QED
      BY <2>1, <2>3
  <1>3. Saved = [j \in 1 .. keep |-> cells[top - keep + j]]
    BY DEF Saved
  <1> HIDE DEF keep
  <1>4. Saved \in Seq(Values) /\ Len(Saved) = keep
    BY <1>1, <1>2, <1>3
  <1>5. QED
    BY <1>1, <1>3, <1>4 DEF keep

(* The log and the past after an instruction *)
LEMMA Logged ==
  ASSUME MachineInv, RecordsInv, NEW cell \in Cells \cup {Null}, NEW key \in Keys \cup {Null},
         Log(cell, key)
  PROVE  /\ Len(log) \in Nat /\ Len(log') = Len(log) + 1 /\ Len(past') = Len(log')
         /\ \A i \in 1 .. Len(log) : log'[i] = log[i] /\ past'[i] = past[i]
         /\ log'[Len(log) + 1] = NewRecord(cell, key) /\ past'[Len(log) + 1] = View
         /\ NewRecord(cell, key) \in Records
         /\ log' \in Seq(Records)
  <1>1. Running /\ log' = Append(log, NewRecord(cell, key)) /\ past' = Append(past, View)
    BY DEF Log, NewRecord
  <1>2. log \in Seq(Records) /\ past \in Seq(Pasts) /\ Len(past) = Len(log)
    BY DEF RecordsInv
  <1>3. NewRecord(cell, key) \in Records
    <2>1. /\ Frame.ip \in 0 .. CodeMax /\ top \in Slots /\ frameCount \in 1 .. FramesMax
          /\ Saved \in Seq(Values)
      BY <1>1, OwnedIs, SavedIs
    <2>2. (IF cell = Null THEN Nil ELSE cells[cell]) \in Values
      BY AddressAssumption DEF MachineInv, TravelTypeOK, Values
    <2>3. (IF key = Null THEN Absent ELSE table[key]) \in Values \cup {Absent}
      BY AddressAssumption DEF MachineInv, TravelTypeOK
    <2>4. QED
      BY <2>1, <2>2, <2>3 DEF NewRecord, Records
  <1>4. QED
    BY <1>1, <1>2, <1>3

(* What the view shows *)
LEMMA ViewIs ==
  ASSUME MachineInv
  PROVE  /\ View \in Pasts
         /\ Len(View.stack) = top /\ \A i \in 1 .. top : View.stack[i] = cells[i]
         /\ Len(View.frames) = frameCount /\ \A j \in 1 .. frameCount : View.frames[j] = frames[j]
         /\ View.table = table
         /\ View.open \subseteq DOMAIN View.captured
         /\ \A u \in View.open : u \in open /\ location[u] \in 1 .. top
         /\ \A u \in DOMAIN View.captured : View.captured[u] = cells[location[u]]
         /\ ClosedIn(View) = {u \in HeldBy(Marked(InUse)) : location[u] = u}
         /\ DOMAIN View.captured \subseteq HeldBy(Marked(InUse))
  <1> DEFINE held == HeldBy(Marked(InUse))
             onStack == {u \in open \cap held : location[u] <= top}
             seen == onStack \cup {w \in held : location[w] = w}
             stack == [i \in 1 .. top |-> cells[i]]
             fs == [i \in 1 .. frameCount |-> frames[i]]
             captured == [u \in seen |-> cells[location[u]]]
  <1>1. View = [stack |-> stack, frames |-> fs, table |-> table, open |-> onStack,
                captured |-> captured]
    BY DEF View
  <1>2. /\ top \in Nat /\ frameCount \in Nat /\ open \subseteq Upvalues
        /\ cells \in [Cells -> Values] /\ location \in [Upvalues -> Cells]
        /\ \A i \in 1 .. top : i \in Cells
        /\ table \in [Keys -> Values \cup {Absent}]
    BY BoundsAssumption DEF MachineInv, TravelTypeOK, Cells, Slots
  <1>3. held \subseteq Upvalues
    BY MarkedIs DEF HeldBy, MachineInv, TravelTypeOK
  <1>4. \A u \in open : location[u] \in Slots /\ u \notin Slots
    BY AddressAssumption, <1>2 DEF MachineInv
  <1> HIDE DEF held
  <1>5. stack \in Seq(Values) /\ Len(stack) = top /\ \A i \in 1 .. top : stack[i] = cells[i]
    BY <1>2
  <1>6. fs \in Seq(FrameRecords) /\ Len(fs) = frameCount /\ \A j \in 1 .. frameCount : fs[j] = frames[j]
    BY <1>2 DEF MachineInv, Nested
  <1>7. onStack \in SUBSET Upvalues /\ seen \in SUBSET Upvalues /\ captured \in [seen -> Values]
    BY <1>2, <1>3
  <1>8. captured \in UNION {[D -> Values] : D \in SUBSET Upvalues}
    BY <1>7
  <1>9. seen \ onStack = {u \in held : location[u] = u}
    BY <1>2, <1>3, <1>4
  <1>10. onStack \subseteq seen /\ DOMAIN captured = seen /\ seen \subseteq held
         /\ \A u \in seen : captured[u] = cells[location[u]]
    OBVIOUS
  <1>11. \A u \in onStack : u \in open /\ location[u] \in 1 .. top
    BY <1>2, <1>4 DEF Slots
  <1> HIDE DEF onStack, seen, stack, fs, captured
  <1>12. View \in Pasts
    BY <1>1, <1>2, <1>5, <1>6, <1>7, <1>8 DEF Pasts
  <1>13. /\ View.stack = stack /\ View.frames = fs /\ View.table = table /\ View.open = onStack
         /\ View.captured = captured
    BY <1>1
  <1>14. ClosedIn(View) = {u \in held : location[u] = u}
    BY <1>9, <1>10, <1>13 DEF ClosedIn
  <1>15. QED
    BY <1>5, <1>6, <1>10, <1>11, <1>12, <1>13, <1>14 DEF held

(* Marking traverses nothing but what a view shows. *)
LEMMA ViewUsed ==
  ASSUME MachineInv
  PROVE  UsedThen(View, Marked(InUse), upvalue)
  <1> DEFINE M == Marked(InUse)
  <1>1. M \subseteq Closures
    BY MarkedIs
  <1>2. \A u \in DOMAIN View.captured : \E c \in M : upvalue[c] = u
    BY ViewIs DEF HeldBy
  <1>3. ASSUME NEW T \in SUBSET M, RootsThen(View) \subseteq T, TracedThen(View, T, upvalue)
        PROVE  T = M
    <2>1. ASSUME NEW c \in ClosuresOf(InUse) PROVE c \in T
      <3>1. c \in Closures /\ c \in InUse
        BY DEF ClosuresOf
      <3>2. CASE \E i \in 1 .. top : c = cells[i]
        <4>1. c \in ValuesIn(View.stack)
          BY <3>2, ViewIs DEF ValuesIn, Pasts
        <4>2. QED
          BY <1>3, <3>1, <4>1 DEF RootsThen, ClosuresOf
      <3>3. CASE \E i \in 1 .. frameCount : c = frames[i].closure
        <4>1. \E i \in DOMAIN View.frames : c = View.frames[i].closure
          BY <3>3, ViewIs DEF Pasts
        <4>2. QED
          BY <1>3, <3>1, <4>1 DEF RootsThen, ClosuresOf
      <3>4. CASE c \in ValuesIn(table)
        BY <1>3, <3>1, <3>4, ViewIs DEF RootsThen, ClosuresOf
      <3>5. CASE \E u \in open : c = cells[u]
        BY <3>1, <3>5, AddressAssumption DEF MachineInv, TravelTypeOK
      <3>6. QED
        BY <3>1, <3>2, <3>3, <3>4, <3>5 DEF InUse
    <2>2. ASSUME NEW c \in T, upvalue[c] # Null, cells[upvalue[c]] \in Closures
          PROVE  cells[upvalue[c]] \in T
      <3> DEFINE u == upvalue[c]
      <3>1. u \in Upvalues
        BY <1>1, <2>2 DEF MachineInv, TravelTypeOK
      <3>2. location[u] = u
        BY <2>2, <3>1, AddressAssumption DEF MachineInv
      <3>3. u \in ClosedIn(View) /\ View.captured[u] = cells[u]
        BY <2>2, <3>2, ViewIs DEF HeldBy, ClosedIn
      <3>4. QED
        BY <1>3, <2>2, <3>3 DEF TracedThen
    <2>3. ClosuresOf(InUse) \subseteq T /\ Traced(T)
      BY <2>1, <2>2 DEF Traced, HeldBy, ClosuresOf
    <2>4. QED
      BY <1>1, <2>3, MarkedIs
  <1>4. RootsThen(View) \subseteq M
    <2> SUFFICES ASSUME NEW c \in RootsThen(View) PROVE c \in ClosuresOf(InUse)
      BY MarkedIs
    <2>1. c \in Closures /\ c \in ValuesIn(View.stack) \cup ValuesIn(View.table)
                                \cup {View.frames[j].closure : j \in DOMAIN View.frames}
      BY DEF RootsThen, ClosuresOf
    <2>2. CASE c \in ValuesIn(View.stack)
      <3>1. \E i \in 1 .. top : c = cells[i]
        BY <2>2, ViewIs DEF ValuesIn, Pasts
      <3>2. QED
        BY <2>1, <3>1 DEF InUse, ClosuresOf
    <2>3. CASE c \in ValuesIn(View.table)
      BY <2>1, <2>3, ViewIs DEF InUse, ClosuresOf
    <2>4. CASE c \in {View.frames[j].closure : j \in DOMAIN View.frames}
      <3>1. \E j \in 1 .. frameCount : c = frames[j].closure
        BY <2>4, ViewIs DEF Pasts
      <3>2. QED
        BY <2>1, <3>1 DEF InUse, ClosuresOf
    <2>5. QED
      BY <2>1, <2>2, <2>3, <2>4
  <1>5. TracedThen(View, M, upvalue)
    <2> SUFFICES ASSUME NEW c \in M, upvalue[c] \in ClosedIn(View),
                        View.captured[upvalue[c]] \in Closures
                 PROVE  View.captured[upvalue[c]] \in M
      BY DEF TracedThen
    <2>1. upvalue[c] \in HeldBy(M) /\ location[upvalue[c]] = upvalue[c]
      BY ViewIs
    <2>2. View.captured[upvalue[c]] = cells[upvalue[c]]
      BY <2>1, ViewIs DEF ClosedIn
    <2>3. QED
      BY <2>1, <2>2, MarkedIs DEF Traced, ClosuresOf
  <1>6. QED
    BY <1>1, <1>2, <1>3, <1>4, <1>5 DEF UsedThen

-----------------------------------------------------------------------------
(* `more` are the n records and rec.                                       *)
OneMore(records, rec, more, n) ==
  /\ n \in Nat /\ Len(records) = n /\ Len(more) = n + 1 /\ more[n + 1] = rec
  /\ \A l \in 1 .. n : more[l] = records[l]

(* One record more: rec saves what the instruction overwrites.             *)
LEMMA CellForward ==
  ASSUME NEW records, NEW rec, NEW more, NEW n \in Nat, OneMore(records, rec, more, n),
         NEW i \in 1 .. n + 1, NEW c, NEW v, NEW now, NEW later, NEW height, NEW laterHeight,
         CellComesBack(records, now, height, i, c, v),
         rec.stackHeight = height,
         Restores(rec, c) => Restored(rec, c) = now[c],
         ~Restores(rec, c) /\ OnStack(c, height)
           => later[c] = now[c] /\ OnStack(c, laterHeight)
  PROVE  CellComesBack(more, later, laterHeight, i, c, v)
  <1> USE DEF OneMore
  <1>1. PICK m \in i .. n + 1 :
          /\ \A l \in i .. m - 1 : ~Restores(records[l], c) /\ OnStack(c, records[l].stackHeight)
          /\ IF m <= n
             THEN /\ Restores(records[m], c) /\ Restored(records[m], c) = v
                  /\ OnStack(c, records[m].stackHeight)
             ELSE now[c] = v /\ OnStack(c, height)
    BY DEF CellComesBack
  <1>2. m \in i .. n + 2 /\ m \in 1 .. n + 1 /\ \A l \in i .. m - 1 : l \in 1 .. n /\ more[l] = records[l]
    OBVIOUS
  <1>3. CASE m <= n
    BY <1>1, <1>2, <1>3 DEF CellComesBack
  <1>4. CASE m = n + 1 /\ Restores(more[n + 1], c)
    BY <1>1, <1>2, <1>4 DEF CellComesBack
  <1>5. CASE m = n + 1 /\ ~Restores(more[n + 1], c)
    <2>1. later[c] = v /\ OnStack(c, laterHeight) /\ OnStack(c, height)
      BY <1>1, <1>5
    <2>2. \A l \in i .. n + 1 : ~Restores(more[l], c) /\ OnStack(c, more[l].stackHeight)
      <3> SUFFICES ASSUME NEW l \in i .. n + 1
                   PROVE  ~Restores(more[l], c) /\ OnStack(c, more[l].stackHeight)
        OBVIOUS
      <3>1. CASE l = n + 1
        BY <1>5, <2>1, <3>1
      <3>2. CASE l # n + 1
        <4>1. l \in i .. m - 1
          BY <1>5, <3>2
        <4>2. QED
          BY <1>1, <1>2, <4>1
      <3>3. QED
        BY <3>1, <3>2
    <2>3. n + 2 \in i .. Len(more) + 1 /\ ~(n + 2 <= Len(more)) /\ n + 2 - 1 = n + 1
      OBVIOUS
    <2>4. QED
      BY <2>1, <2>2, <2>3 DEF CellComesBack
  <1>6. QED
    BY <1>3, <1>4, <1>5

(* The newest record undone *)
LEMMA CellBack ==
  ASSUME NEW records, NEW rec, NEW fewer, NEW n \in Nat, OneMore(fewer, rec, records, n),
         NEW i \in 1 .. n + 1, NEW c, NEW v, NEW now, NEW undone, NEW height,
         CellComesBack(records, now, height, i, c, v),
         undone[c] = IF Restores(rec, c) THEN Restored(rec, c) ELSE now[c]
  PROVE  CellComesBack(fewer, undone, rec.stackHeight, i, c, v)
  <1> USE DEF OneMore
  <1>1. PICK m \in i .. n + 2 :
          /\ \A l \in i .. m - 1 : ~Restores(records[l], c) /\ OnStack(c, records[l].stackHeight)
          /\ IF m <= n + 1
             THEN /\ Restores(records[m], c) /\ Restored(records[m], c) = v
                  /\ OnStack(c, records[m].stackHeight)
             ELSE now[c] = v /\ OnStack(c, height)
    BY DEF CellComesBack
  <1>2. CASE m <= n
    <2>1. m \in 1 .. n /\ m \in i .. n + 1 /\ \A l \in i .. m - 1 : l \in 1 .. n
      BY <1>2
    <2>2. QED
      BY <1>1, <1>2, <2>1 DEF CellComesBack
  <1>3. CASE m > n
    <2>1. undone[c] = v /\ OnStack(c, records[n + 1].stackHeight)
      <3>1. CASE m = n + 1
        BY <1>1, <3>1
      <3>2. CASE m = n + 2
        <4>1. n + 1 \in i .. m - 1
          BY <3>2
        <4>2. QED
          BY <1>1, <3>2, <4>1
      <3>3. m = n + 1 \/ m = n + 2
        BY <1>3
      <3>4. QED
        BY <3>1, <3>2, <3>3
    <2>2. n + 1 \in i .. n + 1 /\ ~(n + 1 <= n) /\ \A l \in i .. n + 1 - 1 : l \in i .. m - 1 /\ l \in 1 .. n
      BY <1>3
    <2>3. QED
      BY <1>1, <2>1, <2>2 DEF CellComesBack
  <1>4. QED
    BY <1>2, <1>3

(* With no record to undo, what comes back is what is there.               *)
LEMMA CellThere ==
  ASSUME NEW records, Len(records) \in Nat, NEW i, i = Len(records) + 1,
         NEW c, NEW v, NEW now, NEW height
  PROVE  CellComesBack(records, now, height, i, c, v) <=> now[c] = v /\ OnStack(c, height)
  <1>1. \A m \in i .. Len(records) + 1 : m = i /\ ~(m <= Len(records))
    OBVIOUS
  <1>2. i \in i .. Len(records) + 1 /\ \A l \in i .. i - 1 : FALSE
    OBVIOUS
  <1>3. QED
    BY <1>1, <1>2 DEF CellComesBack

(* The cells that the newest of the instructions saw                       *)
LEMMA CellLast ==
  ASSUME NEW records, NEW rec, NEW fewer, NEW n \in Nat, OneMore(fewer, rec, records, n),
         NEW i, i = n + 1, NEW c, NEW v, NEW now, NEW height,
         CellComesBack(records, now, height, i, c, v)
  PROVE  v = IF Restores(rec, c) THEN Restored(rec, c) ELSE now[c]
  <1> DEFINE undone == [x \in {c} |-> IF Restores(rec, c) THEN Restored(rec, c) ELSE now[c]]
  <1>0. undone[c] = IF Restores(rec, c) THEN Restored(rec, c) ELSE now[c]
    OBVIOUS
  <1> HIDE DEF undone
  <1>1. i \in 1 .. n + 1 /\ Len(fewer) \in Nat /\ i = Len(fewer) + 1
    BY DEF OneMore
  <1>2. CellComesBack(fewer, undone, rec.stackHeight, i, c, v)
    BY <1>0, <1>1, CellBack
  <1>3. undone[c] = v
    BY <1>1, <1>2, CellThere
  <1>4. QED
    BY <1>0, <1>3

LEMMA KeyForward ==
  ASSUME NEW records, NEW rec, NEW more, NEW n \in Nat, OneMore(records, rec, more, n),
         NEW i \in 1 .. n + 1, NEW k, NEW v, NEW now, NEW later,
         KeyComesBack(records, now, i, k, v),
         IF rec.tableKey = k THEN rec.tableOld = now[k] ELSE later[k] = now[k]
  PROVE  KeyComesBack(more, later, i, k, v)
  <1> USE DEF OneMore
  <1>1. PICK m \in i .. n + 1 :
          /\ \A l \in i .. m - 1 : records[l].tableKey # k
          /\ IF m <= n THEN records[m].tableKey = k /\ records[m].tableOld = v ELSE now[k] = v
    BY DEF KeyComesBack
  <1>2. m \in i .. n + 2 /\ m \in 1 .. n + 1 /\ \A l \in i .. m - 1 : l \in 1 .. n /\ more[l] = records[l]
    OBVIOUS
  <1>3. CASE m <= n
    BY <1>1, <1>2, <1>3 DEF KeyComesBack
  <1>4. CASE m = n + 1 /\ more[n + 1].tableKey = k
    BY <1>1, <1>2, <1>4 DEF KeyComesBack
  <1>5. CASE m = n + 1 /\ more[n + 1].tableKey # k
    <2>1. later[k] = v
      BY <1>1, <1>5
    <2>2. \A l \in i .. n + 1 : more[l].tableKey # k
      <3> SUFFICES ASSUME NEW l \in i .. n + 1, l # n + 1 PROVE more[l].tableKey # k
        BY <1>5
      <3>1. l \in i .. m - 1
        BY <1>5
      <3>2. QED
        BY <1>1, <1>2, <3>1
    <2>3. n + 2 \in i .. Len(more) + 1 /\ ~(n + 2 <= Len(more)) /\ n + 2 - 1 = n + 1
      OBVIOUS
    <2>4. QED
      BY <2>1, <2>2, <2>3 DEF KeyComesBack
  <1>6. QED
    BY <1>3, <1>4, <1>5

LEMMA KeyBack ==
  ASSUME NEW records, NEW rec, NEW fewer, NEW n \in Nat, OneMore(fewer, rec, records, n),
         NEW i \in 1 .. n + 1, NEW k, NEW v, NEW now, NEW undone,
         KeyComesBack(records, now, i, k, v),
         undone[k] = IF rec.tableKey = k THEN rec.tableOld ELSE now[k]
  PROVE  KeyComesBack(fewer, undone, i, k, v)
  <1> USE DEF OneMore
  <1>1. PICK m \in i .. n + 2 :
          /\ \A l \in i .. m - 1 : records[l].tableKey # k
          /\ IF m <= n + 1 THEN records[m].tableKey = k /\ records[m].tableOld = v
             ELSE now[k] = v
    BY DEF KeyComesBack
  <1>2. CASE m <= n
    <2>1. m \in 1 .. n /\ m \in i .. n + 1 /\ \A l \in i .. m - 1 : l \in 1 .. n
      BY <1>2
    <2>2. QED
      BY <1>1, <1>2, <2>1 DEF KeyComesBack
  <1>3. CASE m > n
    <2>1. undone[k] = v
      <3>1. CASE m = n + 1
        BY <1>1, <3>1
      <3>2. CASE m = n + 2
        <4>1. n + 1 \in i .. m - 1
          BY <3>2
        <4>2. QED
          BY <1>1, <3>2, <4>1
      <3>3. m = n + 1 \/ m = n + 2
        BY <1>3
      <3>4. QED
        BY <3>1, <3>2, <3>3
    <2>2. n + 1 \in i .. n + 1 /\ ~(n + 1 <= n) /\ \A l \in i .. n + 1 - 1 : l \in i .. m - 1 /\ l \in 1 .. n
      BY <1>3
    <2>3. QED
      BY <1>1, <2>1, <2>2 DEF KeyComesBack
  <1>4. QED
    BY <1>2, <1>3

LEMMA KeyThere ==
  ASSUME NEW records, Len(records) \in Nat, NEW i, i = Len(records) + 1,
         NEW k, NEW v, NEW now
  PROVE  KeyComesBack(records, now, i, k, v) <=> now[k] = v
  <1>1. \A m \in i .. Len(records) + 1 : m = i /\ ~(m <= Len(records))
    OBVIOUS
  <1>2. i \in i .. Len(records) + 1 /\ \A l \in i .. i - 1 : FALSE
    OBVIOUS
  <1>3. QED
    BY <1>1, <1>2 DEF KeyComesBack

LEMMA FrameForward ==
  ASSUME NEW records, NEW rec, NEW more, NEW n \in Nat, OneMore(records, rec, more, n),
         NEW i \in 1 .. n + 1, NEW j, NEW f, NEW now, NEW later,
         FrameComesBack(records, now, i, j, f),
         later[j].closure = now[j].closure, later[j].slots = now[j].slots,
         IF rec.frameCount = j THEN rec.ip = now[j].ip ELSE later[j].ip = now[j].ip
  PROVE  FrameComesBack(more, later, i, j, f)
  <1> USE DEF OneMore
  <1>0. now[j].closure = f.closure /\ now[j].slots = f.slots
    BY DEF FrameComesBack
  <1>1. PICK m \in i .. n + 1 :
          /\ \A l \in i .. m - 1 : records[l].frameCount # j
          /\ IF m <= n THEN records[m].frameCount = j /\ records[m].ip = f.ip ELSE now[j].ip = f.ip
    BY DEF FrameComesBack
  <1>2. m \in i .. n + 2 /\ m \in 1 .. n + 1 /\ \A l \in i .. m - 1 : l \in 1 .. n /\ more[l] = records[l]
    OBVIOUS
  <1>3. CASE m <= n
    BY <1>0, <1>1, <1>2, <1>3 DEF FrameComesBack
  <1>4. CASE m = n + 1 /\ more[n + 1].frameCount = j
    BY <1>0, <1>1, <1>2, <1>4 DEF FrameComesBack
  <1>5. CASE m = n + 1 /\ more[n + 1].frameCount # j
    <2>1. later[j].ip = f.ip
      BY <1>1, <1>5
    <2>2. \A l \in i .. n + 1 : more[l].frameCount # j
      <3> SUFFICES ASSUME NEW l \in i .. n + 1, l # n + 1 PROVE more[l].frameCount # j
        BY <1>5
      <3>1. l \in i .. m - 1
        BY <1>5
      <3>2. QED
        BY <1>1, <1>2, <3>1
    <2>3. n + 2 \in i .. Len(more) + 1 /\ ~(n + 2 <= Len(more)) /\ n + 2 - 1 = n + 1
      OBVIOUS
    <2>4. QED
      BY <1>0, <2>1, <2>2, <2>3 DEF FrameComesBack
  <1>6. QED
    BY <1>3, <1>4, <1>5

LEMMA FrameBack ==
  ASSUME NEW records, NEW rec, NEW fewer, NEW n \in Nat, OneMore(fewer, rec, records, n),
         NEW i \in 1 .. n + 1, NEW j, NEW f, NEW now, NEW undone,
         FrameComesBack(records, now, i, j, f),
         undone[j].closure = now[j].closure, undone[j].slots = now[j].slots,
         undone[j].ip = IF rec.frameCount = j THEN rec.ip ELSE now[j].ip
  PROVE  FrameComesBack(fewer, undone, i, j, f)
  <1> USE DEF OneMore
  <1>0. now[j].closure = f.closure /\ now[j].slots = f.slots
    BY DEF FrameComesBack
  <1>1. PICK m \in i .. n + 2 :
          /\ \A l \in i .. m - 1 : records[l].frameCount # j
          /\ IF m <= n + 1 THEN records[m].frameCount = j /\ records[m].ip = f.ip
             ELSE now[j].ip = f.ip
    BY DEF FrameComesBack
  <1>2. CASE m <= n
    <2>1. m \in 1 .. n /\ m \in i .. n + 1 /\ \A l \in i .. m - 1 : l \in 1 .. n
      BY <1>2
    <2>2. QED
      BY <1>0, <1>1, <1>2, <2>1 DEF FrameComesBack
  <1>3. CASE m > n
    <2>1. undone[j].ip = f.ip
      <3>1. CASE m = n + 1
        BY <1>1, <3>1
      <3>2. CASE m = n + 2
        <4>1. n + 1 \in i .. m - 1
          BY <3>2
        <4>2. QED
          BY <1>1, <3>2, <4>1
      <3>3. m = n + 1 \/ m = n + 2
        BY <1>3
      <3>4. QED
        BY <3>1, <3>2, <3>3
    <2>2. n + 1 \in i .. n + 1 /\ ~(n + 1 <= n) /\ \A l \in i .. n + 1 - 1 : l \in i .. m - 1 /\ l \in 1 .. n
      BY <1>3
    <2>3. QED
      BY <1>0, <1>1, <2>1, <2>2 DEF FrameComesBack
  <1>4. QED
    BY <1>2, <1>3

LEMMA FrameThere ==
  ASSUME NEW records, Len(records) \in Nat, NEW i, i = Len(records) + 1,
         NEW j, NEW f, NEW now
  PROVE  FrameComesBack(records, now, i, j, f)
           <=> /\ now[j].closure = f.closure /\ now[j].slots = f.slots /\ now[j].ip = f.ip
  <1>1. \A m \in i .. Len(records) + 1 : m = i /\ ~(m <= Len(records))
    OBVIOUS
  <1>2. i \in i .. Len(records) + 1 /\ \A l \in i .. i - 1 : FALSE
    OBVIOUS
  <1>3. QED
    BY <1>1, <1>2 DEF FrameComesBack

-----------------------------------------------------------------------------
(* What the log holds is marked.                                           *)
LEMMA LogIsRooted ==
  /\ \A n \in 0 .. Len(log) : SavedBy(log, n) \subseteq Roots
  /\ \A m \in 1 .. Len(log) : log[m].slotOld \in Roots
  <1>1. \A m \in 1 .. Len(log) : ValuesIn(log[m].saved) \subseteq Roots /\ log[m].slotOld \in Roots
    BY DEF Roots
  <1>2. QED
    BY <1>1 DEF SavedBy

(* The stack before an instruction is in the records up to its own.        *)
LEMMA StackSaved ==
  ASSUME TravelInv, NEW i \in 1 .. Len(log)
  PROVE  /\ \A j \in 1 .. log[i].stackHeight : past[i].stack[j] \in SavedBy(log, i)
         /\ SavedBy(log, i - 1) \subseteq SavedBy(log, i) /\ Script \in SavedBy(log, i)
         /\ SavedBy(log, i) \subseteq Roots
  <1>1. /\ log \in Seq(Records) /\ Len(log) \in Nat
        /\ \A m \in 1 .. Len(log) : Matches(log[m], past[m])
    BY DEF TravelInv, RecordsInv
  <1>2. SavedBy(log, i - 1) \subseteq SavedBy(log, i)
    BY DEF SavedBy
  <1>3. ASSUME NEW m \in 1 .. Len(log), NEW j \in 1 .. log[m].stackHeight
        PROVE  j <= log[m].stackHeight - SavedMax \/ past[m].stack[j] \in ValuesIn(log[m].saved)
    <2> DEFINE h == log[m].stackHeight
               keep == IF h < SavedMax THEN h ELSE SavedMax
    <2>1. h \in Nat /\ log[m].saved \in Seq(Values)
      <3>1. log[m] \in Records
        BY <1>1
      <3>2. QED
        BY <3>1, BoundsAssumption DEF Records, Slots
    <2>2. /\ Len(log[m].saved) = keep
          /\ \A x \in 1 .. keep : log[m].saved[x] = past[m].stack[h - keep + x]
      BY <1>1 DEF Matches, Base
    <2>3. j <= h - SavedMax \/ j - (h - keep) \in 1 .. keep
      BY <2>1 DEF SavedMax
    <2>4. ASSUME j - (h - keep) \in 1 .. keep PROVE past[m].stack[j] \in ValuesIn(log[m].saved)
      <3>1. h - keep + (j - (h - keep)) = j /\ keep \in Nat
        BY <2>1 DEF SavedMax
      <3>2. log[m].saved[j - (h - keep)] = past[m].stack[j]
        BY <2>2, <2>4, <3>1
      <3>3. j - (h - keep) \in DOMAIN log[m].saved
        BY <2>1, <2>2, <2>4
      <3>4. QED
        BY <3>2, <3>3 DEF ValuesIn
    <2>5. QED
      BY <2>3, <2>4
  <1>4. \A j \in 1 .. log[i].stackHeight : past[i].stack[j] \in SavedBy(log, i)
    <2> SUFFICES ASSUME NEW j \in 1 .. log[i].stackHeight PROVE past[i].stack[j] \in SavedBy(log, i)
      OBVIOUS
    <2>1. CASE j <= log[i].stackHeight - SavedMax
      BY <1>2, <2>1 DEF TravelInv, StoredInv, Stored
    <2>2. CASE past[i].stack[j] \in ValuesIn(log[i].saved)
      BY <2>2 DEF SavedBy
    <2>3. QED
      BY <1>3, <2>1, <2>2
  <1>5. Script \in SavedBy(log, i)
    <2>1. log # <<>> /\ 1 \in 1 .. Len(log) /\ 1 \in 1 .. i
      BY <1>1
    <2>2. log[1].stackHeight = 1 /\ past[1].stack[1] = Script
      BY <2>1 DEF TravelInv, StoredInv
    <2>3. Script \in ValuesIn(log[1].saved)
      BY <1>3, <2>1, <2>2 DEF SavedMax
    <2>4. QED
      BY <2>1, <2>3 DEF SavedBy
  <1>6. SavedBy(log, i) \subseteq Roots
    BY <1>1, LogIsRooted
  <1>7. QED
    BY <1>2, <1>4, <1>5, <1>6

LEMMA ClosedKept ==
  ASSUME TravelInv, NEW i \in 1 .. Len(log), NEW u \in Upvalues, NEW v,
         CellComesBack(log, cells, Height, i, u, v)
  PROVE  v = cells[u] \/ v \in Roots
  <1>1. PICK m \in i .. Len(log) + 1 :
          IF m <= Len(log) THEN Restored(log[m], u) = v ELSE cells[u] = v
    BY DEF CellComesBack
  <1>2. Len(log) \in Nat /\ u \notin Slots
    BY AddressAssumption DEF TravelInv, RecordsInv
  <1>3. CASE m <= Len(log)
    <2>1. m \in 1 .. Len(log) /\ v = log[m].slotOld
      BY <1>1, <1>2, <1>3 DEF Restored
    <2>2. QED
      BY <2>1, LogIsRooted
  <1>4. QED
    BY <1>1, <1>2, <1>3

(* A closed variable of a closure that was in use *)
LEMMA ClosedVariable ==
  ASSUME TravelInv, NEW i \in 1 .. Len(log), NEW u \in ClosedIn(past[i])
  PROVE  /\ u \in Upvalues /\ location[u] = u /\ u \notin open
         /\ CellComesBack(log, cells, Height, i, u, past[i].captured[u])
         /\ past[i].captured[u] = cells[u] \/ past[i].captured[u] \in Roots
  <1>1. past[i] \in Pasts
    BY DEF TravelInv, RecordsInv
  <1>2. u \in Upvalues /\ u \in DOMAIN past[i].captured /\ u \notin past[i].open
    BY <1>1 DEF ClosedIn, Pasts
  <1>3. location[u] = u /\ CellComesBack(log, cells, Height, i, u, past[i].captured[u])
    BY <1>2 DEF TravelInv, ReplayInv, ComesBack, VariableComesBack
  <1>4. u \notin open
    BY <1>2, <1>3, AddressAssumption DEF TravelInv, MachineInv
  <1>5. QED
    BY <1>2, <1>3, <1>4, ClosedKept

(* No closure that was in use before an instruction in the log is freed.   *)
LEMMA UsedIsAlive ==
  ASSUME TravelInv, NEW i \in 1 .. Len(log), NEW M, UsedThen(past[i], M, upvalue)
  PROVE  M \subseteq Alive
  <1> DEFINE T == M \cap Alive
  <1>1. past[i] \in Pasts /\ Matches(log[i], past[i])
    BY DEF TravelInv, RecordsInv
  <1>2. RootsThen(past[i]) \subseteq ClosuresOf(Roots)
    <2> SUFFICES ASSUME NEW c \in RootsThen(past[i]) PROVE c \in Roots
      BY DEF RootsThen, ClosuresOf
    <2>1. /\ c \in Closures
          /\ c \in ValuesIn(past[i].stack) \cup ValuesIn(past[i].table)
                     \cup {past[i].frames[j].closure : j \in DOMAIN past[i].frames}
      BY DEF RootsThen, ClosuresOf
    <2>2. CASE c \in ValuesIn(past[i].stack)
      <3>1. \E j \in 1 .. log[i].stackHeight : c = past[i].stack[j]
        BY <1>1, <2>2 DEF ValuesIn, Pasts, Matches
      <3>2. QED
        BY <3>1, StackSaved
    <2>3. Stored(past[i].stack, log[i].stackHeight, past[i].frames, log[i].frameCount,
                 past[i].table, SavedBy(log, i - 1))
      BY DEF TravelInv, StoredInv
    <2>4. CASE c \in ValuesIn(past[i].table)
      <3>1. \E k \in Keys : c = past[i].table[k]
        BY <1>1, <2>4 DEF ValuesIn, Pasts
      <3>2. c \in SavedBy(log, i - 1) \/ c = Absent
        BY <2>3, <3>1 DEF Stored
      <3>3. QED
        BY <2>1, <3>2, StackSaved, AddressAssumption DEF Values
    <2>5. CASE c \in {past[i].frames[j].closure : j \in DOMAIN past[i].frames}
      <3>1. \E j \in 1 .. log[i].frameCount : c = past[i].frames[j].closure
        BY <1>1, <2>5 DEF Pasts, Matches
      <3>2. QED
        BY <2>3, <3>1, StackSaved DEF Stored
    <2>6. QED
      BY <2>1, <2>2, <2>4, <2>5
  <1>3. ClosuresOf(Roots) \subseteq Alive /\ Traced(Alive)
    BY MarkedIs DEF Alive
  <1>4. RootsThen(past[i]) \subseteq T
    BY <1>2, <1>3 DEF UsedThen
  <1>5. TracedThen(past[i], T, upvalue)
    <2> SUFFICES ASSUME NEW c \in T, upvalue[c] \in ClosedIn(past[i]),
                        past[i].captured[upvalue[c]] \in Closures
                 PROVE  past[i].captured[upvalue[c]] \in T
      BY DEF TracedThen
    <2>1. past[i].captured[upvalue[c]] \in M
      BY DEF UsedThen, TracedThen
    <2>2. CASE past[i].captured[upvalue[c]] \in Roots
      BY <1>3, <2>1, <2>2 DEF ClosuresOf
    <2>3. CASE past[i].captured[upvalue[c]] = cells[upvalue[c]]
      <3>1. upvalue[c] # Null
        BY AddressAssumption, ClosedVariable DEF Cells
      <3>2. cells[upvalue[c]] \in Alive
        BY <1>3, <2>3, <3>1 DEF Traced, HeldBy, ClosuresOf
      <3>3. QED
        BY <2>1, <2>3, <3>2
    <2>4. QED
      BY <2>2, <2>3, ClosedVariable
  <1>6. T = M
    BY <1>4, <1>5 DEF UsedThen
  <1>7. QED
    BY <1>6

-----------------------------------------------------------------------------
LEMMA Newest ==
  ASSUME log \in Seq(Records), log # <<>>, NEW n \in Nat, n = Len(log)
  PROVE  \E p \in Nat : n = p + 1 /\ OneMore(SubSeq(log, 1, n - 1), log[n], log, p)
  <1>1. PICK p \in Nat : n = p + 1
    <2>1. n # 0
      OBVIOUS
    <2>2. n - 1 \in Nat /\ n = n - 1 + 1
      BY <2>1
    <2>3. QED
      BY <2>2
  <1>2. n - 1 = p
    BY <1>1
  <1>3. Len(SubSeq(log, 1, p)) = p /\ \A l \in 1 .. p : SubSeq(log, 1, p)[l] = log[l]
    BY <1>1
  <1>4. OneMore(SubSeq(log, 1, n - 1), log[n], log, p)
    BY <1>1, <1>2, <1>3 DEF OneMore
  <1>5. QED
    BY <1>1, <1>4

(* The memory after a step back, which is the one before the instruction   *)
LEMMA UndoneIs ==
  ASSUME TravelInv, log # <<>>, NEW n \in Nat, n = Len(log)
  PROVE  /\ n \in 1 .. Len(log) /\ Last(log) = log[n] /\ Last(past) = past[n]
         /\ Undone.top = log[n].stackHeight /\ Undone.frameCount = log[n].frameCount
         /\ Undone.cells \in [Cells -> Values]
         /\ \A c \in Cells : Undone.cells[c] = IF Restores(log[n], c) THEN Restored(log[n], c)
                                               ELSE cells[c]
         /\ \A c \in 1 .. log[n].stackHeight : Undone.cells[c] = past[n].stack[c]
         /\ Undone.frames = [frames EXCEPT ![log[n].frameCount].ip = log[n].ip]
         /\ \A j \in 1 .. log[n].frameCount : Undone.frames[j] = past[n].frames[j]
         /\ Undone.table = past[n].table
         /\ \A k \in Keys : Undone.table[k] = IF log[n].tableKey = k THEN log[n].tableOld
                                              ELSE table[k]
  <1> DEFINE rec == log[n]
             saving(c) == c \in Slots /\ c \in Base(rec) + 1 .. rec.stackHeight
             deep == IF rec.slotTarget = Null THEN cells
                     ELSE [cells EXCEPT ![rec.slotTarget] = rec.slotOld]
  <1>1. /\ log \in Seq(Records) /\ Len(log) \in Nat /\ past \in Seq(Pasts) /\ Len(past) = n
        /\ Matches(log[n], past[n])
        /\ n \in 1 .. Len(log) /\ rec \in Records /\ past[n] \in Pasts
    BY DEF TravelInv, RecordsInv
  <1>2. Last(log) = rec /\ Last(past) = past[n]
    BY <1>1 DEF Last
  <1>3. Undone = [cells |-> [c \in Cells |-> IF saving(c) THEN rec.saved[c - Base(rec)] ELSE deep[c]],
                  top |-> rec.stackHeight,
                  frames |-> [frames EXCEPT ![rec.frameCount].ip = rec.ip],
                  frameCount |-> rec.frameCount,
                  table |-> UndoneTable(rec)]
    BY <1>2 DEF Undone, Base
  <1>4. /\ rec.stackHeight \in 1 .. StackMax /\ rec.saved \in Seq(Values) /\ rec.slotOld \in Values
        /\ rec.slotTarget \in Cells \cup {Null} /\ rec.frameCount \in 1 .. FramesMax
        /\ rec.tableKey \in Keys \cup {Null}
    BY <1>1 DEF Records, Slots
  <1>5. /\ cells \in [Cells -> Values] /\ Null \notin Cells /\ Null \notin Keys
        /\ table \in [Keys -> Values \cup {Absent}]
        /\ DOMAIN frames = 1 .. FramesMax
        /\ \A j \in 1 .. FramesMax : frames[j] \in [closure : Closures \cup {Null}, ip : 0 .. CodeMax,
                                                    slots : 0 .. StackMax]
    BY AddressAssumption DEF TravelInv, MachineInv, TravelTypeOK
  <1>6. deep \in [Cells -> Values] /\ \A c \in Cells : deep[c] = IF c = rec.slotTarget THEN rec.slotOld
                                                                 ELSE cells[c]
    BY <1>4, <1>5
  <1>7. Base(rec) \in Nat /\ Base(rec) + Len(rec.saved) = rec.stackHeight /\ Len(rec.saved) \in Nat
    BY <1>1, <1>4, BoundsAssumption DEF Matches, Base, SavedMax
  <1>8. ASSUME NEW c \in Cells, saving(c)
        PROVE  rec.saved[c - Base(rec)] \in Values
    <2>1. c - Base(rec) \in 1 .. Len(rec.saved)
      BY <1>7, <1>8 DEF Slots
    <2>2. QED
      BY <1>4, <2>1
  <1> HIDE DEF rec, deep
  <1>9. Undone.cells \in [Cells -> Values]
    BY <1>3, <1>6, <1>8
  <1>10. \A c \in Cells : Undone.cells[c] = IF Restores(rec, c) THEN Restored(rec, c) ELSE cells[c]
    <2> SUFFICES ASSUME NEW c \in Cells
                 PROVE  Undone.cells[c] = IF Restores(rec, c) THEN Restored(rec, c) ELSE cells[c]
      OBVIOUS
    <2>1. Undone.cells[c] = IF saving(c) THEN rec.saved[c - Base(rec)] ELSE deep[c]
      BY <1>3
    <2>2. CASE saving(c)
      BY <2>1, <2>2 DEF Restores, Restored
    <2>3. CASE ~saving(c)
      BY <1>6, <2>1, <2>3 DEF Restores, Restored
    <2>4. QED
      BY <2>2, <2>3
  <1>11. ASSUME NEW c \in 1 .. rec.stackHeight PROVE Undone.cells[c] = past[n].stack[c]
    <2>1. /\ CellComesBack(log, cells, Height, n, c, past[n].stack[c])
          /\ c \in Cells
      BY <1>1, <1>4, BoundsAssumption DEF TravelInv, ReplayInv, ComesBack, Cells, Slots, rec
    <2>2. Undone.cells[c] = IF Restores(log[n], c) THEN Restored(log[n], c) ELSE cells[c]
      BY <1>10, <2>1 DEF rec
    <2>3. PICK p \in Nat : n = p + 1 /\ OneMore(SubSeq(log, 1, n - 1), log[n], log, p)
      BY <1>1, Newest
    <2>4. QED
      BY <2>1, <2>2, <2>3, CellLast
  <1>12. Undone.frames = [frames EXCEPT ![rec.frameCount].ip = rec.ip]
    BY <1>3
  <1>13. ASSUME NEW j \in 1 .. rec.frameCount PROVE Undone.frames[j] = past[n].frames[j]
    <2>1. /\ FrameComesBack(log, frames, n, j, past[n].frames[j])
          /\ past[n].frames[j] \in FrameRecords /\ j \in 1 .. FramesMax
      BY <1>1, <1>4, BoundsAssumption DEF TravelInv, ReplayInv, ComesBack, rec, Matches, Nested
    <2>2. PICK m \in n .. n + 1 :
            /\ \A l \in n .. m - 1 : log[l].frameCount # j
            /\ IF m <= n THEN log[m].frameCount = j /\ log[m].ip = past[n].frames[j].ip
               ELSE frames[j].ip = past[n].frames[j].ip
      BY <2>1 DEF FrameComesBack
    <2>3. Undone.frames[j] = IF j = rec.frameCount THEN [frames[j] EXCEPT !.ip = rec.ip] ELSE frames[j]
      BY <1>4, <1>5, <1>12, <2>1
    <2>4. Undone.frames[j].ip = past[n].frames[j].ip
      <3>1. CASE m = n
        BY <1>5, <2>1, <2>2, <2>3, <3>1 DEF rec
      <3>2. CASE m = n + 1
        <4>1. n \in n .. m - 1
          BY <3>2
        <4>2. rec.frameCount # j
          BY <2>2, <4>1 DEF rec
        <4>3. QED
          BY <2>2, <2>3, <3>2, <4>2
      <3>3. QED
        BY <2>2, <3>1, <3>2
    <2>5. frames[j].closure = past[n].frames[j].closure /\ frames[j].slots = past[n].frames[j].slots
      BY <2>1 DEF FrameComesBack
    <2>6. /\ Undone.frames[j].closure = frames[j].closure /\ Undone.frames[j].slots = frames[j].slots
          /\ Undone.frames[j] = [closure |-> Undone.frames[j].closure, ip |-> Undone.frames[j].ip,
                                 slots |-> Undone.frames[j].slots]
      BY <1>5, <2>1, <2>3
    <2>7. past[n].frames[j] = [closure |-> past[n].frames[j].closure, ip |-> past[n].frames[j].ip,
                               slots |-> past[n].frames[j].slots]
      BY <2>1 DEF FrameRecords
    <2>8. QED
      BY <2>4, <2>5, <2>6, <2>7
  <1>14. \A k \in Keys : Undone.table[k] = IF rec.tableKey = k THEN rec.tableOld ELSE table[k]
    BY <1>3, <1>4, <1>5 DEF UndoneTable
  <1>15. Undone.table = past[n].table
    <2>1. DOMAIN Undone.table = Keys /\ Undone.table = [k \in Keys |-> Undone.table[k]]
      BY <1>3, <1>5 DEF UndoneTable
    <2>2. ASSUME NEW k \in Keys PROVE Undone.table[k] = past[n].table[k]
      <3>1. KeyComesBack(log, table, n, k, past[n].table[k])
        BY <1>1 DEF TravelInv, ReplayInv, ComesBack
      <3>2. PICK m \in n .. n + 1 :
              /\ \A l \in n .. m - 1 : log[l].tableKey # k
              /\ IF m <= n THEN log[m].tableKey = k /\ log[m].tableOld = past[n].table[k]
                 ELSE table[k] = past[n].table[k]
        BY <3>1 DEF KeyComesBack
      <3>3. CASE m = n
        BY <1>14, <3>2, <3>3 DEF rec
      <3>4. CASE m = n + 1
        <4>1. n \in n .. m - 1
          BY <3>4
        <4>2. QED
          BY <1>14, <3>2, <3>4, <4>1 DEF rec
      <3>5. QED
        BY <3>2, <3>3, <3>4
    <2>3. past[n].table \in [Keys -> Values \cup {Absent}]
      BY <1>1 DEF Pasts
    <2>4. QED
      BY <2>1, <2>2, <2>3
  <1>16. Undone.top = rec.stackHeight /\ Undone.frameCount = rec.frameCount
    BY <1>3
  <1>17. QED
    BY <1>1, <1>2, <1>9, <1>10, <1>11, <1>12, <1>13, <1>14, <1>15, <1>16 DEF rec

LEMMA InvRestores == ASSUME TravelInv PROVE StateRestored
  <1> SUFFICES ASSUME log # <<>>
               PROVE  \E mem \in {Undone}, was \in {Last(past)} :
                        /\ mem.top = Len(was.stack) /\ \A i \in 1 .. mem.top : mem.cells[i] = was.stack[i]
                        /\ mem.frameCount = Len(was.frames)
                        /\ \A i \in 1 .. mem.frameCount : mem.frames[i] = was.frames[i]
                        /\ mem.table = was.table
                        /\ CapturedRestored(mem, was, Upvalues \ (was.open \ open))
    BY DEF StateRestored
  <1> DEFINE n == Len(log)
             was == past[n]
  <1>1. n \in Nat
    BY DEF TravelInv, RecordsInv
  <1> HIDE DEF n
  <1>2. /\ n \in 1 .. Len(log) /\ Last(past) = was
        /\ Undone.top = log[n].stackHeight /\ Undone.frameCount = log[n].frameCount
        /\ \A c \in Cells : Undone.cells[c] = IF Restores(log[n], c) THEN Restored(log[n], c)
                                              ELSE cells[c]
        /\ \A c \in 1 .. log[n].stackHeight : Undone.cells[c] = was.stack[c]
        /\ \A j \in 1 .. log[n].frameCount : Undone.frames[j] = was.frames[j]
        /\ Undone.table = was.table
    BY <1>1, UndoneIs DEF n
  <1>3. Matches(log[n], was) /\ was \in Pasts
    BY <1>2 DEF TravelInv, RecordsInv
  <1>4. Len(was.stack) = log[n].stackHeight /\ Len(was.frames) = log[n].frameCount
    BY <1>3 DEF Matches
  <1>5. ASSUME NEW u \in DOMAIN was.captured, u \notin was.open \ open
        PROVE  Undone.cells[location[u]] = was.captured[u]
    <2>1. VariableComesBack(n, u)
      BY <1>2, <1>5 DEF TravelInv, ReplayInv, ComesBack
    <2>2. CASE u \in was.open
      <3>1. location[u] <= log[n].stackHeight /\ was.captured[u] = was.stack[location[u]]
        BY <1>5, <2>1, <2>2 DEF VariableComesBack
      <3>2. location[u] \in 1 .. log[n].stackHeight
        <4>1. location[u] \in 1 .. StackMax
          BY <1>5, <2>2 DEF TravelInv, MachineInv, Slots
        <4>2. log[n] \in Records
          BY <1>2 DEF TravelInv, RecordsInv
        <4>3. log[n].stackHeight \in 1 .. StackMax
          BY <4>2 DEF Records, Slots
        <4>4. QED
          BY <3>1, <4>1, <4>3, BoundsAssumption
      <3>3. QED
        BY <1>2, <3>1, <3>2
    <2>3. CASE u \notin was.open
      <3>1. u \in Upvalues /\ u \in Cells /\ u \in ClosedIn(was)
        BY <1>3, <1>5, <2>3 DEF Pasts, Cells, ClosedIn
      <3>2. location[u] = u /\ CellComesBack(log, cells, Height, n, u, was.captured[u])
        BY <1>2, <3>1, ClosedVariable
      <3>3. Undone.cells[u] = was.captured[u]
        <4>1. Undone.cells[u] = IF Restores(log[n], u) THEN Restored(log[n], u) ELSE cells[u]
          BY <1>2, <3>1
        <4>2. n = Len(log) /\ log \in Seq(Records) /\ log # <<>>
          BY DEF n, TravelInv, RecordsInv
        <4>3. PICK p \in Nat : n = p + 1 /\ OneMore(SubSeq(log, 1, n - 1), log[n], log, p)
          BY <1>1, <4>2, Newest
        <4>4. QED
          BY <3>2, <4>1, <4>3, CellLast
      <3>4. QED
        BY <3>2, <3>3
    <2>4. QED
      BY <2>2, <2>3
  <1>6. CapturedRestored(Undone, was, Upvalues \ (was.open \ open))
    BY <1>5 DEF CapturedRestored
  <1>7. QED
    BY <1>2, <1>4, <1>6

LEMMA InvIsRooted == ASSUME TravelInv PROVE PastIsRooted
  <1> SUFFICES ASSUME NEW i \in 1 .. Len(past)
               PROVE  ClosuresOf(ValuesIn(past[i].stack) \cup ValuesIn(past[i].table)
                                 \cup ValuesIn(past[i].captured)
                                 \cup {past[i].frames[j].closure : j \in DOMAIN past[i].frames})
                        \subseteq Alive
    BY DEF PastIsRooted
  <1>1. i \in 1 .. Len(log) /\ past[i] \in Pasts /\ Matches(log[i], past[i])
    BY DEF TravelInv, RecordsInv
  <1>2. PICK M : UsedThen(past[i], M, upvalue)
    BY <1>1 DEF TravelInv, UsedInv
  <1>3. M \subseteq Alive
    BY <1>1, <1>2, UsedIsAlive
  <1>4. RootsThen(past[i]) \subseteq Alive
    BY <1>2, <1>3 DEF UsedThen
  <1>5. ASSUME NEW u \in DOMAIN past[i].captured, past[i].captured[u] \in Closures
        PROVE  past[i].captured[u] \in Alive
    <2>1. CASE u \in past[i].open
      <3>1. past[i].captured[u] \in ValuesIn(past[i].stack)
        BY <1>1, <2>1 DEF TravelInv, ReplayInv, ComesBack, VariableComesBack
      <3>2. QED
        BY <1>4, <1>5, <3>1 DEF RootsThen, ClosuresOf
    <2>2. CASE u \notin past[i].open
      <3>1. PICK c \in M : upvalue[c] = u
        BY <1>2 DEF UsedThen
      <3>2. u \in ClosedIn(past[i])
        BY <2>2 DEF ClosedIn
      <3>3. QED
        BY <1>2, <1>3, <1>5, <3>1, <3>2 DEF UsedThen, TracedThen
    <2>3. QED
      BY <2>1, <2>2
  <1>6. QED
    BY <1>4, <1>5 DEF RootsThen, ClosuresOf, ValuesIn

-----------------------------------------------------------------------------
(* What an instruction leaves as it was, and so its record need not hold:  *)
(* all but the saved slots, the cell, the key and the instruction pointer. *)
Remembered == {j \in 1 .. FramesMax : j <= frameCount \/ \E i \in 1 .. Len(log) : j <= log[i].frameCount}

Overwrites(cell, key) ==
  /\ Log(cell, key)
  /\ cell \in Upvalues => cell \in OwnUpvalues /\ location[cell] = cell
  /\ \A c \in Slots : c # cell /\ c <= top - Len(Saved) => cells'[c] = cells[c]
  /\ \A u \in HeldBy(Alive) \ open : u # cell => cells'[u] = cells[u]
  /\ Running' => top' >= top - Len(Saved)
  /\ \A k \in Keys : k # key => table'[k] = table[k]
  /\ \A j \in Remembered : /\ frames'[j].closure = frames[j].closure
                           /\ frames'[j].slots = frames[j].slots
                           /\ j # frameCount => frames'[j].ip = frames[j].ip
  /\ \A u \in HeldBy(Alive) : /\ u \in open' => u \in open /\ location'[u] = location[u]
                              /\ location[u] = u => location'[u] = u
  /\ \A c \in Alive : upvalue'[c] = upvalue[c]

(* What an instruction calls, stores or leaves under the saved slots was   *)
(* on the stack.                                                           *)
OnStackNow == {cells[j] : j \in 1 .. top}

Moves ==
  /\ \A c \in 1 .. top' : c <= top' - SavedMax => cells'[c] \in OnStackNow
  /\ \A j \in 1 .. frameCount' :
       frames'[j].closure \in OnStackNow \cup {frames[l].closure : l \in 1 .. frameCount}
  /\ \A k \in Keys : table'[k] \in OnStackNow \cup {table[k]}

LEMMA InUseIsAlive == Marked(InUse) \subseteq Alive /\ Alive \subseteq Closures
  <1>1. ClosuresOf(InUse) \subseteq ClosuresOf(Roots)
    BY DEF Roots, ClosuresOf
  <1>2. ClosuresOf(Roots) \subseteq Alive /\ Traced(Alive) /\ Alive \subseteq Closures
    BY MarkedIs DEF Alive
  <1>3. QED
    BY <1>1, <1>2, MarkedIs

(* The upvalues a view in the log shows are held by what is alive. *)
LEMMA CapturedIsAlive ==
  ASSUME TravelInv, NEW i \in 1 .. Len(log)
  PROVE  DOMAIN past[i].captured \subseteq HeldBy(Alive)
  <1>1. PICK M : UsedThen(past[i], M, upvalue)
    BY DEF TravelInv, UsedInv
  <1>2. M \subseteq Alive
    BY <1>1, UsedIsAlive
  <1>3. \A u \in DOMAIN past[i].captured : u \in Upvalues /\ \E c \in Alive : upvalue[c] = u
    <2>1. past[i] \in Pasts
      BY DEF TravelInv, RecordsInv
    <2>2. DOMAIN past[i].captured \subseteq Upvalues
      BY <2>1 DEF Pasts
    <2>3. QED
      BY <1>1, <1>2, <2>2 DEF UsedThen
  <1>4. Null \notin Upvalues
    BY AddressAssumption DEF Cells
  <1>5. QED
    BY <1>3, <1>4 DEF HeldBy

LEMMA UsedStays ==
  ASSUME NEW was, NEW M, NEW of, NEW later, UsedThen(was, M, of), \A c \in M : later[c] = of[c]
  PROVE  UsedThen(was, M, later)
  <1>1. \A T \in SUBSET M : TracedThen(was, T, later) <=> TracedThen(was, T, of)
    BY DEF TracedThen
  <1>2. QED
    BY <1>1 DEF UsedThen

LEMMA RecordsForward ==
  ASSUME TravelInv, NEW cell \in Cells \cup {Null}, NEW key \in Keys \cup {Null},
         Overwrites(cell, key)
  PROVE  RecordsInv'
  <1>1. /\ MachineInv /\ RecordsInv /\ Log(cell, key) /\ Running
        /\ past' = Append(past, View)
    BY DEF TravelInv, Overwrites, Log
  <1>2. /\ Len(log) \in Nat /\ Len(log') = Len(log) + 1 /\ Len(past') = Len(log')
        /\ \A i \in 1 .. Len(log) : log'[i] = log[i] /\ past'[i] = past[i]
        /\ log'[Len(log) + 1] = NewRecord(cell, key) /\ past'[Len(log) + 1] = View
        /\ log' \in Seq(Records)
    BY <1>1, Logged
  <1>3. past' \in Seq(Pasts)
    BY <1>1, ViewIs DEF RecordsInv
  <1>4. Matches(NewRecord(cell, key), View)
    <2> DEFINE rec == NewRecord(cell, key)
    <2>1. rec.stackHeight = top /\ rec.frameCount = frameCount /\ rec.saved = Saved /\ rec.slotTarget = cell
      BY DEF NewRecord
    <2>2. /\ Len(Saved) = IF top < SavedMax THEN top ELSE SavedMax
          /\ \A j \in 1 .. Len(Saved) : Saved[j] = cells[top - Len(Saved) + j]
          /\ top \in 1 .. StackMax
      BY <1>1, SavedIs, OwnedIs DEF Slots
    <2>3. \A j \in 1 .. Len(Saved) : Saved[j] = View.stack[top - Len(Saved) + j]
      <3> SUFFICES ASSUME NEW j \in 1 .. Len(Saved) PROVE Saved[j] = View.stack[top - Len(Saved) + j]
        OBVIOUS
      <3>1. top - Len(Saved) + j \in 1 .. top
        BY <2>2, BoundsAssumption DEF SavedMax
      <3>2. QED
        BY <1>1, <2>2, <3>1, ViewIs
    <2>4. Nested(View.frames, frameCount, top)
      BY <1>1, ViewIs DEF MachineInv, Nested
    <2>5. cell \in Upvalues => cell \in ClosedIn(View)
      <3> SUFFICES ASSUME cell \in Upvalues PROVE cell \in ClosedIn(View)
        OBVIOUS
      <3>1. cell = upvalue[Frame.closure] /\ cell # Null /\ location[cell] = cell
        BY <1>1 DEF Overwrites, OwnUpvalues
      <3>2. Frame.closure \in ClosuresOf(InUse)
        BY <1>1, OwnedIs DEF FrameRecords, Frame, InUse, ClosuresOf
      <3>3. Frame.closure \in Marked(InUse)
        BY <3>2, MarkedIs
      <3>4. QED
        BY <1>1, <3>1, <3>3, ViewIs DEF HeldBy
    <2>6. Len(View.stack) = top /\ Len(View.frames) = frameCount /\ View.open \subseteq DOMAIN View.captured
      BY <1>1, ViewIs
    <2> HIDE DEF rec
    <2>7. QED
      BY <2>1, <2>2, <2>3, <2>4, <2>5, <2>6 DEF Matches, Base, rec
  <1>5. \A i \in 1 .. Len(log') : Matches(log'[i], past'[i])
    <2> SUFFICES ASSUME NEW i \in 1 .. Len(log') PROVE Matches(log'[i], past'[i])
      OBVIOUS
    <2>1. CASE i = Len(log) + 1
      BY <1>2, <1>4, <2>1
    <2>2. CASE i # Len(log) + 1
      <3>1. i \in 1 .. Len(log)
        BY <1>2, <2>2
      <3>2. QED
        BY <1>1, <1>2, <3>1 DEF RecordsInv
    <2>3. QED
      BY <2>1, <2>2
  <1>6. QED
    BY <1>2, <1>3, <1>5 DEF RecordsInv

LEMMA ReplayForward ==
  ASSUME TravelInv, NEW cell \in Cells \cup {Null}, NEW key \in Keys \cup {Null},
         Overwrites(cell, key), top' \in Nat
  PROVE  ReplayInv'
  <1>0. PICK n \in Nat : n = Len(log)
    BY DEF TravelInv, RecordsInv
  <1> DEFINE rec == NewRecord(cell, key)
  <1>1. /\ MachineInv /\ RecordsInv /\ Log(cell, key) /\ Running
    BY DEF TravelInv, Overwrites, Log
  <1>2. /\ n \in Nat /\ Len(log') = n + 1
        /\ \A i \in 1 .. n : log'[i] = log[i] /\ past'[i] = past[i]
        /\ log'[n + 1] = rec /\ past'[n + 1] = View
    BY <1>0, <1>1, Logged
  <1>3. /\ rec.stackHeight = top /\ rec.frameCount = frameCount /\ rec.ip = Frame.ip
        /\ rec.tableKey = key /\ (key \in Keys => rec.tableOld = table[key])
        /\ rec.slotTarget = cell /\ (cell \in Cells => rec.slotOld = cells[cell])
        /\ rec.saved = Saved
    BY AddressAssumption DEF NewRecord
  <1>4. /\ Len(Saved) \in 0 .. top /\ top \in 1 .. StackMax /\ Height = top
        /\ \A j \in 1 .. Len(Saved) : Saved[j] = cells[top - Len(Saved) + j]
    <2>1. top \in 1 .. StackMax
      BY <1>1, OwnedIs DEF Slots
    <2>2. Len(Saved) = (IF top < SavedMax THEN top ELSE SavedMax)
      BY <1>1, SavedIs
    <2>3. Len(Saved) \in 0 .. top
      BY <2>1, <2>2, BoundsAssumption DEF SavedMax
    <2>4. QED
      BY <1>1, <2>1, <2>3, SavedIs DEF Height
  <1> HIDE DEF rec
  <1>5. OneMore(log, rec, log', n)
    BY <1>0, <1>2 DEF OneMore
  (* Forward *)
  <1>6. ASSUME NEW i \in 1 .. n + 1, NEW c \in Cells, NEW v, CellComesBack(log, cells, top, i, c, v),
               c \in Slots \/ c \in HeldBy(Alive) \ open
        PROVE  CellComesBack(log', cells', Height', i, c, v)
    <2>1. Restores(rec, c) => Restored(rec, c) = cells[c]
      <3>1. CASE c \in Slots /\ c \in Base(rec) + 1 .. rec.stackHeight
        <4>1. c - (top - Len(Saved)) \in 1 .. Len(Saved) /\ top - Len(Saved) + (c - (top - Len(Saved))) = c
          BY <1>3, <1>4, <3>1 DEF Base, Slots
        <4>2. QED
          BY <1>3, <1>4, <3>1, <4>1 DEF Restored, Base
      <3>2. CASE ~(c \in Slots /\ c \in Base(rec) + 1 .. rec.stackHeight)
        BY <1>3, <3>2 DEF Restores, Restored
      <3>3. QED
        BY <3>1, <3>2
    <2>2. ASSUME ~Restores(rec, c), OnStack(c, top)
          PROVE  cells'[c] = cells[c] /\ OnStack(c, Height')
      <3>1. CASE c \in Slots
        <4>1. c # cell /\ c \in 1 .. StackMax /\ c <= top - Len(Saved)
          BY <1>3, <1>4, <2>2, <3>1 DEF Restores, OnStack, Base, Slots
        <4>2. cells'[c] = cells[c] /\ (Running' => top' >= top - Len(Saved))
          BY <3>1, <4>1 DEF Overwrites
        <4>3. Running' => c <= top'
          BY <1>4, <4>1, <4>2, BoundsAssumption
        <4>4. QED
          BY <4>1, <4>2, <4>3 DEF OnStack, Height
      <3>2. CASE c \notin Slots
        <4>1. c # cell /\ c \in HeldBy(Alive) \ open
          BY <1>3, <1>6, <2>2, <3>2 DEF Restores
        <4>2. QED
          BY <3>2, <4>1 DEF Overwrites, OnStack
      <3>3. QED
        BY <3>1, <3>2
    <2>3. QED
      BY <1>3, <1>6, <1>5, <2>1, <2>2, CellForward
  <1>7. ASSUME NEW i \in 1 .. n + 1, NEW k \in Keys, NEW v, KeyComesBack(log, table, i, k, v)
        PROVE  KeyComesBack(log', table', i, k, v)
    <2>1. IF rec.tableKey = k THEN rec.tableOld = table[k] ELSE table'[k] = table[k]
      BY <1>3 DEF Overwrites
    <2>2. QED
      BY <1>7, <1>5, <2>1, KeyForward
  <1>8. ASSUME NEW i \in 1 .. n + 1, NEW j \in Remembered, NEW f, FrameComesBack(log, frames, i, j, f)
        PROVE  FrameComesBack(log', frames', i, j, f)
    <2>1. /\ frames'[j].closure = frames[j].closure /\ frames'[j].slots = frames[j].slots
          /\ IF rec.frameCount = j THEN rec.ip = frames[j].ip ELSE frames'[j].ip = frames[j].ip
      BY <1>3 DEF Overwrites, Frame
    <2>2. QED
      BY <1>8, <1>5, <2>1, FrameForward
  (* What came back still does *)
  <1>9. ASSUME NEW i \in 1 .. n PROVE ComesBack(i)'
    <2>1. /\ ComesBack(i) /\ log'[i] = log[i] /\ past'[i] = past[i] /\ i \in 1 .. n + 1
          /\ log[i] \in Records /\ i \in 1 .. Len(log)
      BY <1>0, <1>1, <1>2 DEF TravelInv, ReplayInv, RecordsInv
    <2>2. log[i].stackHeight \in 1 .. StackMax /\ log[i].frameCount \in 1 .. FramesMax
      BY <2>1 DEF Records, Slots
    <2>3. ASSUME NEW c \in 1 .. log[i].stackHeight
          PROVE  CellComesBack(log', cells', Height', i, c, past[i].stack[c])
      <3>1. c \in Slots /\ c \in Cells
        BY <2>2, BoundsAssumption DEF Slots, Cells
      <3>2. QED
        BY <1>4, <1>6, <2>1, <3>1 DEF ComesBack
    <2>4. ASSUME NEW j \in 1 .. log[i].frameCount
          PROVE  FrameComesBack(log', frames', i, j, past[i].frames[j])
      <3>1. j \in Remembered
        BY <2>1, <2>2, BoundsAssumption DEF Remembered
      <3>2. QED
        BY <1>8, <2>1, <3>1 DEF ComesBack
    <2>5. ASSUME NEW k \in Keys PROVE KeyComesBack(log', table', i, k, past[i].table[k])
      BY <1>7, <2>1 DEF ComesBack
    <2>6. ASSUME NEW u \in DOMAIN past[i].captured PROVE VariableComesBack(i, u)'
      <3>1. VariableComesBack(i, u) /\ u \in HeldBy(Alive)
        BY <2>1, CapturedIsAlive DEF ComesBack
      <3>2. CASE u \in past[i].open
        BY <2>1, <3>1, <3>2 DEF VariableComesBack, Overwrites
      <3>3. CASE u \notin past[i].open
        <4>1. u \in ClosedIn(past[i])
          BY <3>3 DEF ClosedIn
        <4>2. u \in Cells /\ location[u] = u /\ u \notin open
              /\ CellComesBack(log, cells, top, i, u, past[i].captured[u])
          BY <1>4, <2>1, <4>1, ClosedVariable DEF Cells
        <4>3. CellComesBack(log', cells', Height', i, u, past[i].captured[u])
          BY <1>6, <2>1, <3>1, <4>2
        <4>4. location'[u] = u
          BY <3>1, <4>2 DEF Overwrites
        <4>5. QED
          BY <2>1, <3>3, <4>3, <4>4 DEF VariableComesBack
      <3>4. QED
        BY <3>2, <3>3
    <2>7. QED
      BY <2>1, <2>3, <2>4, <2>5, <2>6 DEF ComesBack
  (* What is there now comes back *)
  <1>10. ComesBack(n + 1)'
    <2>0. Len(log) = n /\ n + 1 \in 1 .. n + 1 /\ Len(log) \in Nat
      BY <1>0, <1>2
    <2>1. ASSUME NEW c \in 1 .. top
          PROVE  CellComesBack(log', cells', Height', n + 1, c, View.stack[c])
      <3>1. c \in Slots /\ c \in Cells /\ OnStack(c, top) /\ View.stack[c] = cells[c]
        BY <1>1, <1>4, BoundsAssumption, ViewIs DEF Slots, Cells, OnStack
      <3>2. CellComesBack(log, cells, top, n + 1, c, cells[c])
        BY <2>0, <3>1, CellThere
      <3>3. QED
        BY <1>6, <2>0, <3>1, <3>2
    <2>2. ASSUME NEW j \in 1 .. frameCount
          PROVE  FrameComesBack(log', frames', n + 1, j, View.frames[j])
      <3>1. j \in Remembered /\ View.frames[j] = frames[j]
        <4>1. frameCount \in 1 .. FramesMax
          BY <1>1, OwnedIs
        <4>2. QED
          BY <1>1, <4>1, BoundsAssumption, ViewIs DEF Remembered
      <3>2. FrameComesBack(log, frames, n + 1, j, frames[j])
        BY <2>0, FrameThere
      <3>3. QED
        BY <1>8, <2>0, <3>1, <3>2
    <2>3. ASSUME NEW k \in Keys PROVE KeyComesBack(log', table', n + 1, k, View.table[k])
      <3>1. View.table = table /\ KeyComesBack(log, table, n + 1, k, table[k])
        BY <1>1, <2>0, KeyThere, ViewIs
      <3>2. QED
        BY <1>7, <2>0, <3>1
    <2>4. ASSUME NEW u \in DOMAIN View.captured PROVE VariableComesBack(n + 1, u)'
      <3>1. u \in HeldBy(Alive)
        BY <1>1, ViewIs, InUseIsAlive DEF HeldBy
      <3>2. CASE u \in View.open
        <4>1. /\ location[u] \in 1 .. top /\ View.captured[u] = View.stack[location[u]]
              /\ Len(View.stack) = top /\ View \in Pasts
          BY <1>1, <3>2, ViewIs
        <4>2. location[u] \in DOMAIN View.stack
          BY <4>1 DEF Pasts
        <4>3. View.captured[u] \in ValuesIn(View.stack)
          BY <4>1, <4>2 DEF ValuesIn
        <4>4. u \in open' => location'[u] = location[u]
          BY <3>1 DEF Overwrites
        <4>5. QED
          BY <1>2, <1>3, <1>4, <3>2, <4>1, <4>3, <4>4 DEF VariableComesBack
      <3>3. CASE u \notin View.open
        <4>1. u \in ClosedIn(View)
          BY <3>3 DEF ClosedIn
        <4>2. u \in Upvalues /\ location[u] = u /\ View.captured[u] = cells[u]
          BY <1>1, <4>1, ViewIs DEF Pasts
        <4>3. u \in Cells /\ u \notin Slots /\ u \notin open /\ OnStack(u, top)
          BY <1>1, <4>2, AddressAssumption DEF MachineInv, Cells, OnStack
        <4>4. CellComesBack(log, cells, top, n + 1, u, cells[u])
          BY <2>0, <4>3, CellThere
        <4>5. CellComesBack(log', cells', Height', n + 1, u, cells[u])
          BY <1>6, <2>0, <3>1, <4>3, <4>4
        <4>6. location'[u] = u
          BY <3>1, <4>2 DEF Overwrites
        <4>7. QED
          BY <1>2, <3>3, <4>2, <4>5, <4>6 DEF VariableComesBack
      <3>4. QED
        BY <3>2, <3>3
    <2>5. QED
      BY <1>2, <1>3, <2>1, <2>2, <2>3, <2>4 DEF ComesBack
  <1>11. ASSUME NEW i \in 1 .. Len(log') PROVE ComesBack(i)'
    BY <1>2, <1>9, <1>10
  <1>12. QED
    BY <1>11 DEF ReplayInv

LEMMA StoredForward ==
  ASSUME TravelInv, NEW cell \in Cells \cup {Null}, NEW key \in Keys \cup {Null},
         Overwrites(cell, key), Moves
  PROVE  StoredInv'
  <1>0. PICK n \in Nat : n = Len(log)
    BY DEF TravelInv, RecordsInv
  <1> DEFINE rec == NewRecord(cell, key)
             saved == SavedBy(log, n)
             later == SavedBy(log', n + 1)
  <1>1. /\ MachineInv /\ RecordsInv /\ StoredInv /\ Log(cell, key) /\ Running
    BY DEF TravelInv, Overwrites, Log
  <1>2. /\ Len(log') = n + 1
        /\ \A i \in 1 .. n : log'[i] = log[i] /\ past'[i] = past[i]
        /\ log'[n + 1] = rec /\ past'[n + 1] = View
    BY <1>0, <1>1, Logged
  <1>3. rec.stackHeight = top /\ rec.frameCount = frameCount /\ rec.saved = Saved
    BY DEF NewRecord
  <1> HIDE DEF rec
  <1>4. \A m \in 0 .. n : SavedBy(log', m) = SavedBy(log, m)
    BY <1>2 DEF SavedBy
  <1>5. later = saved \cup ValuesIn(Saved)
    <2>1. \A m \in 1 .. n : m \in 1 .. n + 1 /\ log'[m].saved = log[m].saved
      BY <1>2
    <2>2. n + 1 \in 1 .. n + 1 /\ log'[n + 1].saved = Saved /\ \A m \in 1 .. n + 1 : m \in 1 .. n \/ m = n + 1
      BY <1>2, <1>3
    <2>3. QED
      BY <2>1, <2>2 DEF SavedBy
  <1>6. Stored(cells, top, frames, frameCount, table, saved)
    BY <1>0, <1>1 DEF StoredInv
  <1> HIDE DEF saved, later
  <1>7. \A j \in 1 .. top : cells[j] \in later
    <2> SUFFICES ASSUME NEW j \in 1 .. top PROVE cells[j] \in later
      OBVIOUS
    <2>1. CASE j <= top - SavedMax
      BY <1>5, <1>6, <2>1 DEF Stored
    <2>2. CASE ~(j <= top - SavedMax)
      <3>1. /\ Len(Saved) = IF top < SavedMax THEN top ELSE SavedMax
            /\ Saved \in Seq(Values) /\ top \in 1 .. StackMax
            /\ \A x \in 1 .. Len(Saved) : Saved[x] = cells[top - Len(Saved) + x]
        BY <1>1, SavedIs, OwnedIs DEF Slots
      <3>2. j - (top - Len(Saved)) \in 1 .. Len(Saved) /\ top - Len(Saved) + (j - (top - Len(Saved))) = j
        BY <2>2, <3>1, BoundsAssumption DEF SavedMax
      <3>3. PICK x \in 1 .. Len(Saved) : top - Len(Saved) + x = j
        BY <3>2
      <3>4. cells[j] = Saved[x] /\ x \in DOMAIN Saved
        BY <3>1, <3>3
      <3>5. QED
        BY <1>5, <3>4 DEF ValuesIn
    <2>3. QED
      BY <2>1, <2>2
  <1>8. OnStackNow \subseteq later
    BY <1>7 DEF OnStackNow
  <1>9. Stored(cells', top', frames', frameCount', table', later)
    <2>1. \A j \in 1 .. top' : j <= top' - SavedMax => cells'[j] \in later
      BY <1>8 DEF Moves
    <2>2. \A j \in 1 .. frameCount : frames[j].closure \in later \cup {Script}
      BY <1>5, <1>6 DEF Stored
    <2>3. \A j \in 1 .. frameCount' : frames'[j].closure \in later \cup {Script}
      BY <1>8, <2>2 DEF Moves
    <2>4. \A k \in Keys : table[k] \in later \cup {Absent}
      BY <1>5, <1>6 DEF Stored
    <2>5. \A k \in Keys : table'[k] \in later \cup {Absent}
      BY <1>8, <2>4 DEF Moves
    <2>6. QED
      BY <2>1, <2>3, <2>5 DEF Stored
  <1>10. Stored(cells', top', frames', frameCount', table', SavedBy(log', Len(log')))
    BY <1>2, <1>9 DEF later
  <1>11. ASSUME NEW i \in 1 .. Len(log')
         PROVE  Stored(past'[i].stack, log'[i].stackHeight, past'[i].frames, log'[i].frameCount,
                       past'[i].table, SavedBy(log', i - 1))
    <2>1. CASE i = n + 1
      <3>1. Stored(View.stack, top, View.frames, frameCount, View.table, saved)
        BY <1>1, <1>6, ViewIs DEF Stored
      <3>2. SavedBy(log', i - 1) = saved
        <4>1. i - 1 = n /\ n \in 0 .. n
          BY <2>1
        <4>2. QED
          BY <1>4, <4>1 DEF saved
      <3>3. QED
        BY <1>2, <1>3, <2>1, <3>1, <3>2
    <2>2. CASE i # n + 1
      <3>1. i \in 1 .. n /\ i - 1 \in 0 .. n
        BY <1>2, <2>2
      <3>2. QED
        BY <1>0, <1>1, <1>2, <1>4, <3>1 DEF StoredInv
    <2>3. QED
      BY <2>1, <2>2
  <1>12. log' # <<>> /\ log'[1].stackHeight = 1 /\ past'[1].stack[1] = Script
    <2>1. log' # <<>>
      BY <1>2
    <2>2. CASE log = <<>>
      <3>1. n + 1 = 1 /\ top = 1 /\ cells[1] = Script
        BY <1>0, <1>1, <2>2 DEF StoredInv
      <3>2. View.stack[1] = cells[1]
        BY <1>1, <3>1, ViewIs
      <3>3. QED
        BY <1>2, <1>3, <2>1, <3>1, <3>2
    <2>3. CASE log # <<>>
      <3>1. 1 \in 1 .. n
        BY <1>0, <1>1, <2>3 DEF RecordsInv
      <3>2. QED
        BY <1>1, <1>2, <2>1, <2>3, <3>1 DEF StoredInv
    <2>4. QED
      BY <2>2, <2>3
  <1>13. QED
    BY <1>10, <1>11, <1>12 DEF StoredInv

LEMMA UsedForward ==
  ASSUME TravelInv, NEW cell \in Cells \cup {Null}, NEW key \in Keys \cup {Null},
         Overwrites(cell, key)
  PROVE  UsedInv'
  <1>0. PICK n \in Nat : n = Len(log)
    BY DEF TravelInv, RecordsInv
  <1>1. MachineInv /\ RecordsInv /\ UsedInv /\ Log(cell, key)
    BY DEF TravelInv, Overwrites
  <1>2. /\ Len(log') = n + 1 /\ \A i \in 1 .. n : past'[i] = past[i] /\ i \in 1 .. Len(log)
        /\ past'[n + 1] = View
    BY <1>0, <1>1, Logged
  <1>3. ASSUME NEW i \in 1 .. n PROVE \E M \in SUBSET Closures : UsedThen(past'[i], M, upvalue')
    <2>1. PICK M \in SUBSET Closures : UsedThen(past[i], M, upvalue)
      BY <1>1, <1>2 DEF UsedInv
    <2>2. \A c \in M : upvalue'[c] = upvalue[c]
      BY <1>2, <2>1, UsedIsAlive DEF Overwrites
    <2>3. QED
      BY <1>2, <2>1, <2>2, UsedStays
  <1>4. \E M \in SUBSET Closures : UsedThen(View, M, upvalue')
    <2>1. UsedThen(View, Marked(InUse), upvalue)
      BY <1>1, ViewUsed
    <2>2. \A c \in Marked(InUse) : upvalue'[c] = upvalue[c]
      BY InUseIsAlive DEF Overwrites
    <2>3. UsedThen(View, Marked(InUse), upvalue')
      BY <2>1, <2>2, UsedStays
    <2>4. QED
      BY <2>3, MarkedIs
  <1>5. ASSUME NEW i \in 1 .. Len(log') PROVE \E M \in SUBSET Closures : UsedThen(past'[i], M, upvalue')
    BY <1>2, <1>3, <1>4
  <1>6. QED
    BY <1>5 DEF UsedInv

LEMMA Forward ==
  ASSUME TravelInv, NEW cell \in Cells \cup {Null}, NEW key \in Keys \cup {Null},
         Overwrites(cell, key), Moves, MachineInv'
  PROVE  TravelInv'
  <1>1. top' \in Nat
    BY BoundsAssumption DEF MachineInv, TravelTypeOK
  <1>2. QED
    BY <1>1, RecordsForward, StoredForward, ReplayForward, UsedForward DEF TravelInv

-----------------------------------------------------------------------------
LEMMA InitInv == TravelInit => TravelInv
  <1> SUFFICES ASSUME TravelInit PROVE TravelInv
    OBVIOUS
  <1> USE DEF TravelInit
  <1>1. /\ Script \in Values /\ Nil \in Values /\ Null \notin Closures /\ 1 \in Cells /\ 1 \in Slots
        /\ 1 \in 1 .. FramesMax /\ 1 \in 1 .. CodeMax /\ 1 \in 1 .. StackMax
    BY ScriptAssumption, AddressAssumption, BoundsAssumption DEF Values, Cells, Slots
  <1>2. frames[1] = [closure |-> Script, ip |-> 1, slots |-> 1]
    BY <1>1
  <1>3. TravelTypeOK
    <2>1. cells \in [Cells -> Values]
      BY <1>1
    <2>2. frames \in [1 .. FramesMax -> [closure : Closures \cup {Null}, ip : 0 .. CodeMax, slots : 0 .. StackMax]]
      BY ScriptAssumption, <1>1, BoundsAssumption
    <2>3. location \in [Upvalues -> Cells] /\ \A u \in Upvalues : location[u] \in Upvalues => location[u] = u
      BY DEF Cells
    <2>4. \A i \in 1 .. frameCount : frames[i].closure # Null /\ frames[i].slots \in 1 .. top
      <3> SUFFICES ASSUME NEW i \in 1 .. frameCount
                   PROVE  frames[i].closure # Null /\ frames[i].slots \in 1 .. top
        OBVIOUS
      <3>1. i = 1
        OBVIOUS
      <3>2. QED
        BY ScriptAssumption, <1>1, <1>2, <3>1
    <2>5. QED
      BY <2>1, <2>2, <2>3, <2>4, BoundsAssumption DEF TravelTypeOK
  <1>4. Nested(frames, frameCount, top)
    <2>1. \A j \in 1 .. frameCount : j = 1
      OBVIOUS
    <2>2. frames[1] \in FrameRecords /\ frames[1].slots <= top
      BY ScriptAssumption, <1>1, <1>2, BoundsAssumption DEF FrameRecords
    <2>3. QED
      BY <2>1, <2>2 DEF Nested
  <1>5. MachineInv
    BY <1>3, <1>4 DEF MachineInv
  <1>6. RecordsInv
    BY DEF RecordsInv
  <1>7. StoredInv
    <2>1. Stored(cells, top, frames, frameCount, table, SavedBy(log, Len(log)))
      <3>1. \A j \in 1 .. top : ~(j <= top - SavedMax)
        BY DEF SavedMax
      <3>2. \A j \in 1 .. frameCount : frames[j].closure = Script
        BY <1>2
      <3>3. QED
        BY <3>1, <3>2 DEF Stored
    <2>2. cells[1] = Script
      BY <1>1
    <2>3. QED
      BY <2>1, <2>2 DEF StoredInv
  <1>8. ReplayInv /\ UsedInv
    BY DEF ReplayInv, UsedInv
  <1>9. QED
    BY <1>5, <1>6, <1>7, <1>8 DEF TravelInv

-----------------------------------------------------------------------------
FrameTypes == [1 .. FramesMax -> [closure : Closures \cup {Null}, ip : 0 .. CodeMax, slots : 0 .. StackMax]]

LEMMA MachineNext ==
  ASSUME cells' \in [Cells -> Values], top' \in 0 .. StackMax, frames' \in FrameTypes,
         frameCount' \in 0 .. FramesMax, Nested(frames', frameCount', top'),
         location' \in [Upvalues -> Cells], open' \subseteq Upvalues,
         \A u \in open' : location'[u] \in Slots,
         \A u \in Upvalues : location'[u] # u => location'[u] \in Slots /\ cells'[u] = Nil,
         upvalue' \in [Closures -> Upvalues \cup {Null}],
         table' \in [Keys -> Values \cup {Absent}]
  PROVE  MachineInv'
  <1>1. ASSUME NEW i \in 1 .. frameCount'
        PROVE  frames'[i].closure # Null /\ frames'[i].slots \in 1 .. top'
    <2>1. frames'[i] \in FrameRecords /\ frames'[i].slots <= top'
      BY DEF Nested
    <2>2. frames'[i].closure \in Closures /\ frames'[i].slots \in 1 .. StackMax
      BY <2>1 DEF FrameRecords, Slots
    <2>3. QED
      BY <2>1, <2>2, AddressAssumption, BoundsAssumption
  <1>2. \A u \in Upvalues : location'[u] \in Upvalues => location'[u] = u
    BY AddressAssumption
  <1>3. TravelTypeOK'
    BY <1>1, <1>2 DEF TravelTypeOK, FrameTypes
  <1>4. QED
    BY <1>3 DEF MachineInv

(* The same of the state before *)
LEMMA MachineIs ==
  ASSUME MachineInv
  PROVE  /\ cells \in [Cells -> Values] /\ top \in 0 .. StackMax /\ frames \in FrameTypes
         /\ frameCount \in 0 .. FramesMax
         /\ location \in [Upvalues -> Cells] /\ open \subseteq Upvalues
         /\ \A u \in open : location[u] \in Slots
         /\ \A u \in Upvalues : location[u] # u => location[u] \in Slots /\ cells[u] = Nil
         /\ upvalue \in [Closures -> Upvalues \cup {Null}]
         /\ table \in [Keys -> Values \cup {Absent}]
         /\ HeldBy(Alive) \subseteq Upvalues /\ \A u \in Upvalues : u \in Cells /\ u \notin Slots /\ u # Null
  <1>1. \A u \in Upvalues : u \in Cells /\ u \notin Slots /\ u # Null
    BY AddressAssumption DEF Cells
  <1>2. \A u \in Upvalues : location[u] # u => location[u] \in Slots
    BY DEF MachineInv, TravelTypeOK, Cells
  <1>3. HeldBy(Alive) \subseteq Upvalues
    BY InUseIsAlive DEF HeldBy, MachineInv, TravelTypeOK
  <1>4. QED
    BY <1>1, <1>2, <1>3 DEF MachineInv, TravelTypeOK, FrameTypes

LEMMA FramesTyped ==
  ASSUME NEW fs \in FrameTypes, NEW j \in 1 .. FramesMax, NEW ip \in 0 .. CodeMax
  PROVE  [fs EXCEPT ![j].ip = ip] \in FrameTypes
  BY DEF FrameTypes

LEMMA NestedSame ==
  ASSUME NEW fs, NEW gs, NEW n, NEW h, Nested(gs, n, h), \A j \in 1 .. n : fs[j] = gs[j]
  PROVE  Nested(fs, n, h)
  BY DEF Nested


(* A step back leaves a state in which the remaining log undoes the rest.  *)
LEMMA Back == ASSUME TravelInv, StepBack PROVE TravelInv'
  <1>0. PICK n \in Nat : n = Len(log)
    BY DEF TravelInv, RecordsInv
  <1>1. /\ cells' = Undone.cells /\ top' = Undone.top /\ table' = Undone.table
        /\ frames' = Undone.frames /\ frameCount' = Undone.frameCount
        /\ log' = SubSeq(log, 1, n - 1) /\ past' = SubSeq(past, 1, n - 1)
        /\ location' = location /\ open' = open /\ upvalue' = upvalue /\ log # <<>>
    BY <1>0 DEF StepBack, closureVars, TravelInv, RecordsInv
  <1>2. /\ n \in 1 .. Len(log)
        /\ top' = log[n].stackHeight /\ frameCount' = log[n].frameCount
        /\ cells' \in [Cells -> Values]
        /\ \A c \in Cells : cells'[c] = IF Restores(log[n], c) THEN Restored(log[n], c) ELSE cells[c]
        /\ \A c \in 1 .. log[n].stackHeight : cells'[c] = past[n].stack[c]
        /\ frames' = [frames EXCEPT ![log[n].frameCount].ip = log[n].ip]
        /\ \A j \in 1 .. log[n].frameCount : frames'[j] = past[n].frames[j]
        /\ table' = past[n].table
        /\ \A k \in Keys : table'[k] = IF log[n].tableKey = k THEN log[n].tableOld ELSE table[k]
    BY <1>0, <1>1, UndoneIs
  <1>3. /\ log[n] \in Records /\ past[n] \in Pasts /\ Matches(log[n], past[n])
        /\ log \in Seq(Records) /\ past \in Seq(Pasts) /\ Len(past) = n
    BY <1>0, <1>2 DEF TravelInv, RecordsInv
  <1>4. /\ log[n].stackHeight \in 1 .. StackMax /\ log[n].frameCount \in 1 .. FramesMax
        /\ log[n].ip \in 0 .. CodeMax /\ log[n].slotTarget \in Cells \cup {Null}
    BY <1>3 DEF Records, Slots
  <1>5. /\ log' \in Seq(Records) /\ past' \in Seq(Pasts) /\ Len(log') = n - 1 /\ Len(past') = n - 1
        /\ n - 1 \in Nat /\ n = n - 1 + 1
        /\ \A i \in 1 .. n - 1 : log'[i] = log[i] /\ past'[i] = past[i] /\ i \in 1 .. Len(log)
    BY <1>0, <1>1, <1>2, <1>3
  <1>6. MachineInv'
    <2>1. MachineInv
      BY DEF TravelInv
    <2>2. frames' \in FrameTypes
      BY <1>2, <1>4, <2>1, FramesTyped, MachineIs
    <2>3. table' \in [Keys -> Values \cup {Absent}]
      BY <1>2, <1>3 DEF Pasts
    <2>4. Nested(frames', frameCount', top')
      <3>1. Nested(past[n].frames, log[n].frameCount, log[n].stackHeight)
        BY <1>3 DEF Matches
      <3>2. Nested(frames', log[n].frameCount, log[n].stackHeight)
        <4>1. \A j \in 1 .. log[n].frameCount : frames'[j] = past[n].frames[j]
          BY <1>2
        <4>2. QED
          BY <3>1, <4>1, NestedSame
      <3>3. top' = log[n].stackHeight /\ frameCount' = log[n].frameCount
        BY <1>2
      <3>4. QED
        BY <3>2, <3>3
    <2>5. ASSUME NEW u \in Upvalues, location[u] # u PROVE location[u] \in Slots /\ cells'[u] = Nil
      <3>1. u \notin Slots /\ u \in Cells /\ location[u] \in Slots /\ cells[u] = Nil
        BY <2>1, <2>5, MachineIs
      <3>2. u # log[n].slotTarget
        BY <1>2, <1>3, <2>5, ClosedVariable DEF Matches
      <3>3. QED
        BY <1>2, <3>1, <3>2 DEF Restores
    <2>6. top' \in 0 .. StackMax /\ frameCount' \in 0 .. FramesMax
      BY <1>2, <1>4, BoundsAssumption
    <2>7. QED
      BY <1>1, <1>2, <2>1, <2>2, <2>3, <2>4, <2>5, <2>6, MachineIs, MachineNext
  <1>7. RecordsInv'
    BY <1>5 DEF RecordsInv, TravelInv
  <1>8. StoredInv'
    <2>1. StoredInv
      BY DEF TravelInv
    <2>2. \A m \in 0 .. n - 1 : SavedBy(log', m) = SavedBy(log, m)
      BY <1>5 DEF SavedBy
    <2>3. Stored(cells', top', frames', frameCount', table', SavedBy(log', Len(log')))
      <3>1. Stored(past[n].stack, log[n].stackHeight, past[n].frames, log[n].frameCount,
                   past[n].table, SavedBy(log, n - 1))
        BY <1>2, <2>1 DEF StoredInv
      <3>2. SavedBy(log', Len(log')) = SavedBy(log, n - 1)
        BY <1>5, <2>2
      <3>3. QED
        BY <1>2, <3>1, <3>2 DEF Stored
    <2>4. ASSUME NEW i \in 1 .. Len(log')
          PROVE  Stored(past'[i].stack, log'[i].stackHeight, past'[i].frames, log'[i].frameCount,
                        past'[i].table, SavedBy(log', i - 1))
      <3>1. i \in 1 .. n - 1 /\ i - 1 \in 0 .. n - 1
        BY <1>5
      <3>2. QED
        BY <1>5, <2>1, <2>2, <3>1 DEF StoredInv
    <2>5. log[1].stackHeight = 1 /\ past[1].stack[1] = Script
      BY <1>1, <2>1 DEF StoredInv
    <2>6. CASE n = 1
      <3>1. log' = <<>>
        BY <1>5, <2>6
      <3>2. top' = 1 /\ cells'[1] = Script
        BY <1>2, <2>5, <2>6
      <3>3. QED
        BY <2>3, <2>4, <3>1, <3>2 DEF StoredInv
    <2>7. CASE n # 1
      <3>1. 1 \in 1 .. n - 1 /\ log' # <<>>
        BY <1>2, <1>5, <2>7
      <3>2. QED
        BY <1>5, <2>3, <2>4, <2>5, <3>1 DEF StoredInv
    <2>8. QED
      BY <2>6, <2>7
  <1>9. ASSUME NEW i \in 1 .. n - 1 PROVE ComesBack(i)'
    <2>1. /\ ComesBack(i) /\ log'[i] = log[i] /\ past'[i] = past[i] /\ log[i] \in Records /\ i \in 1 .. Len(log)
      BY <1>3, <1>5 DEF TravelInv, ReplayInv
    <2>2. log[i].stackHeight \in 1 .. StackMax /\ log[i].frameCount \in 1 .. FramesMax
      BY <2>1 DEF Records, Slots
    <2>3. Height' = log[n].stackHeight
      BY <1>2, <1>4, BoundsAssumption DEF Height, Running
    <2>4. PICK p \in Nat : n = p + 1 /\ OneMore(log', log[n], log, p)
      BY <1>0, <1>1, <1>3, Newest
    <2>5. i \in 1 .. p + 1
      BY <2>4
    <2>6. ASSUME NEW c \in Cells, NEW v, CellComesBack(log, cells, Height, i, c, v)
          PROVE  CellComesBack(log', cells', Height', i, c, v)
      <3>1. cells'[c] = IF Restores(log[n], c) THEN Restored(log[n], c) ELSE cells[c]
        BY <1>2
      <3>2. CellComesBack(log', cells', log[n].stackHeight, i, c, v)
        BY <2>6, <2>4, <2>5, <3>1, CellBack
      <3>3. QED
        BY <2>3, <3>2
    <2>7. ASSUME NEW c \in 1 .. log[i].stackHeight
          PROVE  CellComesBack(log', cells', Height', i, c, past[i].stack[c])
      <3>1. c \in Cells
        BY <2>2, BoundsAssumption DEF Slots, Cells
      <3>2. QED
        BY <2>1, <2>6, <3>1 DEF ComesBack
    <2>8. ASSUME NEW j \in 1 .. log[i].frameCount
          PROVE  FrameComesBack(log', frames', i, j, past[i].frames[j])
      <3>1. j \in 1 .. FramesMax
        BY <2>2, BoundsAssumption
      <3>2. frames'[j] = IF j = log[n].frameCount THEN [frames[j] EXCEPT !.ip = log[n].ip] ELSE frames[j]
        BY <1>2, <1>4, <3>1 DEF TravelInv, MachineInv, TravelTypeOK
      <3>3. frames[j] \in [closure : Closures \cup {Null}, ip : 0 .. CodeMax, slots : 0 .. StackMax]
        BY <3>1 DEF TravelInv, MachineInv, TravelTypeOK
      <3>4. /\ frames'[j].closure = frames[j].closure /\ frames'[j].slots = frames[j].slots
            /\ frames'[j].ip = IF log[n].frameCount = j THEN log[n].ip ELSE frames[j].ip
        BY <3>2, <3>3
      <3>5. FrameComesBack(log, frames, i, j, past[i].frames[j])
        BY <2>1 DEF ComesBack
      <3>6. QED
        BY <2>4, <2>5, <3>4, <3>5, FrameBack
    <2>9. ASSUME NEW k \in Keys PROVE KeyComesBack(log', table', i, k, past[i].table[k])
      <3>1. table'[k] = IF log[n].tableKey = k THEN log[n].tableOld ELSE table[k]
        BY <1>2
      <3>2. KeyComesBack(log, table, i, k, past[i].table[k])
        BY <2>1 DEF ComesBack
      <3>3. QED
        BY <2>4, <2>5, <3>1, <3>2, KeyBack
    <2>10. ASSUME NEW u \in DOMAIN past[i].captured PROVE VariableComesBack(i, u)'
      <3>1. VariableComesBack(i, u)
        BY <2>1 DEF ComesBack
      <3>2. CASE u \in past[i].open
        BY <1>1, <2>1, <3>1, <3>2 DEF VariableComesBack
      <3>3. CASE u \notin past[i].open
        <4>1. u \in ClosedIn(past[i])
          BY <3>3 DEF ClosedIn
        <4>2. u \in Cells
          BY <2>1, <4>1, ClosedVariable DEF Cells
        <4>3. QED
          BY <1>1, <2>1, <2>6, <3>1, <3>3, <4>2 DEF VariableComesBack
      <3>4. QED
        BY <3>2, <3>3
    <2>11. QED
      BY <2>1, <2>7, <2>8, <2>9, <2>10 DEF ComesBack
  <1>10. ReplayInv'
    <2>1. ASSUME NEW i \in 1 .. Len(log') PROVE ComesBack(i)'
      BY <1>5, <1>9
    <2>2. QED
      BY <2>1 DEF ReplayInv
  <1>11. UsedInv'
    <2>1. ASSUME NEW i \in 1 .. Len(log') PROVE \E M \in SUBSET Closures : UsedThen(past'[i], M, upvalue')
      <3>1. i \in 1 .. n - 1
        BY <1>5
      <3>2. QED
        BY <1>1, <1>5, <3>1 DEF TravelInv, UsedInv
    <2>2. QED
      BY <2>1 DEF UsedInv
  <1>12. QED
    BY <1>6, <1>7, <1>8, <1>10, <1>11 DEF TravelInv
-----------------------------------------------------------------------------
(* The frames when the one that runs goes to another instruction *)
LEMMA FramesAt ==
  ASSUME MachineInv, Running, NEW ip \in 0 .. CodeMax,
         frames' = [frames EXCEPT ![frameCount].ip = ip], NEW height \in Nat, Frame.slots <= height
  PROVE  /\ frames' \in FrameTypes /\ Nested(frames', frameCount, height)
         /\ \A j \in 1 .. FramesMax : /\ frames'[j].closure = frames[j].closure
                                      /\ frames'[j].slots = frames[j].slots
                                      /\ j # frameCount => frames'[j].ip = frames[j].ip
  <1>1. frameCount \in 1 .. FramesMax /\ frames \in FrameTypes /\ Nested(frames, frameCount, top)
    BY OwnedIs, MachineIs DEF MachineInv
  <1>2. frames' \in FrameTypes
    BY <1>1 DEF FrameTypes
  <1>3. \A j \in 1 .. FramesMax :
          frames'[j] = IF j = frameCount THEN [frames[j] EXCEPT !.ip = ip] ELSE frames[j]
    BY <1>1 DEF FrameTypes
  <1>4. ASSUME NEW j \in 1 .. FramesMax
        PROVE  /\ frames'[j].closure = frames[j].closure /\ frames'[j].slots = frames[j].slots
               /\ j # frameCount => frames'[j].ip = frames[j].ip
    <2>1. frames[j] \in [closure : Closures \cup {Null}, ip : 0 .. CodeMax, slots : 0 .. StackMax]
      BY <1>1 DEF FrameTypes
    <2>2. QED
      BY <1>3, <2>1
  <1>5. ASSUME NEW j \in 1 .. frameCount
        PROVE  frames'[j] \in FrameRecords /\ frames'[j].slots <= height
    <2>1. j \in 1 .. FramesMax /\ frames[j] \in FrameRecords
      BY <1>1, BoundsAssumption DEF Nested
    <2>2. frames'[j] \in FrameRecords
      BY <1>3, <2>1 DEF FrameRecords
    <2>3. frames[j].slots \in 1 .. StackMax /\ Frame.slots \in 1 .. StackMax
      BY <2>1, OwnedIs, BoundsAssumption DEF FrameRecords, Slots
    <2>4. frames[j].slots <= Frame.slots
      <3>1. CASE j = frameCount
        BY <2>3, <3>1, BoundsAssumption DEF Frame
      <3>2. CASE j # frameCount
        <4>1. j < frameCount /\ frameCount \in 1 .. frameCount
          BY <1>1, <3>2, BoundsAssumption
        <4>2. frames[j].slots < Frame.slots
          BY <1>1, <4>1 DEF Nested, Frame
        <4>3. QED
          BY <2>3, <4>2, BoundsAssumption
      <3>3. QED
        BY <3>1, <3>2
    <2>5. QED
      BY <1>4, <2>1, <2>2, <2>3, <2>4, BoundsAssumption
  <1>6. ASSUME NEW j \in 1 .. frameCount, NEW l \in 1 .. frameCount, j < l
        PROVE  frames'[j].slots < frames'[l].slots
    <2>1. j \in 1 .. FramesMax /\ l \in 1 .. FramesMax
      BY <1>1, BoundsAssumption
    <2>2. QED
      BY <1>1, <1>4, <1>6, <2>1 DEF Nested
  <1>7. QED
    BY <1>2, <1>4, <1>5, <1>6 DEF Nested

(* The arithmetic of replacing n operands by m results *)
Fits(h, slots, base, later, keep) ==
  /\ base \in Nat /\ slots <= base /\ base <= h /\ later \in 1 .. StackMax
  /\ base <= later /\ h - keep <= base /\ keep \in Nat
  /\ \A c \in 1 .. later : c <= later - SavedMax => c <= base

LEMMA Heights ==
  ASSUME NEW h \in 1 .. StackMax, NEW slots \in 1 .. h, NEW n \in Nat, n <= h - slots, n <= SavedMax,
         NEW m \in 0 .. 2, h - n + m <= StackMax, NEW later, later = h - n + m,
         NEW keep, keep = IF h < SavedMax THEN h ELSE SavedMax
  PROVE  Fits(h, slots, h - n, later, keep)
  BY BoundsAssumption DEF Fits, SavedMax

(* An instruction that leaves the open list and the upvalues alone, but    *)
(* may give one to a closure that was not in use.                          *)
LEMMA ReplaceStep ==
  ASSUME TravelInv, Lossy = {}, NEW key \in Keys \cup {Null}, Log(Null, key), Advance,
         NEW n \in Nat, NEW results \in Seq(Values), Len(results) \in 0 .. 2, Replace(n, results),
         open' = open, location' = location,
         upvalue' \in [Closures -> Upvalues \cup {Null}], \A c \in Alive : upvalue'[c] = upvalue[c],
         table' \in [Keys -> Values \cup {Absent}],
         \A k \in Keys : /\ k # key => table'[k] = table[k]
                         /\ table'[k] \in OnStackNow \cup {table[k]}
  PROVE  TravelInv'
  <1> DEFINE base == top - n
  <1>1. MachineInv /\ Running
    BY DEF TravelInv, Log
  <1>2. /\ Frame.slots \in 1 .. top /\ top \in 1 .. StackMax /\ frameCount \in 1 .. FramesMax
        /\ Frame.ip \in 0 .. CodeMax /\ Cardinality(Owned) = top - Frame.slots
    BY <1>1, OwnedIs DEF Slots
  <1>3. n <= top - Frame.slots /\ n <= SavedMax /\ base + Len(results) <= StackMax
        /\ top' = base + Len(results) /\ Len(results) \in 0 .. 2
        /\ cells' = [i \in Cells |-> IF i \in Slots /\ i \in base + 1 .. top'
                                     THEN results[i - base] ELSE cells[i]]
    <2>1. /\ n <= top - Frame.slots /\ Losable(n) /\ base + Len(results) <= StackMax
          /\ top' = base + Len(results)
          /\ cells' = [i \in Cells |-> IF i \in Slots /\ i \in base + 1 .. top'
                                       THEN results[i - base] ELSE cells[i]]
      BY <1>2 DEF Replace
    <2>2. n <= SavedMax
      BY <2>1 DEF Losable
    <2>3. QED
      BY <2>1, <2>2
  <1>4. /\ Len(Saved) = IF top < SavedMax THEN top ELSE SavedMax
        /\ Len(results) \in 0 .. 2
    BY <1>1, SavedIs
  <1>5. /\ base \in Nat /\ Frame.slots <= base /\ base <= top /\ top' \in 1 .. StackMax
        /\ base <= top' /\ top - Len(Saved) <= base /\ Len(Saved) \in Nat
        /\ \A c \in 1 .. top' : c <= top' - SavedMax => c <= base
    <2>1. Fits(top, Frame.slots, top - n, top', Len(Saved))
      BY <1>2, <1>3, <1>4, Heights
    <2>2. QED
      BY <2>1 DEF Fits
  <1> HIDE DEF base
  <1>6. cells' \in [Cells -> Values]
    <2>1. ASSUME NEW i \in Cells, i \in Slots, i \in base + 1 .. top' PROVE results[i - base] \in Values
      <3>1. i - base \in 1 .. Len(results)
        BY <1>3, <1>5, <2>1 DEF Slots
      <3>2. QED
        BY <3>1
    <2>2. QED
      BY <1>1, <1>3, <2>1, MachineIs
  <1>7. \A i \in Cells : ~(i \in Slots /\ i > base) => cells'[i] = cells[i]
    BY <1>3, <1>5 DEF Slots
  <1>8. frames' = [frames EXCEPT ![frameCount].ip = Frame.ip + 1] /\ frameCount' = frameCount
        /\ Frame.ip + 1 \in 0 .. CodeMax
    <2>1. frames' = [frames EXCEPT ![frameCount].ip = Frame.ip + 1]
      BY DEF Advance, Frame
    <2>2. QED
      <3>1. Frame.ip < CodeMax /\ frameCount' = frameCount
        BY DEF Advance
      <3>2. Frame.ip + 1 \in 0 .. CodeMax
        BY <1>2, <3>1, BoundsAssumption
      <3>3. QED
        BY <2>1, <3>1, <3>2
  <1>9. /\ frames' \in FrameTypes /\ Nested(frames', frameCount', top')
        /\ \A j \in 1 .. FramesMax : /\ frames'[j].closure = frames[j].closure
                                     /\ frames'[j].slots = frames[j].slots
                                     /\ j # frameCount => frames'[j].ip = frames[j].ip
    <2>1. top' \in Nat /\ Frame.slots <= top'
      BY <1>2, <1>5, BoundsAssumption
    <2>2. QED
      BY <1>1, <1>8, <2>1, FramesAt
  <1>10. MachineInv'
    <2>1. \A u \in Upvalues : cells'[u] = cells[u]
      BY <1>1, <1>7, MachineIs
    <2>2. frameCount' \in 0 .. FramesMax /\ top' \in 0 .. StackMax
      <3>1. FramesMax \in Nat /\ StackMax \in Nat
        BY BoundsAssumption
      <3>2. frameCount' \in 0 .. FramesMax
        BY <1>2, <1>8, <3>1
      <3>3. top' \in 0 .. StackMax
        BY <1>5, <3>1
      <3>4. QED
        BY <3>2, <3>3
    <2>3. QED
      BY <1>1, <1>6, <1>9, <2>1, <2>2, MachineIs, MachineNext
  <1>11. Overwrites(Null, key)
    <2>1. Null \notin Upvalues
      BY AddressAssumption DEF Cells
    <2>2. ASSUME NEW c \in Slots, c <= top - Len(Saved) PROVE cells'[c] = cells[c]
      <3>1. c \in Cells /\ ~(c > base)
        BY <1>2, <1>5, <2>2, BoundsAssumption DEF Cells, Slots
      <3>2. QED
        BY <1>7, <3>1
    <2>3. \A u \in HeldBy(Alive) : cells'[u] = cells[u]
      BY <1>1, <1>7, MachineIs
    <2>4. top' >= top - Len(Saved)
      BY <1>2, <1>5, BoundsAssumption
    <2>5. QED
      BY <1>9, <2>1, <2>2, <2>3, <2>4 DEF Overwrites, Remembered
  <1>12. Moves
    <2>1. ASSUME NEW c \in 1 .. top', c <= top' - SavedMax PROVE cells'[c] \in OnStackNow
      <3>1. c \in Cells /\ ~(c > base) /\ c \in 1 .. top
        <4>1. c \in 1 .. StackMax /\ c <= base
          BY <1>5, <2>1, BoundsAssumption
        <4>2. QED
          BY <1>2, <1>5, <4>1, BoundsAssumption DEF Cells, Slots
      <3>2. QED
        BY <1>7, <3>1 DEF OnStackNow
    <2>2. \A j \in 1 .. frameCount' : j \in 1 .. FramesMax
      BY <1>2, <1>8, BoundsAssumption
    <2>3. QED
      BY <1>8, <1>9, <2>1, <2>2 DEF Moves
  <1>13. QED
    BY <1>10, <1>11, <1>12, Forward

(* One lemma for each instruction *)
LEMMA StackValues ==
  ASSUME MachineInv, Running
  PROVE  /\ \A i \in Owned : i \in 1 .. top /\ cells[i] \in Values
         /\ Owned # {} => cells[top] \in Values /\ cells[top] \in OnStackNow
                          /\ Frame.slots + 1 <= top
  <1>1. /\ Frame.slots \in 1 .. top /\ top \in 1 .. StackMax /\ Owned = Frame.slots + 1 .. top
    BY OwnedIs DEF Slots
  <1>2. \A i \in 1 .. top : i \in Cells /\ cells[i] \in Values /\ cells[i] \in OnStackNow
    BY <1>1, MachineIs, BoundsAssumption DEF Cells, Slots, OnStackNow
  <1>3. ASSUME NEW i \in Owned PROVE i \in 1 .. top /\ Frame.slots + 1 <= top
    BY <1>1, BoundsAssumption
  <1>4. Owned # {} => top \in 1 .. top
    BY <1>1, BoundsAssumption
  <1>5. QED
    BY <1>2, <1>3, <1>4

LEMMA LoadableIs == ASSUME MachineInv, Running PROVE Loadable \subseteq Values
  <1>1. \A i \in Owned : cells[i] \in Values
    BY StackValues
  <1>2. ValuesIn(table) \ {Absent} \subseteq Values
    BY MachineIs DEF ValuesIn
  <1>3. Frame.closure \in Closures
    BY OwnedIs DEF FrameRecords
  <1>4. \A u \in OwnUpvalues : cells[location[u]] \in Values
    BY <1>3, MachineIs DEF OwnUpvalues
  <1>5. QED
    BY <1>1, <1>2, <1>4 DEF Loadable, Values

LEMMA LoadStep == ASSUME TravelInv, Lossy = {}, NEW v \in Loadable, Load(v) PROVE TravelInv'
  <1>1. MachineInv /\ Running /\ Log(Null, Null) /\ Advance /\ Replace(0, <<v>>)
    BY DEF TravelInv, Log, Load
  <1>2. open' = open /\ location' = location /\ upvalue' = upvalue /\ table' = table
    BY DEF Load, closureVars
  <1>3. <<v>> \in Seq(Values) /\ Len(<<v>>) \in 0 .. 2
    BY <1>1, LoadableIs
  <1>4. QED
    BY <1>1, <1>2, <1>3, MachineIs, ReplaceStep

LEMMA OperateStep ==
  ASSUME TravelInv, Lossy = {}, NEW n \in 1 .. StackMax,
         Operate(n) \/ PopN(n) \/ CloseScope(n) \/ Swap
  PROVE  TravelInv'
  <1>1. MachineInv /\ Running /\ Log(Null, Null) /\ Advance
    BY DEF TravelInv, Log, Operate, PopN, CloseScope, Swap
  <1>2. open' = open /\ location' = location /\ upvalue' = upvalue /\ table' = table
    BY DEF closureVars, Operate, PopN, CloseScope, Swap
  <1>3. ASSUME NEW m \in Nat, NEW results \in Seq(Values), Len(results) \in 0 .. 2, Replace(m, results)
        PROVE  TravelInv'
    BY <1>1, <1>2, <1>3, MachineIs, ReplaceStep
  <1>4. /\ Frame.slots \in 1 .. top /\ top \in 1 .. StackMax /\ Cardinality(Owned) = top - Frame.slots
        /\ Owned = Frame.slots + 1 .. top
    BY <1>1, OwnedIs DEF Slots
  <1>5. n \in Nat /\ n + 1 \in Nat
    BY BoundsAssumption
  <1>6. CASE Operate(n)
    <2>1. <<Nil>> \in Seq(Values) /\ Len(<<Nil>>) \in 0 .. 2
      BY DEF Values
    <2>2. QED
      BY <1>3, <1>5, <1>6, <2>1 DEF Operate
  <1>7. CASE PopN(n)
    <2>1. << >> \in Seq(Values) /\ Len(<< >>) \in 0 .. 2
      OBVIOUS
    <2>2. QED
      BY <1>3, <1>5, <1>7, <2>1 DEF PopN
  <1>8. CASE CloseScope(n)
    <2>1. n + 1 <= Cardinality(Owned)
      BY <1>8 DEF CloseScope, Replace
    <2>2. Frame.slots + 1 <= top
      BY <1>4, <1>5, <2>1, BoundsAssumption
    <2>3. top \in Owned
      BY <1>4, <2>2, BoundsAssumption
    <2>4. <<cells[top]>> \in Seq(Values) /\ Len(<<cells[top]>>) \in 0 .. 2
      BY <1>1, <2>3, StackValues
    <2>5. QED
      BY <1>3, <1>5, <1>8, <2>4 DEF CloseScope
  <1>9. CASE Swap
    <2>1. Frame.slots + 2 <= top
      BY <1>4, <1>9, BoundsAssumption DEF Swap
    <2>2. top \in Owned /\ top - 1 \in Owned
      BY <1>4, <2>1, BoundsAssumption
    <2>3. <<cells[top], cells[top - 1]>> \in Seq(Values) /\ Len(<<cells[top], cells[top - 1]>>) \in 0 .. 2
      BY <1>1, <2>2, StackValues
    <2>4. QED
      BY <1>3, <1>9, <2>3 DEF Swap
  <1>10. QED
    BY <1>6, <1>7, <1>8, <1>9

LEMMA SetKeyStep ==
  ASSUME TravelInv, Lossy = {}, NEW k \in Keys, NEW n \in Nat, NEW m \in 0 .. 1, SetKey(k, n, m)
  PROVE  TravelInv'
  <1> DEFINE results == [i \in 1 .. m |-> cells[top]]
  <1>1. MachineInv /\ Running /\ Log(Null, k) /\ Advance /\ Owned # {} /\ Replace(n, results)
    BY DEF TravelInv, Log, SetKey
  <1>2. open' = open /\ location' = location /\ upvalue' = upvalue
        /\ table' = [table EXCEPT ![k] = cells[top]]
    BY DEF SetKey, closureVars
  <1>3. cells[top] \in Values /\ cells[top] \in OnStackNow
    BY <1>1, StackValues
  <1>4. results \in Seq(Values) /\ Len(results) = m
    <2>1. m \in Nat
      OBVIOUS
    <2>2. QED
      BY <1>3, <2>1
  <1>5. /\ table' \in [Keys -> Values \cup {Absent}]
        /\ \A x \in Keys : /\ x # k => table'[x] = table[x]
                           /\ table'[x] \in OnStackNow \cup {table[x]}
    BY <1>1, <1>2, <1>3, MachineIs
  <1> HIDE DEF results
  <1>6. Len(results) \in 0 .. 2
    BY <1>4
  <1>7. QED
    BY <1>1, <1>2, <1>4, <1>5, <1>6, MachineIs, ReplaceStep

LEMMA MakeClosureStep ==
  ASSUME TravelInv, Lossy = {}, NEW c \in Closures \ Alive, NEW u \in Upvalues \cup {Null},
         MakeClosure(c, u)
  PROVE  TravelInv'
  <1>1. MachineInv /\ Running /\ Log(Null, Null) /\ Advance /\ Replace(0, <<c>>)
    BY DEF TravelInv, Log, MakeClosure
  <1>2. open' = open /\ location' = location /\ table' = table /\ upvalue' = [upvalue EXCEPT ![c] = u]
    BY DEF MakeClosure
  <1>3. <<c>> \in Seq(Values) /\ Len(<<c>>) \in 0 .. 2
    BY DEF Values
  <1>4. upvalue' \in [Closures -> Upvalues \cup {Null}] /\ \A d \in Alive : upvalue'[d] = upvalue[d]
    BY <1>1, <1>2, MachineIs, InUseIsAlive
  <1>5. QED
    BY <1>1, <1>2, <1>3, <1>4, MachineIs, ReplaceStep

(* An instruction that leaves the height of the stack and the table alone  *)
(* and goes to another instruction of the function.                        *)
LEMMA InPlaceStep ==
  ASSUME TravelInv, NEW cell \in Cells \cup {Null}, Log(cell, Null), NEW ip \in 0 .. CodeMax,
         frames' = [frames EXCEPT ![frameCount].ip = ip], frameCount' = frameCount, top' = top,
         cells' \in [Cells -> Values],
         \A c \in Slots : c # cell => cells'[c] = cells[c],
         \A u \in HeldBy(Alive) \ open : u # cell => cells'[u] = cells[u],
         \A c \in Slots : cells'[c] = cells[c] \/ cells'[c] \in OnStackNow,
         cell \in Upvalues => cell \in OwnUpvalues /\ location[cell] = cell,
         location' \in [Upvalues -> Cells], open' \subseteq Upvalues,
         \A u \in open' : location'[u] \in Slots,
         \A u \in Upvalues : location'[u] # u => location'[u] \in Slots /\ cells'[u] = Nil,
         \A u \in HeldBy(Alive) : /\ u \in open' => u \in open /\ location'[u] = location[u]
                                  /\ location[u] = u => location'[u] = u,
         upvalue' = upvalue, table' = table
  PROVE  TravelInv'
  <1>1. MachineInv /\ Running
    BY DEF TravelInv, Log
  <1>2. /\ Frame.slots \in 1 .. top /\ top \in 1 .. StackMax /\ frameCount \in 1 .. FramesMax
    BY <1>1, OwnedIs DEF Slots
  <1>3. top \in Nat /\ Frame.slots <= top /\ frameCount' \in 0 .. FramesMax /\ top' \in 0 .. StackMax
    BY <1>2, BoundsAssumption
  <1>4. /\ frames' \in FrameTypes /\ Nested(frames', frameCount', top')
        /\ \A j \in 1 .. FramesMax : /\ frames'[j].closure = frames[j].closure
                                     /\ frames'[j].slots = frames[j].slots
                                     /\ j # frameCount => frames'[j].ip = frames[j].ip
    BY <1>1, <1>3, FramesAt
  <1>5. MachineInv'
    BY <1>1, <1>3, <1>4, MachineIs, MachineNext
  <1>6. Overwrites(cell, Null)
    <2>1. Len(Saved) \in Nat
      BY <1>1, <1>2, SavedIs, BoundsAssumption DEF SavedMax
    <2>2. top' >= top - Len(Saved)
      BY <1>3, <2>1
    <2>3. QED
      BY <1>4, <2>2 DEF Overwrites, Remembered
  <1>7. Moves
    <2>1. \A c \in 1 .. top' : c \in Slots /\ cells'[c] \in OnStackNow
      BY <1>2, BoundsAssumption DEF OnStackNow, Slots
    <2>2. \A j \in 1 .. frameCount' : j \in 1 .. FramesMax
      BY <1>2, BoundsAssumption
    <2>3. QED
      BY <1>4, <2>1, <2>2 DEF Moves
  <1>8. QED
    BY <1>5, <1>6, <1>7, AddressAssumption, Forward

LEMMA JumpStep == ASSUME TravelInv, NEW target \in 1 .. CodeMax, Jump(target) PROVE TravelInv'
  <1>1. MachineInv /\ Log(Null, Null) /\ frames' = [frames EXCEPT ![frameCount].ip = target]
    BY DEF TravelInv, Jump
  <1>2. /\ cells' = cells /\ top' = top /\ frameCount' = frameCount /\ location' = location
        /\ open' = open /\ upvalue' = upvalue /\ table' = table
    BY DEF Jump, closureVars
  <1>3. target \in 0 .. CodeMax /\ Null \notin Upvalues
    BY AddressAssumption, BoundsAssumption DEF Cells
  <1>4. QED
    BY <1>1, <1>2, <1>3, MachineIs, InPlaceStep

LEMMA AdvanceIs ==
  ASSUME MachineInv, Running, Advance
  PROVE  /\ frames' = [frames EXCEPT ![frameCount].ip = Frame.ip + 1] /\ frameCount' = frameCount
         /\ Frame.ip + 1 \in 0 .. CodeMax
  <1>1. frames' = [frames EXCEPT ![frameCount].ip = Frame.ip + 1]
    BY DEF Advance, Frame
  <1>2. Frame.ip < CodeMax /\ frameCount' = frameCount
    BY DEF Advance
  <1>3. Frame.ip + 1 \in 0 .. CodeMax
    BY <1>2, OwnedIs, BoundsAssumption
  <1>4. QED
    BY <1>1, <1>2, <1>3

LEMMA SetCellStep ==
  ASSUME TravelInv, NEW cell \in Cells, SetCell(cell),
         cell \in Upvalues => cell \in OwnUpvalues /\ location[cell] = cell
  PROVE  TravelInv'
  <1>1. MachineInv /\ Running /\ Log(cell, Null) /\ Advance /\ Owned # {}
    BY DEF TravelInv, Log, SetCell
  <1>2. /\ top' = top /\ location' = location /\ open' = open /\ upvalue' = upvalue /\ table' = table
        /\ cells' = [cells EXCEPT ![cell] = cells[top]]
    BY DEF SetCell, closureVars
  <1>3. cells[top] \in Values /\ cells[top] \in OnStackNow
    BY <1>1, StackValues
  <1>4. cells' \in [Cells -> Values] /\ \A c \in Cells : cells'[c] = IF c = cell THEN cells[top] ELSE cells[c]
    BY <1>1, <1>2, <1>3, MachineIs
  <1>5. ASSUME NEW u \in Upvalues, location'[u] # u PROVE location'[u] \in Slots /\ cells'[u] = Nil
    BY <1>1, <1>2, <1>4, <1>5, MachineIs
  <1>6. \A c \in Slots : /\ c # cell => cells'[c] = cells[c]
                         /\ cells'[c] = cells[c] \/ cells'[c] \in OnStackNow
    BY <1>3, <1>4 DEF Cells
  <1>7. \A u \in HeldBy(Alive) \ open : u # cell => cells'[u] = cells[u]
    BY <1>1, <1>4, MachineIs
  <1>8. QED
    BY <1>1, <1>2, <1>4, <1>5, <1>6, <1>7, AdvanceIs, MachineIs, InPlaceStep

LEMMA SetLocalStep == ASSUME TravelInv, NEW i \in Slots, SetLocal(i) PROVE TravelInv'
  <1>1. i \in Cells /\ i \notin Upvalues /\ SetCell(i)
    BY AddressAssumption DEF SetLocal, Cells
  <1>2. QED
    BY <1>1, SetCellStep

LEMMA SetUpvalueStep == ASSUME TravelInv, NEW u \in Upvalues, SetUpvalue(u) PROVE TravelInv'
  <1>1. location[u] \in Cells /\ (location[u] \in Upvalues => location[u] = u)
    BY DEF TravelInv, MachineInv, TravelTypeOK
  <1>2. u \in OwnUpvalues /\ SetCell(location[u])
    BY DEF SetUpvalue
  <1>3. QED
    BY <1>1, <1>2, SetCellStep

(* What Unlink and Closed do *)
LEMMA UnlinkIs ==
  ASSUME MachineInv, NEW last, Unlink(last)
  PROVE  /\ location' \in [Upvalues -> Cells] /\ open' \subseteq open /\ open' \subseteq Upvalues
         /\ \A u \in open' : location'[u] \in Slots /\ location'[u] = location[u]
         /\ \A u \in Upvalues : location'[u] # u => location'[u] = location[u]
         /\ \A u \in Upvalues : location[u] = u => location'[u] = u
         /\ \A u \in Upvalues : location'[u] # u => location'[u] \in Slots /\ Closed(last)[u] = Nil
         /\ Closed(last) \in [Cells -> Values]
         /\ \A c \in Slots : Closed(last)[c] = cells[c]
         /\ \A u \in Upvalues \ open : Closed(last)[u] = cells[u]
  <1>1. /\ open' = open \ Closing(last)
        /\ location' = [u \in Upvalues |-> IF u \in Closing(last) THEN u ELSE location[u]]
        /\ Closing(last) \subseteq open
    BY DEF Unlink, Closing
  <1>2. /\ open \subseteq Upvalues /\ location \in [Upvalues -> Cells] /\ cells \in [Cells -> Values]
        /\ \A u \in open : location[u] \in Slots
        /\ \A u \in Upvalues : location[u] # u => location[u] \in Slots /\ cells[u] = Nil
        /\ \A u \in Upvalues : u \in Cells /\ u \notin Slots
    BY MachineIs
  <1>3. \A c \in Slots : c \in Cells /\ c \notin Upvalues
    BY AddressAssumption DEF Cells
  <1>4. \A c \in Cells : Closed(last)[c] = IF c \in Closing(last) THEN cells[location[c]] ELSE cells[c]
    BY DEF Closed
  <1>5. \A u \in open : cells[location[u]] \in Values
    BY <1>2, <1>3
  <1>6. Closed(last) \in [Cells -> Values]
    BY <1>1, <1>2, <1>5 DEF Closed
  <1>7. location' \in [Upvalues -> Cells]
    BY <1>1, <1>2
  <1>8. \A u \in Upvalues : location'[u] # u => u \notin Closing(last) /\ location'[u] = location[u]
    BY <1>1
  <1>9. \A u \in Upvalues : location'[u] # u => location'[u] \in Slots /\ Closed(last)[u] = Nil
    BY <1>2, <1>4, <1>8
  <1>10. \A u \in open' : location'[u] = location[u] /\ location[u] \in Slots
    BY <1>1, <1>2
  <1>11. QED
    BY <1>1, <1>2, <1>3, <1>4, <1>6, <1>7, <1>8, <1>9, <1>10

LEMMA CloseUpvalueStep == ASSUME TravelInv, NEW i \in Slots, CloseUpvalue(i) PROVE TravelInv'
  <1>1. /\ MachineInv /\ Running /\ Log(Null, Null) /\ Advance /\ Unlink(i) /\ cells' = Closed(i)
        /\ top' = top /\ upvalue' = upvalue /\ table' = table
    BY DEF TravelInv, Log, CloseUpvalue
  <1>2. Null \notin Upvalues
    BY AddressAssumption DEF Cells
  <1>3. /\ cells' \in [Cells -> Values]
        /\ \A c \in Slots : cells'[c] = cells[c]
        /\ \A u \in HeldBy(Alive) \ open : cells'[u] = cells[u]
        /\ location' \in [Upvalues -> Cells] /\ open' \subseteq Upvalues
        /\ \A u \in open' : location'[u] \in Slots
        /\ \A u \in Upvalues : location'[u] # u => location'[u] \in Slots /\ cells'[u] = Nil
        /\ \A u \in HeldBy(Alive) : /\ u \in open' => u \in open /\ location'[u] = location[u]
                                    /\ location[u] = u => location'[u] = u
    BY <1>1, MachineIs, UnlinkIs
  <1>4. QED
    BY <1>1, <1>2, <1>3, AdvanceIs, InPlaceStep

LEMMA CaptureStep ==
  ASSUME TravelInv, NEW c \in Closures \ Alive, NEW i \in Slots, NEW u \in Upvalues, Capture(c, i, u)
  PROVE  TravelInv'
  <1>1. /\ MachineInv /\ Running /\ Log(Null, Null) /\ Advance /\ top < StackMax
        /\ upvalue' = [upvalue EXCEPT ![c] = u] /\ top' = top + 1
        /\ cells' = [cells EXCEPT ![top'] = c, ![u] = IF u \in open THEN @ ELSE Nil]
        /\ open' = open \cup {u} /\ location' = [location EXCEPT ![u] = i] /\ table' = table
    BY DEF TravelInv, Log, Capture
  <1>2. \/ u \in open /\ location[u] = i
        \/ u \notin open /\ u \notin HeldBy(Alive)
    BY DEF Capture
  <1>3. /\ Frame.slots \in 1 .. top /\ top \in 1 .. StackMax /\ frameCount \in 1 .. FramesMax
    BY <1>1, OwnedIs DEF Slots
  <1>4. /\ top + 1 \in 1 .. StackMax /\ Frame.slots <= top + 1 /\ top + 1 \in Nat
        /\ frameCount \in 0 .. FramesMax /\ top + 1 \in 0 .. StackMax
    BY <1>1, <1>3, BoundsAssumption
  <1>5. /\ cells \in [Cells -> Values] /\ open \subseteq Upvalues /\ location \in [Upvalues -> Cells]
        /\ \A w \in open : location[w] \in Slots
        /\ \A w \in Upvalues : location[w] # w => location[w] \in Slots /\ cells[w] = Nil
        /\ HeldBy(Alive) \subseteq Upvalues
        /\ \A w \in Upvalues : w \in Cells /\ w \notin Slots
        /\ top + 1 \in Slots /\ top + 1 \in Cells /\ i \in Cells
    BY <1>1, <1>4, MachineIs DEF Slots, Cells
  <1>6. \A x \in Cells : cells'[x] = IF x = top + 1 THEN c
                                     ELSE IF x = u /\ u \notin open THEN Nil ELSE cells[x]
    <2>1. u # top + 1 /\ u \in Cells
      BY <1>5
    <2>2. QED
      BY <1>1, <1>5, <2>1
  <1>7. cells' \in [Cells -> Values]
    BY <1>1, <1>5 DEF Values
  <1>8. \A w \in Upvalues : location'[w] = IF w = u THEN i ELSE location[w]
    BY <1>1, <1>5
  <1>9. location' \in [Upvalues -> Cells] /\ open' \subseteq Upvalues
    BY <1>1, <1>5
  <1>10. \A w \in open' : location'[w] \in Slots
    BY <1>1, <1>5, <1>8
  <1>11. ASSUME NEW w \in Upvalues, location'[w] # w PROVE location'[w] \in Slots /\ cells'[w] = Nil
    <2>1. w \in Cells /\ w # top + 1
      BY <1>5
    <2>2. CASE w = u /\ u \in open
      <3>1. location[w] # w
        BY <1>5, <2>2
      <3>2. QED
        BY <1>5, <1>6, <1>8, <2>1, <2>2, <3>1
    <2>3. CASE w = u /\ u \notin open
      BY <1>6, <1>8, <2>1, <2>3
    <2>4. CASE w # u
      BY <1>5, <1>6, <1>8, <1>11, <2>1, <2>4
    <2>5. QED
      BY <2>2, <2>3, <2>4
  <1>12. upvalue' \in [Closures -> Upvalues \cup {Null}] /\ \A d \in Alive : upvalue'[d] = upvalue[d]
    BY <1>1, MachineIs, InUseIsAlive
  <1>13. /\ frames' \in FrameTypes /\ Nested(frames', frameCount', top') /\ frameCount' = frameCount
         /\ \A j \in 1 .. FramesMax : /\ frames'[j].closure = frames[j].closure
                                      /\ frames'[j].slots = frames[j].slots
                                      /\ j # frameCount => frames'[j].ip = frames[j].ip
    BY <1>1, <1>4, AdvanceIs, FramesAt
  <1>14. MachineInv'
    BY <1>1, <1>4, <1>7, <1>9, <1>10, <1>11, <1>12, <1>13, MachineIs, MachineNext
  <1>15. Overwrites(Null, Null)
    <2>1. Len(Saved) \in Nat
      BY <1>1, <1>3, SavedIs, BoundsAssumption DEF SavedMax
    <2>2. top' >= top - Len(Saved)
      BY <1>1, <1>3, <2>1, BoundsAssumption
    <2>3. ASSUME NEW x \in Slots, x <= top - Len(Saved) PROVE cells'[x] = cells[x]
      <3>1. x # top + 1
        BY <1>3, <2>1, <2>3, BoundsAssumption DEF Slots
      <3>2. x \in Cells /\ x # u
        BY <1>5 DEF Cells
      <3>3. QED
        BY <1>6, <3>1, <3>2
    <2>4. \A w \in HeldBy(Alive) \ open : cells'[w] = cells[w]
      BY <1>2, <1>5, <1>6
    <2>5. \A w \in HeldBy(Alive) : /\ w \in open' => w \in open /\ location'[w] = location[w]
                                   /\ location[w] = w => location'[w] = w
      BY <1>1, <1>2, <1>5, <1>8
    <2>6. Null \notin Upvalues
      BY AddressAssumption DEF Cells
    <2>7. QED
      BY <1>1, <1>12, <1>13, <2>2, <2>3, <2>4, <2>5, <2>6 DEF Overwrites, Remembered
  <1>16. Moves
    <2>1. ASSUME NEW x \in 1 .. top', x <= top' - SavedMax PROVE cells'[x] \in OnStackNow
      <3>1. x \in 1 .. top /\ x # top + 1 /\ x \in Slots
        BY <1>1, <1>3, <2>1, BoundsAssumption DEF SavedMax, Slots
      <3>2. x # u /\ x \in Cells
        BY <1>5, <3>1 DEF Cells
      <3>3. QED
        BY <1>6, <3>1, <3>2 DEF OnStackNow
    <2>2. \A j \in 1 .. frameCount' : j \in 1 .. FramesMax
      BY <1>3, <1>13, BoundsAssumption
    <2>3. QED
      BY <1>1, <1>13, <2>1, <2>2 DEF Moves
  <1>17. QED
    BY <1>14, <1>15, <1>16, Forward

LEMMA CallStep ==
  ASSUME TravelInv, Lossy = {}, NEW n \in 0 .. StackMax, Call(n)
  PROVE  TravelInv'
  <1>1. /\ MachineInv /\ Running /\ Log(Null, Null)
        /\ n + 1 <= Cardinality(Owned) /\ cells[top - n] \in Closures
        /\ frameCount < FramesMax /\ Frame.ip < CodeMax
        /\ frames' = [frames EXCEPT ![frameCount].ip = @ + 1,
                                    ![frameCount + 1] =
                        [closure |-> cells[top - n], ip |-> 1, slots |-> top - n]]
        /\ frameCount' = frameCount + 1
        /\ cells' = cells /\ top' = top /\ table' = table
        /\ location' = location /\ open' = open /\ upvalue' = upvalue
    BY DEF TravelInv, Log, Call, closureVars
  <1>2. \A i \in 1 .. Len(log) : log[i].frameCount <= frameCount
    BY DEF Call
  <1>3. /\ Frame.slots \in 1 .. top /\ top \in 1 .. StackMax /\ frameCount \in 1 .. FramesMax
        /\ Frame.ip \in 0 .. CodeMax /\ Cardinality(Owned) = top - Frame.slots
        /\ frames \in FrameTypes /\ Frame = frames[frameCount]
        /\ Nested(frames, frameCount, top)
    BY <1>1, OwnedIs, MachineIs DEF Slots, Frame, MachineInv
  <1>4. /\ top - n \in 1 .. top /\ Frame.slots < top - n /\ top - n \in 1 .. StackMax
        /\ frameCount + 1 \in 1 .. FramesMax /\ Frame.ip + 1 \in 0 .. CodeMax /\ 1 \in 0 .. CodeMax
        /\ frameCount # frameCount + 1
    BY <1>1, <1>3, BoundsAssumption
  <1> DEFINE callee == [closure |-> cells[top - n], ip |-> 1, slots |-> top - n]
             deep == [frames EXCEPT ![frameCount].ip = Frame.ip + 1]
  <1>5. callee \in FrameRecords
    BY <1>1, <1>4 DEF FrameRecords, Slots
  <1>6. \A j \in 1 .. FramesMax :
          frames'[j] = IF j = frameCount + 1 THEN callee
                       ELSE IF j = frameCount THEN [frames[j] EXCEPT !.ip = Frame.ip + 1] ELSE frames[j]
    BY <1>1, <1>3, <1>4 DEF FrameTypes
  <1>7. \A j \in 1 .. FramesMax :
          frames[j] \in [closure : Closures \cup {Null}, ip : 0 .. CodeMax, slots : 0 .. StackMax]
    BY <1>3 DEF FrameTypes
  <1>8. \A j \in 1 .. FramesMax : j # frameCount + 1 =>
          /\ frames'[j].closure = frames[j].closure /\ frames'[j].slots = frames[j].slots
          /\ j # frameCount => frames'[j].ip = frames[j].ip
    BY <1>6, <1>7
  <1>9. frames' \in FrameTypes
    <2>1. callee \in [closure : Closures \cup {Null}, ip : 0 .. CodeMax, slots : 0 .. StackMax]
      BY <1>1, <1>4, BoundsAssumption
    <2>2. \A j \in 1 .. FramesMax :
            frames'[j] \in [closure : Closures \cup {Null}, ip : 0 .. CodeMax, slots : 0 .. StackMax]
      BY <1>4, <1>6, <1>7, <2>1
    <2>3. DOMAIN frames' = 1 .. FramesMax /\ frames' = [j \in 1 .. FramesMax |-> frames'[j]]
      BY <1>1, <1>3 DEF FrameTypes
    <2>4. QED
      BY <2>2, <2>3 DEF FrameTypes
  <1> HIDE DEF callee, deep
  <1>10. Nested(frames', frameCount', top')
    <2>1. ASSUME NEW j \in 1 .. frameCount
          PROVE  /\ frames'[j] \in FrameRecords /\ frames'[j].slots <= top
                 /\ frames'[j].slots = frames[j].slots /\ frames'[j].slots < top - n
                 /\ j \in 1 .. FramesMax
      <3>1. j \in 1 .. FramesMax /\ j # frameCount + 1 /\ frames[j] \in FrameRecords
            /\ frames[j].slots <= top
        BY <1>3, BoundsAssumption DEF Nested
      <3>2. frames'[j] \in FrameRecords
        BY <1>4, <1>6, <3>1 DEF FrameRecords
      <3>3. frames[j].slots <= Frame.slots
        <4>1. frames[j].slots \in 1 .. StackMax /\ Frame.slots \in 1 .. StackMax
          BY <1>3, <3>1, BoundsAssumption DEF FrameRecords, Slots
        <4>2. CASE j = frameCount
          BY <1>3, <4>1, <4>2, BoundsAssumption
        <4>3. CASE j # frameCount
          <5>1. j < frameCount /\ frameCount \in 1 .. frameCount
            BY <1>3, <4>3, BoundsAssumption
          <5>2. frames[j].slots < Frame.slots
            BY <1>3, <5>1 DEF Nested
          <5>3. QED
            BY <4>1, <5>2, BoundsAssumption
        <4>4. QED
          BY <4>2, <4>3
      <3>4. frames[j].slots \in 1 .. StackMax
        BY <3>1 DEF FrameRecords, Slots
      <3>5. frames[j].slots < top - n
        BY <1>3, <1>4, <3>3, <3>4, BoundsAssumption
      <3>6. QED
        BY <1>8, <3>1, <3>2, <3>5
    <2>2. frames'[frameCount + 1] = callee /\ callee.slots = top - n /\ top - n <= top
      <3>1. frames'[frameCount + 1] = callee
        BY <1>4, <1>6
      <3>2. callee.slots = top - n
        BY DEF callee
      <3>3. top - n <= top
        BY <1>3, <1>4, BoundsAssumption
      <3>4. QED
        BY <3>1, <3>2, <3>3
    <2>3. \A j \in 1 .. frameCount + 1 : j \in 1 .. frameCount \/ j = frameCount + 1
      BY <1>3, BoundsAssumption
    <2>4. \A j \in 1 .. frameCount + 1 : frames'[j] \in FrameRecords /\ frames'[j].slots <= top
      BY <1>5, <2>1, <2>2, <2>3
    <2>5. ASSUME NEW j \in 1 .. frameCount + 1, NEW l \in 1 .. frameCount + 1, j < l
          PROVE  frames'[j].slots < frames'[l].slots
      <3>1. j \in 1 .. frameCount
        BY <1>3, <2>5, BoundsAssumption
      <3>2. CASE l = frameCount + 1
        BY <2>1, <2>2, <3>1, <3>2
      <3>3. CASE l \in 1 .. frameCount
        <4>1. frames[j].slots < frames[l].slots
          BY <1>3, <2>5, <3>1, <3>3 DEF Nested
        <4>2. QED
          BY <2>1, <3>1, <3>3, <4>1
      <3>4. QED
        BY <2>3, <3>2, <3>3
    <2>6. QED
      BY <1>1, <2>4, <2>5 DEF Nested
  <1>11. MachineInv'
    <2>1. frameCount' \in 0 .. FramesMax
      BY <1>1, <1>4, BoundsAssumption
    <2>2. QED
      BY <1>1, <1>9, <1>10, <2>1, MachineIs, MachineNext
  <1>12. Overwrites(Null, Null)
    <2>1. Len(Saved) \in Nat
      BY <1>1, <1>3, SavedIs, BoundsAssumption DEF SavedMax
    <2>2. top' >= top - Len(Saved)
      BY <1>1, <1>3, <2>1, BoundsAssumption
    <2>3. \A j \in Remembered : j \in 1 .. FramesMax /\ j # frameCount + 1
      <3> SUFFICES ASSUME NEW j \in Remembered PROVE j \in 1 .. FramesMax /\ j <= frameCount
        BY <1>3, BoundsAssumption
      <3>1. CASE j <= frameCount
        BY <3>1 DEF Remembered
      <3>2. CASE \E i \in 1 .. Len(log) : j <= log[i].frameCount
        <4>1. PICK i \in 1 .. Len(log) : j <= log[i].frameCount
          BY <3>2
        <4>2. log[i] \in Records
          BY DEF TravelInv, RecordsInv
        <4>3. log[i].frameCount \in 1 .. FramesMax /\ log[i].frameCount <= frameCount
          BY <1>2, <4>2 DEF Records
        <4>4. j \in 1 .. FramesMax
          BY DEF Remembered
        <4>5. QED
          BY <1>3, <4>1, <4>3, <4>4, BoundsAssumption
      <3>3. QED
        BY <3>1, <3>2 DEF Remembered
    <2>4. Null \notin Upvalues
      BY AddressAssumption DEF Cells
    <2>5. QED
      BY <1>1, <1>8, <2>2, <2>3, <2>4 DEF Overwrites
  <1>13. Moves
    <2>1. \A x \in 1 .. top' : cells'[x] \in OnStackNow
      BY <1>1 DEF OnStackNow
    <2>2. ASSUME NEW j \in 1 .. frameCount'
          PROVE  frames'[j].closure \in OnStackNow \cup {frames[l].closure : l \in 1 .. frameCount}
      <3>1. CASE j = frameCount + 1
        <4>0. frames'[j] = callee
          BY <1>4, <1>6, <3>1
        <4>1. frames'[j].closure = cells[top - n]
          BY <4>0 DEF callee
        <4>2. QED
          BY <1>4, <4>1 DEF OnStackNow
      <3>2. CASE j # frameCount + 1
        <4>1. j \in 1 .. frameCount /\ j \in 1 .. FramesMax
          BY <1>1, <1>3, <3>2, BoundsAssumption
        <4>2. QED
          BY <1>8, <3>2, <4>1
      <3>3. QED
        BY <3>1, <3>2
    <2>3. QED
      BY <1>1, <2>1, <2>2 DEF Moves
  <1>14. QED
    BY <1>11, <1>12, <1>13, Forward

(* A function that Return leaves keeps few enough operands to be saved.    *)
LEMMA KeepsCallee ==
  ASSUME NEW h \in 1 .. StackMax, NEW slots \in 1 .. h, h - slots + 1 <= SavedMax,
         NEW keep, keep = IF h < SavedMax THEN h ELSE SavedMax
  PROVE  h - keep < slots /\ slots >= h - keep
  BY BoundsAssumption DEF SavedMax

LEMMA ReturnStep == ASSUME TravelInv, Lossy = {}, Return PROVE TravelInv'
  <1>1. /\ MachineInv /\ Running /\ Log(Null, Null) /\ frameCount > 1 /\ Owned # {}
        /\ Unlink(Frame.slots) /\ Losable(top - Frame.slots + 1)
        /\ cells' = [Closed(Frame.slots) EXCEPT ![Frame.slots] = cells[top]]
        /\ top' = Frame.slots /\ frameCount' = frameCount - 1 /\ frames' = frames
        /\ upvalue' = upvalue /\ table' = table
    BY DEF TravelInv, Log, Return
  <1>2. /\ Frame.slots \in 1 .. top /\ top \in 1 .. StackMax /\ frameCount \in 1 .. FramesMax
        /\ Frame = frames[frameCount] /\ Nested(frames, frameCount, top)
        /\ cells[top] \in Values
    BY <1>1, OwnedIs, StackValues DEF Slots, Frame, MachineInv
  <1>3. top - Frame.slots + 1 <= SavedMax
    BY <1>1 DEF Losable
  <1>4. Len(Saved) = IF top < SavedMax THEN top ELSE SavedMax
    BY <1>1, SavedIs
  <1>5. /\ Frame.slots \in Slots /\ Frame.slots \in 0 .. StackMax /\ top - Len(Saved) < Frame.slots
        /\ frameCount - 1 \in 0 .. FramesMax /\ frameCount - 1 < frameCount /\ Len(Saved) \in Nat
        /\ Frame.slots >= top - Len(Saved)
    <2>1. /\ Frame.slots \in Slots /\ Frame.slots \in 0 .. StackMax
          /\ frameCount - 1 \in 0 .. FramesMax /\ frameCount - 1 < frameCount
      BY <1>1, <1>2, BoundsAssumption DEF Slots
    <2>2. Len(Saved) \in Nat
      BY <1>2, <1>4, BoundsAssumption DEF SavedMax
    <2>3. top - Len(Saved) < Frame.slots /\ Frame.slots >= top - Len(Saved)
      BY <1>2, <1>3, <1>4, KeepsCallee
    <2>4. QED
      BY <2>1, <2>2, <2>3
  <1>6. Closed(Frame.slots) \in [Cells -> Values] /\ \A c \in Slots : Closed(Frame.slots)[c] = cells[c]
    BY <1>1, UnlinkIs
  <1>7. /\ cells' \in [Cells -> Values]
        /\ \A c \in Slots : c # Frame.slots => cells'[c] = cells[c]
        /\ \A u \in Upvalues : cells'[u] = Closed(Frame.slots)[u]
    <2>1. \A u \in Upvalues : u \in Cells /\ u # Frame.slots
      BY <1>1, <1>5, MachineIs
    <2>2. \A c \in Slots : c \in Cells
      BY DEF Cells
    <2>3. QED
      BY <1>1, <1>2, <1>6, <2>1, <2>2
  <1>8. \A j \in 1 .. frameCount' : j \in 1 .. frameCount /\ j < frameCount
    BY <1>1, <1>2, BoundsAssumption
  <1>9. Nested(frames', frameCount', top')
    <2>1. ASSUME NEW j \in 1 .. frameCount' PROVE frames[j] \in FrameRecords /\ frames[j].slots <= top'
      <3>1. frames[j] \in FrameRecords /\ frames[j].slots < Frame.slots
        <4>1. frameCount \in 1 .. frameCount
          BY <1>2, BoundsAssumption
        <4>2. QED
          BY <1>2, <1>8, <4>1 DEF Nested
      <3>2. frames[j].slots \in 1 .. StackMax /\ Frame.slots \in 1 .. StackMax
        BY <1>5, <3>1 DEF FrameRecords, Slots
      <3>3. QED
        BY <1>1, <3>1, <3>2, BoundsAssumption
    <2>2. \A j, l \in 1 .. frameCount' : j < l => frames[j].slots < frames[l].slots
      BY <1>2, <1>8 DEF Nested
    <2>3. QED
      BY <1>1, <2>1, <2>2 DEF Nested
  <1>10. /\ location' \in [Upvalues -> Cells] /\ open' \subseteq Upvalues
         /\ \A u \in open' : location'[u] \in Slots
         /\ \A u \in Upvalues : location'[u] # u => location'[u] \in Slots /\ cells'[u] = Nil
         /\ \A u \in HeldBy(Alive) \ open : cells'[u] = cells[u]
         /\ \A u \in HeldBy(Alive) : /\ u \in open' => u \in open /\ location'[u] = location[u]
                                     /\ location[u] = u => location'[u] = u
    BY <1>1, <1>7, MachineIs, UnlinkIs
  <1>11. MachineInv'
    BY <1>1, <1>5, <1>7, <1>9, <1>10, MachineIs, MachineNext
  <1>12. Overwrites(Null, Null)
    <2>1. ASSUME NEW c \in Slots, c <= top - Len(Saved) PROVE cells'[c] = cells[c]
      <3>1. c # Frame.slots
        BY <1>2, <1>5, <2>1, BoundsAssumption DEF Slots
      <3>2. QED
        BY <1>7, <3>1
    <2>2. Null \notin Upvalues
      BY AddressAssumption DEF Cells
    <2>3. QED
      BY <1>1, <1>5, <1>10, <2>1, <2>2 DEF Overwrites
  <1>13. Moves
    <2>1. ASSUME NEW c \in 1 .. top', c <= top' - SavedMax PROVE cells'[c] \in OnStackNow
      <3>1. c \in 1 .. top /\ c # Frame.slots /\ c \in Slots
        BY <1>1, <1>2, <1>5, <2>1, BoundsAssumption DEF Slots, SavedMax
      <3>2. QED
        BY <1>7, <3>1 DEF OnStackNow
    <2>2. QED
      BY <1>1, <1>8, <2>1 DEF Moves
  <1>14. QED
    BY <1>11, <1>12, <1>13, AddressAssumption, Forward

LEMMA ReturnFromScriptStep == ASSUME TravelInv, ReturnFromScript PROVE TravelInv'
  <1>1. /\ MachineInv /\ Running /\ Log(Null, Null) /\ Owned # {}
        /\ Unlink(Frame.slots) /\ cells' = Closed(Frame.slots)
        /\ top' = top - 2 /\ frameCount' = 0 /\ frames' = frames
        /\ upvalue' = upvalue /\ table' = table
    BY DEF TravelInv, Log, ReturnFromScript
  <1>2. Frame.slots \in 1 .. top /\ top \in 1 .. StackMax /\ Frame.slots + 1 <= top
    BY <1>1, OwnedIs, StackValues DEF Slots
  <1>3. /\ top - 2 \in 0 .. StackMax /\ 0 \in 0 .. FramesMax
        /\ \A c \in 1 .. top - 2 : c \in 1 .. top /\ c \in Slots
    BY <1>2, BoundsAssumption DEF Slots
  <1>4. Nested(frames', frameCount', top')
    BY <1>1 DEF Nested
  <1>5. /\ cells' \in [Cells -> Values] /\ \A c \in Slots : cells'[c] = cells[c]
        /\ location' \in [Upvalues -> Cells] /\ open' \subseteq Upvalues
        /\ \A u \in open' : location'[u] \in Slots
        /\ \A u \in Upvalues : location'[u] # u => location'[u] \in Slots /\ cells'[u] = Nil
        /\ \A u \in HeldBy(Alive) \ open : cells'[u] = cells[u]
        /\ \A u \in HeldBy(Alive) : /\ u \in open' => u \in open /\ location'[u] = location[u]
                                    /\ location[u] = u => location'[u] = u
    BY <1>1, MachineIs, UnlinkIs
  <1>6. MachineInv'
    BY <1>1, <1>3, <1>4, <1>5, MachineIs, MachineNext
  <1>7. Overwrites(Null, Null)
    <2>1. Null \notin Upvalues /\ ~Running'
      BY <1>1, AddressAssumption DEF Cells, Running
    <2>2. QED
      BY <1>1, <1>5, <2>1 DEF Overwrites
  <1>8. Moves
    BY <1>1, <1>3, <1>5 DEF Moves, OnStackNow
  <1>9. QED
    BY <1>6, <1>7, <1>8, AddressAssumption, Forward

LEMMA RuntimeErrorStep ==
  ASSUME TravelInv, NEW k \in Keys \cup {Null}, RuntimeError(k) PROVE TravelInv'
  <1>1. /\ MachineInv /\ Running /\ Log(Null, k) /\ Frame.ip < CodeMax
        /\ frames' = [frames EXCEPT ![frameCount].ip = @ + 1]
        /\ top' = 0 /\ frameCount' = 0 /\ open' = {} /\ cells' = cells /\ location' = location
        /\ upvalue' = upvalue /\ table' = table
    BY DEF TravelInv, Log, RuntimeError
  <1>2. Frame.ip + 1 \in 0 .. CodeMax /\ frames' = [frames EXCEPT ![frameCount].ip = Frame.ip + 1]
    <2>1. frames' = [frames EXCEPT ![frameCount].ip = Frame.ip + 1]
      BY <1>1 DEF Frame
    <2>2. Frame.ip \in 0 .. CodeMax
      BY <1>1, OwnedIs
    <2>3. Frame.ip + 1 \in 0 .. CodeMax
      BY <1>1, <2>2, BoundsAssumption
    <2>4. QED
      BY <2>1, <2>3
  <1>3. top \in Nat /\ Frame.slots <= top
    BY <1>1, OwnedIs, BoundsAssumption DEF Slots
  <1>4. /\ frames' \in FrameTypes
        /\ \A j \in 1 .. FramesMax : /\ frames'[j].closure = frames[j].closure
                                     /\ frames'[j].slots = frames[j].slots
                                     /\ j # frameCount => frames'[j].ip = frames[j].ip
    BY <1>1, <1>2, <1>3, FramesAt
  <1>5. Nested(frames', frameCount', top')
    BY <1>1 DEF Nested
  <1>6. 0 \in 0 .. StackMax /\ 0 \in 0 .. FramesMax
    BY BoundsAssumption
  <1>7. MachineInv'
    BY <1>1, <1>4, <1>5, <1>6, MachineIs, MachineNext
  <1>8. Overwrites(Null, k)
    <2>1. Null \notin Upvalues /\ ~Running'
      BY <1>1, AddressAssumption DEF Cells, Running
    <2>2. QED
      BY <1>1, <1>4, <2>1 DEF Overwrites, Remembered
  <1>9. Moves
    BY <1>1 DEF Moves
  <1>10. QED
    BY <1>7, <1>8, <1>9, AddressAssumption, Forward

-----------------------------------------------------------------------------
LEMMA ForwardStep == ASSUME TravelInv, Lossy = {}, StepForward PROVE TravelInv'
  <1>1. ASSUME NEW v \in Loadable, Load(v) PROVE TravelInv'
    BY <1>1, LoadStep
  <1>2. ASSUME NEW n \in 1 .. StackMax, Operate(n) \/ PopN(n) \/ CloseScope(n) PROVE TravelInv'
    BY <1>2, OperateStep
  <1>3. ASSUME Swap PROVE TravelInv'
    <2>1. 1 \in 1 .. StackMax
      BY BoundsAssumption
    <2>2. QED
      BY <1>3, <2>1, OperateStep
  <1>4. ASSUME Return PROVE TravelInv'
    BY <1>4, ReturnStep
  <1>5. ASSUME ReturnFromScript PROVE TravelInv'
    BY <1>5, ReturnFromScriptStep
  <1>6. ASSUME NEW n \in 0 .. StackMax, Call(n) PROVE TravelInv'
    BY <1>6, CallStep
  <1>7. ASSUME NEW i \in Slots, SetLocal(i) \/ CloseUpvalue(i) PROVE TravelInv'
    BY <1>7, SetLocalStep, CloseUpvalueStep
  <1>8. ASSUME NEW u \in Upvalues, SetUpvalue(u) PROVE TravelInv'
    BY <1>8, SetUpvalueStep
  <1>9. ASSUME NEW k \in Keys, DefineGlobal(k) \/ SetGlobal(k) \/ SetProperty(k) PROVE TravelInv'
    <2>1. CASE SetKey(k, 1, 0)
      BY <2>1, SetKeyStep
    <2>2. CASE SetKey(k, 0, 0)
      BY <2>2, SetKeyStep
    <2>3. CASE SetKey(k, 2, 1)
      BY <2>3, SetKeyStep
    <2>4. QED
      BY <1>9, <2>1, <2>2, <2>3 DEF DefineGlobal, SetGlobal, SetProperty
  <1>10. ASSUME NEW k \in Keys \cup {Null}, RuntimeError(k) PROVE TravelInv'
    BY <1>10, RuntimeErrorStep
  <1>11. ASSUME NEW target \in 1 .. CodeMax, Jump(target) PROVE TravelInv'
    BY <1>11, JumpStep
  <1>12. ASSUME NEW c \in Closures \ Alive, NEW u \in Upvalues \cup {Null}, MakeClosure(c, u)
         PROVE  TravelInv'
    BY <1>12, MakeClosureStep
  <1>13. ASSUME NEW c \in Closures \ Alive, NEW i \in Slots, NEW u \in Upvalues, Capture(c, i, u)
         PROVE  TravelInv'
    BY <1>13, CaptureStep
  <1>14. QED
    BY <1>1, <1>2, <1>3, <1>4, <1>5, <1>6, <1>7, <1>8, <1>9, <1>10, <1>11, <1>12, <1>13 DEF StepForward

LEMMA StayStep == ASSUME TravelInv, UNCHANGED travelVars PROVE TravelInv'
  <1>1. /\ cells' = cells /\ top' = top /\ frames' = frames /\ frameCount' = frameCount
        /\ location' = location /\ open' = open /\ upvalue' = upvalue /\ table' = table
        /\ log' = log /\ past' = past
    BY DEF travelVars, machineVars, closureVars
  <1>2. MachineInv' /\ RecordsInv' /\ StoredInv' /\ UsedInv'
    BY <1>1 DEF TravelInv, MachineInv, TravelTypeOK, RecordsInv, StoredInv, UsedInv
  <1>3. ReplayInv'
    BY <1>1 DEF TravelInv, ReplayInv, ComesBack, VariableComesBack, Height, Running
  <1>4. QED
    BY <1>2, <1>3 DEF TravelInv

(* What the three results follow from: the log of the recorder undoes all  *)
(* that run did, in any order of instructions and steps back, and keeps    *)
(* alive what it brings back (recorder.hpp, VM::run with singleStep,       *)
(* VM::stepBack, markVMRoots).                                             *)
THEOREM TravelInvariant == ASSUME Lossy = {} PROVE TravelSpec => []TravelInv
  <1>1. TravelInit => TravelInv
    BY InitInv
  <1>2. TravelInv /\ [TravelNext]_travelVars => TravelInv'
    BY ForwardStep, Back, StayStep DEF TravelNext
  <1>3. QED
    BY <1>1, <1>2, PTL DEF TravelSpec

(* The stack, the frames and the upvalues the VM works with stay within    *)
(* the bounds kStackMax and kFramesMax set, and no frame in use is without *)
(* its closure, whatever VM::stepBack put back in their place.             *)
THEOREM TravelTypeCorrect == ASSUME Lossy = {} PROVE TravelSpec => []TravelTypeOK
  <1>1. TravelInv => TravelTypeOK
    BY DEF TravelInv, MachineInv
  <1>2. QED
    BY <1>1, TravelInvariant, PTL

(* VM::stepBack restores what VM::run changed: stack, frames, globals,     *)
(* fields and captured variables, from every state that instructions and   *)
(* steps back lead to.                                                     *)
THEOREM StepBackRestores == ASSUME Lossy = {} PROVE TravelSpec => []StateRestored
  <1>1. QED
    BY InvRestores, TravelInvariant, PTL

(* markVMRoots marks every closure that the debugger can go back to.       *)
THEOREM PastStaysAlive == ASSUME Lossy = {} PROVE TravelSpec => []PastIsRooted
  <1>1. QED
    BY InvIsRooted, TravelInvariant, PTL
=============================================================================
