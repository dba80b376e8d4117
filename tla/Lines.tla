------------------------------- MODULE Lines -------------------------------
(***************************************************************************)
(* The run-length encoded line table of a chunk (chunk.cpp): lines_, one   *)
(* entry per run of consecutive bytes that come from the same line.        *)
(***************************************************************************)
EXTENDS Naturals, Sequences

Runs == Seq([line : Nat, count : Nat])

LastRun(runs) == runs[Len(runs)]
DropRun(runs) == SubSeq(runs, 1, Len(runs) - 1)

(* `count` calls of Chunk::write with the same line. *)
Written(runs, count, line) ==
  IF runs # <<>> /\ LastRun(runs).line = line
  THEN [runs EXCEPT ![Len(runs)].count = @ + count]
  ELSE Append(runs, [line |-> line, count |-> count])

(* Mutant: the last run goes, whatever it holds. *)
UnwrittenWhole(s) ==
  IF s.toRemove = 0 \/ s.runs = <<>> THEN s
  ELSE [runs |-> DropRun(s.runs), toRemove |-> 0]

(* One round of the loop of Chunk::rewind *)
Unwritten(s) ==
  IF s.toRemove = 0 \/ s.runs = <<>> THEN s
  ELSE IF LastRun(s.runs).count > s.toRemove
  THEN [runs |-> [s.runs EXCEPT ![Len(s.runs)].count = @ - s.toRemove], toRemove |-> 0]
  ELSE [runs |-> DropRun(s.runs), toRemove |-> s.toRemove - LastRun(s.runs).count]

Rewound(runs, toRemove) ==
  LET round[n \in 0 .. Len(runs)] ==
        IF n = 0 THEN [runs |-> runs, toRemove |-> toRemove] ELSE Unwritten(round[n - 1])
  IN round[Len(runs)].runs

(* The bytes of the first n runs *)
Seen(runs, n) ==
  LET seen[m \in 0 .. n] == IF m = 0 THEN 0 ELSE seen[m - 1] + runs[m].count IN seen[n]

NoLine == 0                 \* lineAt's -1

(* Chunk::lineAt: the line of the first run that reaches past the offset *)
LineAt(runs, offset) ==
  LET past == {n \in DOMAIN runs : offset < Seen(runs, n)}
  IN IF past = {} THEN NoLine
     ELSE runs[CHOOSE n \in past : \A m \in past : n <= m].line
=============================================================================
