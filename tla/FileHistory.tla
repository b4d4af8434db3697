---------------------------- MODULE FileHistory ----------------------------
(***************************************************************************)
(* The checkpoints of one session: write_file                              *)
(* (packages/server/src/tools/write-file.ts) copies the file it is about   *)
(* to overwrite, and POST /sessions/:id/rewind                             *)
(* (packages/server/src/storage/checkpoints.ts) copies the newest copy     *)
(* back.  Both run on the same files, several at once, with no lock, and   *)
(* so do editors, commands and the agents of other sessions (Edit).        *)
(***************************************************************************)
EXTENDS Naturals, FiniteSets, FiniteSetsExt

CONSTANTS Callers,   \* the tool calls and rewind requests in progress
          Paths,     \* the files, by absolute path
          Names,     \* the checkpoint names, without their time
          Name,      \* path -> its name: separators and colons become "_"
          Answers,   \* path -> the names that end as its own does
          Values,    \* what is written to files
          MaxCalls,  \* bound: calls of write_file and rewind
          MaxTime,   \* bound: milliseconds
          MaxFaults  \* bound: edits and crashes

ASSUME FileHistoryAssumption ==
  /\ IsFiniteSet(Callers) /\ Paths # {}
  /\ Name \in [Paths -> Names] /\ Answers \in [Paths -> SUBSET Names]
  /\ \A p \in Paths : Name[p] \in Answers[p]
  /\ MaxCalls \in Nat /\ MaxTime \in Nat /\ MaxFaults \in Nat

None == "none"  \* no such file
Torn == "torn"  \* part of what was to be written, or a mix
Files == Values \cup {None, Torn}
Keys == (0..MaxTime) \X Names

VARIABLES
  disk,     \* path -> what the file holds
  history,  \* <<time, name>> -> what the checkpoint holds
  call,     \* caller -> its operation
  now,      \* Date.now()
  undo,     \* history: path -> what its latest write replaced
  replaced, \* history: <<path, value, checkpoint>>: what each write replaced
  lost,     \* history: those of them that have no copy, see Recoverable
  calls,    \* operations so far
  faults    \* edits and crashes so far

ghosts == << undo, replaced, lost >>
bounds == << calls, faults >>
vars == << disk, history, call, now, ghosts, bounds >>

Call == [at : {"idle", "probed", "copying", "copied", "writing", "found", "restoring"},
         path : Paths, value : Values \cup {None}, key : Keys,
         alone : BOOLEAN,   \* history: nobody else has used the file since
         intact : BOOLEAN]  \* history: nobody else has written to the file, or
                            \* to the checkpoint, since it was last opened

TypeOK ==
  /\ disk \in [Paths -> Files] /\ history \in [Keys -> Files]
  /\ call \in [Callers -> Call] /\ now \in 0..MaxTime
  /\ undo \in [Paths -> Files]
  /\ replaced \subseteq Paths \X Files \X Keys /\ lost \subseteq replaced
  /\ calls \in 0..MaxCalls /\ faults \in 0..MaxFaults

Resting == [at |-> "idle", path |-> CHOOSE p \in Paths : TRUE,
            value |-> None,
            key |-> <<0, CHOOSE n \in Names : TRUE>>, alone |-> TRUE, intact |-> TRUE]

Init ==
  /\ disk \in [Paths -> Values \cup {None}]
  /\ history = [k \in Keys |-> None]
  /\ call = [c \in Callers |-> Resting]
  /\ now = 0 /\ undo = [p \in Paths |-> None] /\ replaced = {} /\ lost = {}
  /\ calls = 0 /\ faults = 0

Busy(c, at) == call[c].at = at

\* The calls on a file, and those on a checkpoint.
On(p) == {d \in Callers : ~Busy(d, "idle") /\ call[d].path = p}
Of(k) == {d \in Callers : call[d].at \in {"copying", "copied", "found", "restoring"} /\ call[d].key = k}

\* Nobody else is writing to the file of c, or to its checkpoint.
Quiet(c) ==
  \A d \in Callers \ {c} :
    /\ call[d].at \in {"writing", "restoring"} => call[d].path # call[c].path
    /\ Busy(d, "copying") => call[d].key # call[c].key

\* The calls after c used its file, and wrote under those of broken.
Disturbed(c, broken) ==
  [d \in Callers |->
     IF d = c THEN call[c]
     ELSE [call[d] EXCEPT !.alone = @ /\ d \notin On(call[c].path), !.intact = @ /\ d \notin broken]]

\* c opens what it is to write to.
Begins(c, at, broken) ==
  [Disturbed(c, broken) EXCEPT ![c] =
     [call[c] EXCEPT !.at = at, !.alone = @ /\ Quiet(c), !.intact = Quiet(c)]]

\* What a copy or a write that somebody came between may leave.
Outcome(c, whole) == IF call[c].intact THEN {whole} ELSE {whole, Torn}

(***************************************************************************)
(* write_file.                                                             *)
(***************************************************************************)
\* access, and the time of the checkpoint; a new file needs none.
Write(c, p, v) ==
  /\ Busy(c, "idle") /\ calls < MaxCalls
  /\ calls' = calls + 1
  /\ call' = [call EXCEPT ![c] =
                [at |-> IF disk[p] = None THEN "copied" ELSE "probed", path |-> p, value |-> v,
                 key |-> <<now, Name[p]>>, alone |-> TRUE, intact |-> TRUE]]
  /\ UNCHANGED << disk, history, now, ghosts, faults >>

\* copyFile opens, and empties, the checkpoint of that name, and with it the
\* copy of an earlier write of the same millisecond.
CopyBegins(c) ==
  LET p == call[c].path k == call[c].key IN
  /\ Busy(c, "probed") /\ disk[p] # None
  /\ history' = [history EXCEPT ![k] = Torn]
  /\ lost' = lost \cup {r \in replaced : r[3] = k}
  /\ undo' = [undo EXCEPT ![p] = None]
  /\ call' = Begins(c, "copying", Of(k))
  /\ UNCHANGED << disk, now, replaced, bounds >>

CopyEnds(c) ==
  LET p == call[c].path k == call[c].key IN
  /\ Busy(c, "copying") /\ disk[p] # None
  /\ \E f \in Outcome(c, disk[p]) : history' = [history EXCEPT ![k] = f]
  /\ undo' = (IF call[c].alone THEN undo ELSE [undo EXCEPT ![p] = None])
  /\ call' = [Disturbed(c, Of(k)) EXCEPT ![c].at = "copied"]
  /\ UNCHANGED << disk, now, replaced, lost, bounds >>

\* What the write of c replaces, and what it leaves without a copy.
Replaces(c) ==
  LET p == call[c].path r == <<p, disk[p], call[c].key>> IN
  /\ replaced' = replaced \cup {r}
  /\ lost' = (IF call[c].intact THEN lost \ {r} ELSE lost \cup {r})
  /\ undo' = [undo EXCEPT ![p] = IF call[c].alone THEN disk[p] ELSE None]

\* A bug WriteBegins could have: the copy is not waited for.
WriteBeginsEarly(c) ==
  LET p == call[c].path IN
  /\ Busy(c, "copied") \/ Busy(c, "copying")
  /\ disk' = [disk EXCEPT ![p] = Torn]
  /\ call' = Begins(c, "writing", On(p))
  /\ Replaces(c)
  /\ UNCHANGED << history, now, bounds >>

\* writeFile opens, and empties, the file.
WriteBegins(c) ==
  LET p == call[c].path IN
  /\ Busy(c, "copied")
  /\ disk' = [disk EXCEPT ![p] = Torn]
  /\ call' = Begins(c, "writing", On(p))
  /\ Replaces(c)
  /\ UNCHANGED << history, now, bounds >>

WriteEnds(c) ==
  LET p == call[c].path IN
  /\ Busy(c, "writing")
  /\ \E f \in Outcome(c, call[c].value) : disk' = [disk EXCEPT ![p] = f]
  /\ call' = [Disturbed(c, On(p)) EXCEPT ![c] = Resting]
  /\ UNCHANGED << history, now, ghosts, bounds >>

(***************************************************************************)
(* rewindFile.                                                             *)
(***************************************************************************)
\* The checkpoints a request for p answers to: the names are only compared
\* from their end.
Candidates(p) == {k \in Keys : history[k] # None /\ k[2] \in Answers[p]}

\* A bug Newest could have: the names are sorted and the first is taken.
Oldest(keys) == {k \in keys : \A l \in keys : k[1] <= l[1]}

\* Sorted by name, so by time first.
Newest(keys) == {k \in keys : \A l \in keys : l[1] <= k[1]}

\* readdir; a request without a checkpoint is refused.
Rewind(c, p) ==
  /\ Busy(c, "idle") /\ calls < MaxCalls
  /\ calls' = calls + 1
  /\ \E k \in Newest(Candidates(p)) :
       call' = [call EXCEPT ![c] = [Resting EXCEPT !.at = "found", !.path = p, !.key = k]]
  /\ UNCHANGED << disk, history, now, ghosts, faults >>

RestoreBegins(c) ==
  LET p == call[c].path IN
  /\ Busy(c, "found")
  /\ disk' = [disk EXCEPT ![p] = Torn]
  /\ call' = Begins(c, "restoring", On(p))
  /\ UNCHANGED << history, now, ghosts, bounds >>

RestoreEnds(c) ==
  LET p == call[c].path IN
  /\ Busy(c, "restoring")
  /\ \E f \in Outcome(c, history[call[c].key]) : disk' = [disk EXCEPT ![p] = f]
  /\ call' = [Disturbed(c, On(p)) EXCEPT ![c] = Resting]
  /\ UNCHANGED << history, now, ghosts, bounds >>

(***************************************************************************)
(* Any step of either may fail: the call ends, what it did stays.          *)
(***************************************************************************)
Fails(c) ==
  /\ ~Busy(c, "idle")
  /\ call' = [call EXCEPT ![c] = Resting]
  /\ UNCHANGED << disk, history, now, ghosts, bounds >>

Crash ==
  /\ faults < MaxFaults /\ faults' = faults + 1
  /\ \E c \in Callers : ~Busy(c, "idle")
  /\ call' = [c \in Callers |-> Resting]
  /\ UNCHANGED << disk, history, now, ghosts, calls >>

Edit(p) ==
  /\ faults < MaxFaults /\ faults' = faults + 1
  /\ \E v \in (Values \cup {None}) \ {disk[p]} : disk' = [disk EXCEPT ![p] = v]
  /\ call' = [c \in Callers |->
                IF c \in On(p) THEN [call[c] EXCEPT !.alone = FALSE, !.intact = FALSE] ELSE call[c]]
  /\ UNCHANGED << history, now, ghosts, calls >>

Tick == now < MaxTime /\ now' = now + 1 /\ UNCHANGED << disk, history, call, ghosts, bounds >>

Next ==
  \/ Crash \/ Tick
  \/ \E p \in Paths :
       \/ Edit(p)
       \/ \E c \in Callers : Rewind(c, p) \/ \E v \in Values : Write(c, p, v)
  \/ \E c \in Callers :
       \/ CopyBegins(c) \/ CopyEnds(c) \/ WriteBegins(c) \/ WriteEnds(c)
       \/ RestoreBegins(c) \/ RestoreEnds(c) \/ Fails(c)

Spec == Init /\ [][Next]_vars
-----------------------------------------------------------------------------
\* What a write replaced is in its own checkpoint from the moment the file is
\* emptied, through every failure and crash after it (write-file.ts:71-79 copies
\* before it writes). Two writes lose it, and are those of lost: one whose file
\* somebody else wrote to while it was copied or later, or, when it found none,
\* after it looked, since nothing is looked at again before the write; and one
\* whose checkpoint is written to by a write of a file of the same name in the
\* same millisecond.
Recoverable ==
  TypeOK /\ \A r \in replaced \ lost : r[2] = None \/ history[r[3]] = r[2]

\* The names of no other file end as this one's does.
Unaliased(p) == \A q \in Paths \ {p} : Name[q] \notin Answers[p]

\* A rewind that nobody disturbs brings back what the latest write of the file
\* replaced (checkpoints.ts:22), also when that write was cut short, and also
\* the second time; said of files whose names are not mistaken for another's,
\* and while nobody else used the file during the latest write.
RewindReverts ==
  [][\A c \in Callers :
       LET p == call[c].path IN
       RestoreEnds(c) /\ call[c].alone /\ undo[p] # None /\ Unaliased(p) =>
         disk'[p] = undo[p]]_vars
=============================================================================
