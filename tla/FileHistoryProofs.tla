------------------------- MODULE FileHistoryProofs -------------------------
(***************************************************************************)
(* Proofs about FileHistory: for any files, names, callers and faults, what *)
(* a write replaced stays in its checkpoint, and an undisturbed rewind     *)
(* brings it back.                                                         *)
(***************************************************************************)
EXTENDS FileHistory, TLAPS

\* The checkpoint k holds v and nobody is writing to it.
Saved(k, v) == history[k] = v /\ \A d \in Callers : Busy(d, "copying") => call[d].key # k

\* No checkpoint of p's name is newer than k.
Latest(k, p) == \A l \in Keys : l[2] = Name[p] /\ history[l] # None => l[1] <= k[1]

Checkpointing == {"probed", "copying", "copied"}

\* A call's checkpoint: its name and time, and what is in it.
Kept(r) ==
  /\ r.at \in Checkpointing => r.key[2] = Name[r.path]
  /\ r.key[1] <= now
  /\ r.at = "copying" => history[r.key] # None
  /\ r.at = "copied" /\ r.intact /\ disk[r.path] # None => Saved(r.key, disk[r.path])

\* What a call that nobody has disturbed knows of its file, whose name is no
\* other's: its checkpoint is the newest, and what it restores is what the
\* latest write replaced.
Alone(r) ==
  r.alone /\ Unaliased(r.path) =>
    /\ r.at \in {"copying", "restoring"} => r.intact
    /\ r.at \in Checkpointing => Latest(r.key, r.path)
    /\ r.at = "copying" => undo[r.path] = None
    /\ r.at = "copied" /\ disk[r.path] # None => history[r.key] = disk[r.path]
    /\ r.at \in {"found", "restoring"} =>
         /\ r.key[2] = Name[r.path]
         /\ undo[r.path] # None => history[r.key] = undo[r.path]

KeysInv ==
  /\ \A k \in Keys : history[k] # None => k[1] <= now /\ \E q \in Paths : k[2] = Name[q]
  /\ \A c, d \in Callers :
       Busy(c, "copying") /\ Busy(d, "copying") /\ call[c].key = call[d].key /\ c # d =>
         ~call[c].intact

KeptInv == \A r \in replaced \ lost : r[2] = None \/ Saved(r[3], r[2])

UndoInv ==
  \A p \in Paths :
    Unaliased(p) /\ undo[p] # None =>
      \E k \in Keys : k[2] = Name[p] /\ history[k] = undo[p] /\ Latest(k, p)

IInv ==
  /\ TypeOK /\ KeysInv /\ KeptInv /\ UndoInv
  /\ \A c \in Callers : Kept(call[c]) /\ Alone(call[c])

-----------------------------------------------------------------------------
\* A key is a time and a name.
LEMMA KeyParts ==
  /\ \A k \in Keys : k[1] \in 0..MaxTime /\ k[2] \in Names /\ k = <<k[1], k[2]>>
  /\ \A t \in 0..MaxTime, n \in Names : <<t, n>> \in Keys
  BY DEF Keys

\* A name that ends as an unaliased file's does is that file's.
LEMMA OwnName ==
  ASSUME NEW p \in Paths, Unaliased(p), NEW q \in Paths, Name[q] \in Answers[p]
  PROVE  q = p
  BY DEF Unaliased

\* Two unlike files, one of them unaliased, have unlike names.
LEMMA OtherName ==
  ASSUME NEW p \in Paths, Unaliased(p), NEW q \in Paths, q # p
  PROVE  Name[q] # Name[p]
  BY OwnName, FileHistoryAssumption

LEMMA RestingType ==
  /\ Resting \in Call /\ Resting.at = "idle" /\ Resting.key[1] = 0
  /\ Resting.alone /\ Resting.intact /\ Resting.value = None
<1>1. (CHOOSE p \in Paths : TRUE) \in Paths
  BY FileHistoryAssumption
<1>2. \E n \in Names : TRUE
  BY FileHistoryAssumption
<1>3. (CHOOSE n \in Names : TRUE) \in Names
  BY <1>2
<1>4. Resting.key = <<0, CHOOSE n \in Names : TRUE>> /\ Resting.at = "idle"
  BY DEF Resting
<1>5. Resting.key \in Keys
  BY <1>3, <1>4, KeyParts, FileHistoryAssumption
<1> QED  BY <1>1, <1>4, <1>5 DEF Resting, Call

LEMMA InitInv == Init => IInv
<1> SUFFICES ASSUME Init PROVE IInv
  OBVIOUS
<1>1. TypeOK
  BY RestingType, FileHistoryAssumption DEF Init, TypeOK, Files
<1>2. \A c \in Callers : call[c].at = "idle" /\ call[c].key[1] = 0
  BY RestingType DEF Init
<1>3. \A k \in Keys : history[k] = None
  BY DEF Init
<1>4. KeysInv
  BY <1>2, <1>3 DEF KeysInv, Busy
<1>5. KeptInv /\ UndoInv
  BY DEF Init, KeptInv, UndoInv
<1>6. \A c \in Callers : Kept(call[c]) /\ Alone(call[c])
  BY <1>2 DEF Kept, Alone, Checkpointing, Init
<1> QED  BY <1>1, <1>4, <1>5, <1>6 DEF IInv

-----------------------------------------------------------------------------
(***************************************************************************)
(* Type correctness.                                                       *)
(***************************************************************************)
\* c used its file: the others stay where they are.
LEMMA DisturbedIs ==
  ASSUME call \in [Callers -> Call], NEW c \in Callers, NEW broken, NEW d \in Callers
  PROVE  /\ Disturbed(c, broken) \in [Callers -> Call]
         /\ Disturbed(c, broken)[c] = call[c]
         /\ Disturbed(c, broken)[d].at = call[d].at /\ Disturbed(c, broken)[d].path = call[d].path
         /\ Disturbed(c, broken)[d].key = call[d].key
         /\ d # c => /\ Disturbed(c, broken)[d].alone = (call[d].alone /\ d \notin On(call[c].path))
                     /\ Disturbed(c, broken)[d].intact = (call[d].intact /\ d \notin broken)
<1> DEFINE q(e) == [call[e] EXCEPT !.alone = @ /\ e \notin On(call[c].path),
                                  !.intact = @ /\ e \notin broken]
<1>1. \A e \in Callers :
        /\ q(e) \in Call /\ q(e).at = call[e].at /\ q(e).path = call[e].path /\ q(e).key = call[e].key
        /\ q(e).alone = (call[e].alone /\ e \notin On(call[c].path))
        /\ q(e).intact = (call[e].intact /\ e \notin broken)
  BY DEF Call
<1>2. \A e \in Callers : Disturbed(c, broken)[e] = IF e = c THEN call[c] ELSE q(e)
  BY DEF Disturbed
<1>3. Disturbed(c, broken) = [e \in Callers |-> Disturbed(c, broken)[e]]
  BY DEF Disturbed
<1> HIDE DEF q
<1>4. \A e \in Callers : Disturbed(c, broken)[e] \in Call
  BY <1>1, <1>2
<1>5. Disturbed(c, broken) \in [Callers -> Call]
  BY <1>3, <1>4
<1> QED  BY <1>1, <1>2, <1>5

\* c opens what it is to write to.
LEMMA BeginsIs ==
  ASSUME call \in [Callers -> Call], NEW c \in Callers, NEW broken,
         NEW at \in {"copying", "writing", "restoring"}
  PROVE  /\ Begins(c, at, broken) \in [Callers -> Call]
         /\ \A d \in Callers : d # c => Begins(c, at, broken)[d] = Disturbed(c, broken)[d]
         /\ Begins(c, at, broken)[c].at = at /\ Begins(c, at, broken)[c].path = call[c].path
         /\ Begins(c, at, broken)[c].key = call[c].key
         /\ Begins(c, at, broken)[c].alone = (call[c].alone /\ Quiet(c))
         /\ Begins(c, at, broken)[c].intact = Quiet(c)
<1> DEFINE q == [call[c] EXCEPT !.at = at, !.alone = @ /\ Quiet(c), !.intact = Quiet(c)]
<1>1. Quiet(c) \in BOOLEAN
  BY DEF Quiet
<1>2. /\ q \in Call /\ q.at = at /\ q.path = call[c].path /\ q.key = call[c].key
      /\ q.alone = (call[c].alone /\ Quiet(c)) /\ q.intact = Quiet(c)
  BY <1>1 DEF Call
<1>3. Disturbed(c, broken) \in [Callers -> Call] /\ Disturbed(c, broken)[c] = call[c]
  BY DisturbedIs
<1>4. Begins(c, at, broken) = [Disturbed(c, broken) EXCEPT ![c] = q]
  BY <1>3 DEF Begins
<1> HIDE DEF q
<1> QED  BY <1>2, <1>3, <1>4

LEMMA TypeStep == TypeOK /\ [Next]_vars => TypeOK'
<1> SUFFICES ASSUME TypeOK, [Next]_vars PROVE TypeOK'
  OBVIOUS
<1> USE DEF ghosts, bounds
<1>a. call \in [Callers -> Call]
  BY DEF TypeOK
<1>b. \A c \in Callers : call[c].path \in Paths /\ call[c].key \in Keys
  BY <1>a DEF Call
<1>c. \A c \in Callers, f \in Files : Outcome(c, f) \subseteq Files
  BY DEF Outcome, Files
<1>d. ASSUME NEW c \in Callers, NEW at \in {"copying", "writing", "restoring"}, NEW broken
      PROVE  Begins(c, at, broken) \in [Callers -> Call]
  BY <1>a, BeginsIs
<1>e. ASSUME NEW c \in Callers, NEW broken
      PROVE  /\ [Disturbed(c, broken) EXCEPT ![c] = Resting] \in [Callers -> Call]
             /\ [Disturbed(c, broken) EXCEPT ![c].at = "copied"] \in [Callers -> Call]
  <2>1. Disturbed(c, broken) \in [Callers -> Call]
    BY <1>a, DisturbedIs
  <2>2. [Disturbed(c, broken)[c] EXCEPT !.at = "copied"] \in Call
    BY <2>1 DEF Call
  <2> QED  BY <2>1, <2>2, RestingType
<1>1. CASE Crash
  BY <1>1, RestingType, FileHistoryAssumption DEF Crash, TypeOK
<1>2. CASE Tick
  BY <1>2, FileHistoryAssumption DEF Tick, TypeOK
<1>3. ASSUME NEW p \in Paths, Edit(p) PROVE TypeOK'
  <2>1. \A c \in Callers : [call[c] EXCEPT !.alone = FALSE, !.intact = FALSE] \in Call
    BY <1>a DEF Call
  <2>2. call' \in [Callers -> Call]
    BY <1>a, <1>3, <2>1 DEF Edit
  <2>3. disk' \in [Paths -> Files]
    <3>1. PICK v \in Values \cup {None} : disk' = [disk EXCEPT ![p] = v]
      BY <1>3 DEF Edit
    <3> QED  BY <3>1 DEF TypeOK, Files
  <2>4. /\ UNCHANGED << history, now, undo, replaced, lost, calls >>
        /\ faults < MaxFaults /\ faults' = faults + 1
    BY <1>3 DEF Edit
  <2> QED  BY <2>2, <2>3, <2>4, FileHistoryAssumption DEF TypeOK
<1>4. ASSUME NEW p \in Paths, NEW c \in Callers, Rewind(c, p) PROVE TypeOK'
  <2>1. PICK k \in Newest(Candidates(p)) :
          call' = [call EXCEPT ![c] = [Resting EXCEPT !.at = "found", !.path = p, !.key = k]]
    BY <1>4 DEF Rewind
  <2>2. k \in Keys
    BY DEF Newest, Candidates
  <2>3. [Resting EXCEPT !.at = "found", !.path = p, !.key = k] \in Call
    BY <2>2, RestingType DEF Call
  <2>4. call' \in [Callers -> Call]
    BY <1>a, <2>1, <2>3
  <2> QED  BY <1>4, <2>4, FileHistoryAssumption DEF Rewind, TypeOK
<1>5. ASSUME NEW p \in Paths, NEW c \in Callers, NEW v \in Values, Write(c, p, v) PROVE TypeOK'
  <2>1. <<now, Name[p]>> \in Keys
    BY KeyParts, FileHistoryAssumption DEF TypeOK
  <2>2. [at |-> IF disk[p] = None THEN "copied" ELSE "probed", path |-> p, value |-> v,
         key |-> <<now, Name[p]>>, alone |-> TRUE, intact |-> TRUE] \in Call
    BY <2>1 DEF Call
  <2>3. call' \in [Callers -> Call]
    BY <1>a, <1>5, <2>2 DEF Write
  <2> QED  BY <1>5, <2>3, FileHistoryAssumption DEF Write, TypeOK
<1>6. ASSUME NEW c \in Callers, CopyBegins(c) PROVE TypeOK'
  <2>1. call' \in [Callers -> Call]
    BY <1>6, <1>d DEF CopyBegins
  <2>2. history' \in [Keys -> Files] /\ undo' \in [Paths -> Files] /\ lost' \subseteq replaced
    BY <1>6, <1>b DEF CopyBegins, TypeOK, Files
  <2> QED  BY <1>6, <2>1, <2>2 DEF CopyBegins, TypeOK
<1>7. ASSUME NEW c \in Callers, CopyEnds(c) PROVE TypeOK'
  <2>1. call' \in [Callers -> Call]
    BY <1>7, <1>e DEF CopyEnds
  <2>2. PICK f \in Outcome(c, disk[call[c].path]) :
          history' = [history EXCEPT ![call[c].key] = f]
    BY <1>7 DEF CopyEnds
  <2>3. f \in Files
    BY <1>b, <1>c DEF TypeOK
  <2>4. history' \in [Keys -> Files]
    BY <2>2, <2>3, <1>b DEF TypeOK
  <2>5. undo' \in [Paths -> Files]
    BY <1>7, <1>b DEF CopyEnds, TypeOK, Files
  <2> QED  BY <1>7, <2>1, <2>4, <2>5 DEF CopyEnds, TypeOK
<1>8. ASSUME NEW c \in Callers, WriteBegins(c) PROVE TypeOK'
  <2>1. call' \in [Callers -> Call]
    BY <1>8, <1>d DEF WriteBegins
  <2>2. disk[call[c].path] \in Files /\ Torn \in Files /\ None \in Files
    BY <1>b DEF TypeOK, Files
  <2>3. disk' \in [Paths -> Files]
    BY <1>8, <2>2 DEF WriteBegins, TypeOK
  <2>4. replaced' \subseteq Paths \X Files \X Keys /\ lost' \subseteq replaced'
    BY <1>8, <1>b, <2>2 DEF WriteBegins, Replaces, TypeOK
  <2>5. undo' \in [Paths -> Files]
    BY <1>8, <2>2 DEF WriteBegins, Replaces, TypeOK
  <2> QED  BY <1>8, <2>1, <2>3, <2>4, <2>5 DEF WriteBegins, TypeOK
<1>9. ASSUME NEW c \in Callers, WriteEnds(c) PROVE TypeOK'
  <2>1. call' \in [Callers -> Call]
    BY <1>9, <1>e DEF WriteEnds
  <2>2. call[c].value \in Files
    BY <1>a DEF Call, Files
  <2>3. Outcome(c, call[c].value) \subseteq Files
    BY <2>2, <1>c
  <2>4. disk' \in [Paths -> Files]
    BY <1>9, <2>3 DEF WriteEnds, TypeOK
  <2> QED  BY <1>9, <2>1, <2>4 DEF WriteEnds, TypeOK
<1>10. ASSUME NEW c \in Callers, RestoreBegins(c) PROVE TypeOK'
  <2>1. call' \in [Callers -> Call]
    BY <1>10, <1>d DEF RestoreBegins
  <2>2. disk' \in [Paths -> Files]
    BY <1>10 DEF RestoreBegins, TypeOK, Files
  <2> QED  BY <1>10, <2>1, <2>2 DEF RestoreBegins, TypeOK
<1>11. ASSUME NEW c \in Callers, RestoreEnds(c) PROVE TypeOK'
  <2>1. call' \in [Callers -> Call]
    BY <1>11, <1>e DEF RestoreEnds
  <2>2. history[call[c].key] \in Files
    BY <1>b DEF TypeOK
  <2>3. Outcome(c, history[call[c].key]) \subseteq Files
    BY <2>2, <1>c
  <2>4. disk' \in [Paths -> Files]
    BY <1>11, <2>3 DEF RestoreEnds, TypeOK
  <2> QED  BY <1>11, <2>1, <2>4 DEF RestoreEnds, TypeOK
<1>12. ASSUME NEW c \in Callers, Fails(c) PROVE TypeOK'
  BY <1>12, <1>a, RestingType DEF Fails, TypeOK
<1>13. CASE UNCHANGED vars
  BY <1>13 DEF vars, TypeOK
<1> QED  BY <1>1, <1>2, <1>3, <1>4, <1>5, <1>6, <1>7, <1>8, <1>9, <1>10, <1>11, <1>12, <1>13
         DEF Next

-----------------------------------------------------------------------------
(***************************************************************************)
(* Steps that leave the checkpoints as they are.                           *)
(***************************************************************************)
\* What a step may do to the call d, and to the file d is on, and leave what d
\* knows true: d ends, goes on to write the file, or keeps its key; and when it
\* still counts as alone, nobody else has used the file, and as intact, nobody
\* has written to it.
Carried(d) ==
  /\ call'[d].at # "idle" => call'[d].path = call[d].path /\ call'[d].key = call[d].key
  /\ call'[d].at = "idle" => call'[d].key[1] <= now'
  /\ \/ call'[d].at \in {"idle", "writing", call[d].at}
     \/ call[d].at = "found" /\ call'[d].at = "restoring"
  /\ call'[d].at \notin {"idle", "writing"} /\ call'[d].alone =>
       /\ call[d].alone /\ undo'[call[d].path] = undo[call[d].path]
       /\ call'[d].at = "copied" => disk'[call[d].path] = disk[call[d].path]
       /\ call'[d].intact \/ (~call[d].intact /\ call'[d].at = call[d].at)
  /\ call'[d].at \in {"copying", "copied"} /\ call'[d].intact =>
       call[d].intact /\ disk'[call[d].path] = disk[call[d].path]

\* What is saved stays saved while nobody begins a copy.
LEMMA StillSaved ==
  ASSUME history' = history, \A d \in Callers : Carried(d),
         NEW k, NEW v, Saved(k, v)
  PROVE  Saved(k, v)'
<1>1. \A d \in Callers : call'[d].at = "copying" => Busy(d, "copying") /\ call'[d].key = call[d].key
  BY DEF Carried, Busy
<1> QED  BY <1>1 DEF Saved, Busy

LEMMA CarriedTrue ==
  ASSUME IInv, TypeOK', history' = history, now <= now',
         \A d \in Callers : Carried(d), NEW c \in Callers
  PROVE  Kept(call[c])' /\ Alone(call[c])'
<1>1. call[c] \in Call /\ call'[c] \in Call /\ now \in Nat /\ now' \in Nat
  BY DEF IInv, TypeOK
<1>2. call[c].key[1] \in Nat /\ call'[c].key[1] \in Nat
  BY <1>1, KeyParts DEF Call
<1>3. Carried(c) /\ Kept(call[c]) /\ Alone(call[c])
  BY DEF IInv
<1>4. CASE call'[c].at = "idle"
  BY <1>3, <1>4 DEF Carried, Kept, Alone, Checkpointing
<1>5. CASE call'[c].at = "writing"
  <2>1. call'[c].key = call[c].key /\ call[c].key[1] <= now
    BY <1>3, <1>5 DEF Carried, Kept
  <2>2. call'[c].key[1] <= now'
    BY <2>1, <1>1, <1>2
  <2> QED  BY <1>5, <2>2 DEF Kept, Alone, Checkpointing
<1>6. CASE call'[c].at \notin {"idle", "writing"}
  <2>1. /\ call'[c].path = call[c].path /\ call'[c].key = call[c].key
        /\ call[c].key[1] <= now
    BY <1>3, <1>6 DEF Carried, Kept
  <2>2. call'[c].key[1] <= now'
    BY <2>1, <1>1, <1>2
  <2>3. \/ call'[c].at = call[c].at
        \/ call[c].at = "found" /\ call'[c].at = "restoring"
    BY <1>3, <1>6 DEF Carried
  <2>4. call'[c].at \in Checkpointing => call[c].at = call'[c].at
    BY <2>3 DEF Checkpointing
  <2>5. call'[c].alone =>
          /\ call[c].alone /\ undo'[call[c].path] = undo[call[c].path]
          /\ call'[c].at = "copied" => disk'[call[c].path] = disk[call[c].path]
          /\ call'[c].intact \/ (~call[c].intact /\ call'[c].at = call[c].at)
    BY <1>3, <1>6 DEF Carried
  <2>6. Kept(call[c])'
    <3>1. call'[c].at \in Checkpointing => call'[c].key[2] = Name[call'[c].path]
      BY <1>3, <2>1, <2>4 DEF Kept
    <3>2. call'[c].at = "copying" => history'[call'[c].key] # None
      BY <1>3, <2>1, <2>4 DEF Kept, Checkpointing
    <3>3. ASSUME call'[c].at = "copied", call'[c].intact, disk'[call'[c].path] # None
          PROVE  Saved(call[c].key, disk[call[c].path])'
      <4>1. PICK k, v : k = call[c].key /\ v = disk[call[c].path]
        OBVIOUS
      <4>2. k = call'[c].key /\ v = disk'[call'[c].path]
        BY <1>3, <2>1, <3>3, <4>1 DEF Carried
      <4>3. Saved(k, v)
        <5>1. call[c].at = "copied" /\ call[c].intact
          BY <1>3, <2>4, <3>3 DEF Carried, Checkpointing
        <5> QED  BY <1>3, <2>1, <3>3, <4>1, <4>2, <5>1 DEF Kept, Saved
      <4>4. Saved(k, v)'
        BY <4>3, StillSaved
      <4> QED  BY <4>2, <4>4 DEF Saved
    <3> QED  BY <2>2, <3>1, <3>2, <3>3 DEF Kept
  <2>7. Alone(call[c])'
    <3>1. SUFFICES ASSUME call'[c].alone, Unaliased(call'[c].path)
                   PROVE  Alone(call[c])'
      BY DEF Alone, Unaliased
    <3>2. call[c].alone /\ Unaliased(call[c].path)
      BY <3>1, <2>1, <2>5
    <3> QED  BY <1>3, <2>1, <2>3, <2>5, <3>2 DEF Alone, Latest, Unaliased, Checkpointing
  <2> QED  BY <2>6, <2>7
<1> QED  BY <1>4, <1>5, <1>6

\* The invariant of the keys, which no such step touches.
LEMMA CarriedKeys ==
  ASSUME IInv, TypeOK', history' = history, now <= now',
         \A d \in Callers : Carried(d)
  PROVE  KeysInv'
<1>1. now \in Nat /\ now' \in Nat /\ KeysInv
  BY DEF IInv, TypeOK
<1>2. \A k \in Keys : history'[k] # None => k[1] <= now' /\ \E q \in Paths : k[2] = Name[q]
  BY <1>1, KeyParts DEF KeysInv
<1>3. \A d \in Callers : call'[d].at = "copying" =>
        /\ Busy(d, "copying") /\ call'[d].key = call[d].key
        /\ call'[d].intact => call[d].intact
  BY DEF Carried, Busy
<1> QED  BY <1>1, <1>2, <1>3 DEF KeysInv, Busy

\* A step that leaves also the two histories of the writes as they are.
LEMMA QuietStep ==
  ASSUME IInv, TypeOK', history' = history, now <= now',
         undo' = undo, replaced' = replaced, lost' = lost, \A d \in Callers : Carried(d)
  PROVE  IInv'
<1>1. KeysInv' /\ \A c \in Callers : Kept(call[c])' /\ Alone(call[c])'
  BY CarriedTrue, CarriedKeys
<1>2. KeptInv'
  <2>1. \A k, v : Saved(k, v) => Saved(k, v)'
    BY StillSaved
  <2> QED  BY <2>1 DEF IInv, KeptInv
<1>3. UndoInv'
  BY DEF IInv, UndoInv, Latest, Unaliased
<1> QED  BY <1>1, <1>2, <1>3 DEF IInv

\* Somebody else wrote to the file it is on, and to no other.
LEMMA DisturbedCarried ==
  ASSUME IInv, NEW c \in Callers, NEW d \in Callers, d # c,
         call'[d] = Disturbed(c, On(call[c].path))[d], now' = now,
         \A q \in Paths : q # call[c].path => disk'[q] = disk[q] /\ undo'[q] = undo[q]
  PROVE  Carried(d)
<1> DEFINE p == call[c].path
<1>1. /\ call \in [Callers -> Call] /\ call[d] \in Call /\ call[d].path \in Paths
      /\ Kept(call[d])
  BY DEF IInv, TypeOK, Call
<1>2. call[d].key[1] <= now'
  BY <1>1 DEF Kept
<1>3. /\ call'[d].at = call[d].at /\ call'[d].path = call[d].path /\ call'[d].key = call[d].key
      /\ call'[d].alone = (call[d].alone /\ d \notin On(p))
      /\ call'[d].intact = (call[d].intact /\ d \notin On(p))
  BY <1>1, DisturbedIs
<1>4. call[d].at # "idle" /\ d \notin On(p) => call[d].path # p
  BY DEF On, Busy
<1>5. CASE call[d].at = "idle"
  BY <1>2, <1>3, <1>5 DEF Carried
<1>6. CASE call[d].at # "idle" /\ d \in On(p)
  BY <1>3, <1>6 DEF Carried
<1>7. CASE call[d].at # "idle" /\ d \notin On(p)
  <2>1. disk'[call[d].path] = disk[call[d].path] /\ undo'[call[d].path] = undo[call[d].path]
    BY <1>1, <1>4, <1>7
  <2> QED  BY <1>3, <1>7, <2>1 DEF Carried
<1> QED  BY <1>5, <1>6, <1>7

\* A call that a step leaves alone, and its file with it.
LEMMA SameCarried ==
  ASSUME IInv, TypeOK', NEW d \in Callers, call'[d] = call[d], now <= now', undo' = undo, disk' = disk
  PROVE  Carried(d)
<1>1. call[d] \in Call /\ Kept(call[d]) /\ now \in Nat /\ now' \in Nat
  BY DEF IInv, TypeOK
<1>2. call[d].key[1] \in Nat /\ call[d].key[1] <= now
  BY <1>1, KeyParts DEF Call, Kept
<1>3. call[d].key[1] <= now'
  BY <1>1, <1>2
<1> QED  BY <1>3 DEF Carried

\* A call that ends.
LEMMA RestingCarried ==
  ASSUME TypeOK', NEW d \in Callers, call'[d] = Resting
  PROVE  Carried(d)
<1>1. now' \in Nat
  BY DEF TypeOK
<1> QED  BY <1>1, RestingType DEF Carried

-----------------------------------------------------------------------------
(***************************************************************************)
(* The quiet steps.                                                        *)
(***************************************************************************)
LEMMA CrashStep == IInv /\ TypeOK' /\ Crash => IInv'
<1> SUFFICES ASSUME IInv, TypeOK', Crash PROVE IInv'
  OBVIOUS
<1>1. /\ history' = history /\ undo' = undo /\ replaced' = replaced /\ lost' = lost /\ now' = now
      /\ \A d \in Callers : call'[d] = Resting
  BY DEF Crash, ghosts
<1>2. now <= now'
  BY <1>1 DEF IInv, TypeOK
<1> QED  BY <1>1, <1>2, RestingCarried, QuietStep

LEMMA TickStep == IInv /\ TypeOK' /\ Tick => IInv'
<1> SUFFICES ASSUME IInv, TypeOK', Tick PROVE IInv'
  OBVIOUS
<1>1. /\ history' = history /\ undo' = undo /\ replaced' = replaced /\ lost' = lost
      /\ call' = call /\ disk' = disk
  BY DEF Tick, ghosts
<1>2. now <= now'
  BY DEF Tick, IInv, TypeOK
<1> QED  BY <1>1, <1>2, SameCarried, QuietStep

LEMMA EditStep == ASSUME NEW p \in Paths PROVE IInv /\ TypeOK' /\ Edit(p) => IInv'
<1> SUFFICES ASSUME IInv, TypeOK', Edit(p) PROVE IInv'
  OBVIOUS
<1>1. /\ history' = history /\ undo' = undo /\ replaced' = replaced /\ lost' = lost /\ now' = now
      /\ \A q \in Paths : q # p => disk'[q] = disk[q]
  BY DEF Edit, ghosts, IInv, TypeOK
<1>2. now <= now'
  BY <1>1 DEF IInv, TypeOK
<1>3. ASSUME NEW d \in Callers PROVE Carried(d)
  <2>1. call[d] \in Call /\ call[d].path \in Paths /\ Kept(call[d])
    BY DEF IInv, TypeOK, Call
  <2>2. call[d].key[1] <= now'
    BY <1>1, <2>1 DEF Kept
  <2>3. CASE d \in On(p)
    <3>1. call'[d] = [call[d] EXCEPT !.alone = FALSE, !.intact = FALSE]
      BY <2>3 DEF Edit
    <3>2. /\ call'[d].at = call[d].at /\ call'[d].path = call[d].path
          /\ call'[d].key = call[d].key /\ ~call'[d].alone /\ ~call'[d].intact
      BY <2>1, <3>1 DEF Call
    <3> QED  BY <2>3, <3>2 DEF Carried, On, Busy
  <2>4. CASE d \notin On(p)
    <3>1. call'[d] = call[d] /\ (call[d].at = "idle" \/ call[d].path # p)
      BY <2>4 DEF Edit, On, Busy
    <3> QED  BY <1>1, <2>1, <2>2, <2>4, <3>1 DEF Carried
  <2> QED  BY <2>3, <2>4
<1> QED  BY <1>1, <1>2, <1>3, QuietStep

LEMMA FailsStep == ASSUME NEW c \in Callers PROVE IInv /\ TypeOK' /\ Fails(c) => IInv'
<1> SUFFICES ASSUME IInv, TypeOK', Fails(c) PROVE IInv'
  OBVIOUS
<1>1. /\ history' = history /\ undo' = undo /\ replaced' = replaced /\ lost' = lost /\ now' = now
      /\ disk' = disk /\ call'[c] = Resting /\ \A d \in Callers : d # c => call'[d] = call[d]
  BY DEF Fails, ghosts, IInv, TypeOK
<1>2. now <= now'
  BY <1>1 DEF IInv, TypeOK
<1>3. \A d \in Callers : Carried(d)
  BY <1>1, <1>2, SameCarried, RestingCarried
<1> QED  BY <1>1, <1>2, <1>3, QuietStep

\* What the ends of a write and of a restore have in common.
LEMMA EndStep ==
  ASSUME NEW c \in Callers PROVE IInv /\ TypeOK' /\ (WriteEnds(c) \/ RestoreEnds(c)) => IInv'
<1> SUFFICES ASSUME IInv, TypeOK', WriteEnds(c) \/ RestoreEnds(c) PROVE IInv'
  OBVIOUS
<1> DEFINE p == call[c].path
<1>a. p \in Paths /\ call \in [Callers -> Call]
  BY DEF IInv, TypeOK, Call
<1>1. /\ history' = history /\ undo' = undo /\ replaced' = replaced /\ lost' = lost /\ now' = now
      /\ call' = [Disturbed(c, On(p)) EXCEPT ![c] = Resting]
  BY DEF WriteEnds, RestoreEnds, ghosts
<1>2. \A q \in Paths : q # p => disk'[q] = disk[q]
  BY DEF WriteEnds, RestoreEnds, IInv, TypeOK
<1>3. Disturbed(c, On(p)) \in [Callers -> Call]
  BY <1>a, DisturbedIs
<1>4. call'[c] = Resting /\ \A d \in Callers : d # c => call'[d] = Disturbed(c, On(p))[d]
  BY <1>1, <1>3
<1>5. now <= now'
  BY <1>1 DEF IInv, TypeOK
<1>6. \A d \in Callers : Carried(d)
  BY <1>a, <1>1, <1>2, <1>4, DisturbedCarried, RestingCarried
<1> QED  BY <1>1, <1>5, <1>6, QuietStep

LEMMA RestoreBeginsStep ==
  ASSUME NEW c \in Callers PROVE IInv /\ TypeOK' /\ RestoreBegins(c) => IInv'
<1> SUFFICES ASSUME IInv, TypeOK', RestoreBegins(c) PROVE IInv'
  OBVIOUS
<1> DEFINE p == call[c].path
<1>a. p \in Paths /\ call \in [Callers -> Call] /\ call[c] \in Call
  BY DEF IInv, TypeOK, Call
<1>1. /\ history' = history /\ undo' = undo /\ replaced' = replaced /\ lost' = lost /\ now' = now
      /\ call' = Begins(c, "restoring", On(p)) /\ call[c].at = "found"
  BY DEF RestoreBegins, ghosts, Busy
<1>2. \A q \in Paths : q # p => disk'[q] = disk[q]
  BY DEF RestoreBegins, IInv, TypeOK
<1>3. /\ call'[c].at = "restoring" /\ call'[c].path = p /\ call'[c].key = call[c].key
      /\ call'[c].alone = (call[c].alone /\ Quiet(c)) /\ call'[c].intact = Quiet(c)
  BY <1>a, <1>1, BeginsIs
<1>4. \A d \in Callers : d # c => call'[d] = Disturbed(c, On(p))[d]
  BY <1>a, <1>1, BeginsIs
<1>5. now <= now'
  BY <1>1 DEF IInv, TypeOK
<1>6. Carried(c)
  BY <1>1, <1>3 DEF Carried
<1>7. \A d \in Callers : Carried(d)
  BY <1>a, <1>1, <1>2, <1>4, <1>6, DisturbedCarried
<1> QED  BY <1>1, <1>5, <1>7, QuietStep

-----------------------------------------------------------------------------
(***************************************************************************)
(* The steps that begin an operation, and the one that empties the file.   *)
(***************************************************************************)
\* What a new operation leaves alone: everything but its own call.
LEMMA FreshStep ==
  ASSUME IInv, TypeOK', NEW c \in Callers, call[c].at = "idle",
         history' = history, undo' = undo, replaced' = replaced, lost' = lost, now' = now,
         disk' = disk, \A d \in Callers : d # c => call'[d] = call[d],
         call'[c].at # "copying", Kept(call[c])' /\ Alone(call[c])'
  PROVE  IInv'
<1>1. KeysInv' /\ UndoInv'
  BY DEF IInv, KeysInv, UndoInv, Busy, Latest, Unaliased
<1>2. KeptInv'
  <2>1. ASSUME NEW k, NEW v, Saved(k, v) PROVE Saved(k, v)'
    BY <2>1 DEF Saved, Busy
  <2> QED  BY <2>1 DEF IInv, KeptInv
<1>3. ASSUME NEW d \in Callers, d # c PROVE Kept(call[d])' /\ Alone(call[d])'
  <2>1. call'[d] = call[d] /\ Kept(call[d]) /\ Alone(call[d])
    BY <1>3 DEF IInv
  <2>2. ASSUME NEW k, NEW v, Saved(k, v) PROVE Saved(k, v)'
    BY <2>2 DEF Saved, Busy
  <2>3. Kept(call[d])'
    <3>1. call[d].at = "copied" /\ call[d].intact /\ disk[call[d].path] # None =>
            Saved(call[d].key, disk[call[d].path])'
      <4>1. PICK k, v : k = call[d].key /\ v = disk[call[d].path]
        OBVIOUS
      <4>2. Saved(k, v) => Saved(k, v)'
        BY <2>2
      <4>3. k = call'[d].key /\ v = disk'[call'[d].path]
        BY <2>1, <4>1
      <4> QED  BY <2>1, <4>1, <4>2, <4>3 DEF Kept, Saved
    <3> QED  BY <2>1, <3>1 DEF Kept
  <2>4. Alone(call[d])'
    BY <2>1 DEF Alone, Latest, Unaliased
  <2> QED  BY <2>3, <2>4
<1> QED  BY <1>1, <1>2, <1>3 DEF IInv

\* A new checkpoint's time is the present, so no older one is newer.
LEMMA WriteStep ==
  ASSUME NEW c \in Callers, NEW p \in Paths, NEW v \in Values
  PROVE  IInv /\ TypeOK' /\ Write(c, p, v) => IInv'
<1> SUFFICES ASSUME IInv, TypeOK', Write(c, p, v) PROVE IInv'
  OBVIOUS
<1>1. /\ history' = history /\ undo' = undo /\ replaced' = replaced /\ lost' = lost /\ now' = now
      /\ disk' = disk /\ call[c].at = "idle" /\ call \in [Callers -> Call] /\ now \in Nat
  BY DEF Write, ghosts, Busy, IInv, TypeOK
<1>2. call' = [call EXCEPT ![c] =
                 [at |-> IF disk[p] = None THEN "copied" ELSE "probed", path |-> p, value |-> v,
                  key |-> <<now, Name[p]>>, alone |-> TRUE, intact |-> TRUE]]
  BY DEF Write
<1>3. /\ call'[c].at \in {"copied", "probed"} /\ (call'[c].at = "copied" => disk[p] = None)
      /\ call'[c].path = p /\ call'[c].key = <<now, Name[p]>>
      /\ \A d \in Callers : d # c => call'[d] = call[d]
  BY <1>1, <1>2
<1>4. Kept(call[c])'
  BY <1>1, <1>3 DEF Kept
<1>5. Latest(call[c].key, call[c].path)'
  BY <1>1, <1>3 DEF Latest, IInv, KeysInv
<1>6. Alone(call[c])'
  BY <1>1, <1>3, <1>5 DEF Alone, Checkpointing
<1> QED  BY <1>1, <1>3, <1>4, <1>6, FreshStep

\* The checkpoint a rewind finds is the one that holds what the latest write
\* replaced: both are the newest of the name.
LEMMA RewindStep ==
  ASSUME NEW c \in Callers, NEW p \in Paths
  PROVE  IInv /\ TypeOK' /\ Rewind(c, p) => IInv'
<1> SUFFICES ASSUME IInv, TypeOK', Rewind(c, p) PROVE IInv'
  OBVIOUS
<1>1. /\ history' = history /\ undo' = undo /\ replaced' = replaced /\ lost' = lost /\ now' = now
      /\ disk' = disk /\ call[c].at = "idle" /\ call \in [Callers -> Call] /\ now \in Nat
  BY DEF Rewind, ghosts, Busy, IInv, TypeOK
<1>2. PICK k \in Newest(Candidates(p)) :
        call' = [call EXCEPT ![c] = [Resting EXCEPT !.at = "found", !.path = p, !.key = k]]
  BY DEF Rewind
<1>3. k \in Keys /\ history[k] # None /\ k[2] \in Answers[p]
  BY <1>2 DEF Newest, Candidates
<1>4. \A l \in Keys : history[l] # None /\ l[2] \in Answers[p] => l[1] <= k[1]
  BY <1>2 DEF Newest, Candidates
<1>5. /\ call'[c].at = "found" /\ call'[c].path = p /\ call'[c].key = k
      /\ \A d \in Callers : d # c => call'[d] = call[d]
  BY <1>1, <1>2, RestingType DEF Call
<1>6. k[1] <= now /\ \E q \in Paths : k[2] = Name[q]
  BY <1>3 DEF IInv, KeysInv
<1>7. Kept(call[c])'
  BY <1>1, <1>5, <1>6 DEF Kept, Checkpointing
<1>8. ASSUME Unaliased(p) PROVE k[2] = Name[p] /\ (undo[p] # None => history[k] = undo[p])
  <2>1. k[2] = Name[p]
    BY <1>3, <1>6, <1>8, OwnName
  <2>2. ASSUME undo[p] # None PROVE history[k] = undo[p]
    <3>1. PICK l \in Keys : l[2] = Name[p] /\ history[l] = undo[p] /\ Latest(l, p)
      BY <1>8, <2>2 DEF IInv, UndoInv
    <3>2. l[1] <= k[1]
      BY <1>4, <2>2, <3>1, FileHistoryAssumption
    <3>3. k[1] <= l[1]
      BY <1>3, <2>1, <3>1 DEF Latest
    <3>4. l[1] = k[1]
      BY <1>3, <3>2, <3>3, KeyParts, FileHistoryAssumption
    <3>5. l = k
      BY <1>3, <2>1, <3>1, <3>4, KeyParts
    <3> QED  BY <3>1, <3>5
  <2> QED  BY <2>1, <2>2
<1>9. Alone(call[c])'
  BY <1>1, <1>5, <1>8 DEF Alone, Checkpointing, Unaliased
<1> QED  BY <1>1, <1>5, <1>7, <1>9, FreshStep

\* What a write replaces is in its checkpoint when the file is emptied.
LEMMA WriteBeginsStep ==
  ASSUME NEW c \in Callers PROVE IInv /\ TypeOK' /\ WriteBegins(c) => IInv'
<1> SUFFICES ASSUME IInv, TypeOK', WriteBegins(c) PROVE IInv'
  OBVIOUS
<1> DEFINE p == call[c].path
           k == call[c].key
<1>a. /\ p \in Paths /\ k \in Keys /\ call \in [Callers -> Call] /\ call[c] \in Call
      /\ Kept(call[c]) /\ Alone(call[c]) /\ now \in Nat /\ undo \in [Paths -> Files]
  BY DEF IInv, TypeOK, Call
<1>1. /\ history' = history /\ now' = now
      /\ call' = Begins(c, "writing", On(p)) /\ call[c].at = "copied"
      /\ replaced' = replaced \cup {<<p, disk[p], k>>}
      /\ lost' = (IF call[c].intact THEN lost \ {<<p, disk[p], k>>} ELSE lost \cup {<<p, disk[p], k>>})
      /\ undo' = [undo EXCEPT ![p] = IF call[c].alone THEN disk[p] ELSE None]
  BY DEF WriteBegins, Replaces, Busy
<1>2. \A q \in Paths : q # p => disk'[q] = disk[q] /\ undo'[q] = undo[q]
  BY <1>a, <1>1 DEF WriteBegins, IInv, TypeOK
<1>4. \A d \in Callers : d # c => call'[d] = Disturbed(c, On(p))[d]
  BY <1>a, <1>1, BeginsIs
<1>5. call'[c].at = "writing" /\ call'[c].path = p /\ call'[c].key = k
  BY <1>a, <1>1, BeginsIs
<1>6. Carried(c)
  BY <1>5 DEF Carried
<1>7. \A d \in Callers : Carried(d)
  BY <1>a, <1>1, <1>2, <1>4, <1>6, DisturbedCarried
<1>8. now <= now'
  BY <1>a, <1>1
<1>9. KeysInv' /\ \A d \in Callers : Kept(call[d])' /\ Alone(call[d])'
  BY <1>1, <1>7, <1>8, CarriedTrue, CarriedKeys
<1>10. KeptInv'
  <2>1. ASSUME NEW l, NEW v, Saved(l, v) PROVE Saved(l, v)'
    BY <1>1, <1>7, <2>1, StillSaved
  <2>2. ASSUME NEW r \in replaced \ lost PROVE r[2] = None \/ Saved(r[3], r[2])'
    <3>1. PICK l, v : l = r[3] /\ v = r[2]
      OBVIOUS
    <3>2. v = None \/ Saved(l, v)
      BY <3>1 DEF IInv, KeptInv
    <3>3. v = None \/ Saved(l, v)'
      BY <2>1, <3>2
    <3> QED  BY <3>1, <3>3 DEF Saved
  <2>3. ASSUME call[c].intact, disk[p] # None
        PROVE  \E l, v : l = k /\ v = disk[p] /\ Saved(l, v)'
    <3>1. Saved(k, disk[p])
      BY <1>a, <1>1, <2>3 DEF Kept
    <3>2. PICK l, v : l = k /\ v = disk[p]
      OBVIOUS
    <3>3. Saved(l, v)'
      BY <2>1, <3>1, <3>2
    <3> QED  BY <3>2, <3>3
  <2>4. ASSUME NEW r \in replaced' \ lost'
        PROVE  r \in replaced \ lost \/ (call[c].intact /\ r = <<p, disk[p], k>>)
    BY <1>1
  <2>5. ASSUME NEW r \in replaced' \ lost' PROVE r[2] = None \/ Saved(r[3], r[2])'
    <3>1. CASE r \in replaced \ lost
      BY <2>2, <3>1
    <3>2. CASE call[c].intact /\ r = <<p, disk[p], k>>
      BY <2>3, <3>2 DEF Saved
    <3> QED  BY <2>4, <3>1, <3>2
  <2> QED  BY <2>5 DEF KeptInv
<1>11. UndoInv'
  <2>1. ASSUME NEW q \in Paths, q # p, Unaliased(q), undo'[q] # None
        PROVE  \E l \in Keys : l[2] = Name[q] /\ history[l] = undo'[q] /\ Latest(l, q)
    BY <1>2, <2>1 DEF IInv, UndoInv
  <2>2. ASSUME Unaliased(p), undo'[p] # None
        PROVE  \E l \in Keys : l[2] = Name[p] /\ history[l] = undo'[p] /\ Latest(l, p)
    <3>1. call[c].alone /\ undo'[p] = disk[p]
      BY <1>a, <1>1, <2>2
    <3>2. k[2] = Name[p] /\ Latest(k, p) /\ history[k] = disk[p]
      BY <1>a, <1>1, <2>2, <3>1 DEF Alone, Kept, Checkpointing
    <3> QED  BY <1>a, <3>1, <3>2
  <2> QED  BY <1>1, <2>1, <2>2 DEF UndoInv, Latest, Unaliased
<1> QED  BY <1>9, <1>10, <1>11 DEF IInv

-----------------------------------------------------------------------------
(***************************************************************************)
(* The copy.                                                               *)
(***************************************************************************)
\* What the beginning and the end of a copy have in common: the checkpoint gets
\* something of its file's name, and whoever else is on the file is disturbed.
Copies(c, f) ==
  LET p == call[c].path k == call[c].key IN
  /\ call[c].at \in {"probed", "copying"} /\ f # None
  /\ history' = [history EXCEPT ![k] = f]
  /\ lost \subseteq lost' /\ replaced' = replaced
  /\ call[c].at = "probed" => \A r \in replaced : r[3] = k => r \in lost'
  /\ disk' = disk /\ now' = now
  /\ undo' = undo \/ undo' = [undo EXCEPT ![p] = None]
  /\ \A d \in Callers : d # c => call'[d] = Disturbed(c, Of(k))[d]
  /\ call'[c].at = IF call[c].at = "probed" THEN "copying" ELSE "copied"
  /\ call'[c].path = p /\ call'[c].key = k /\ (call'[c].alone => call[c].alone)

LEMMA CopyShape ==
  ASSUME NEW c \in Callers, IInv
  PROVE  /\ CopyBegins(c) => Copies(c, Torn)
         /\ CopyEnds(c) =>
              \E f \in Outcome(c, disk[call[c].path]) : Copies(c, f)
<1>0. call \in [Callers -> Call] /\ call[c] \in Call
  BY DEF IInv, TypeOK
<1>1. Torn # None
  BY DEF Torn, None
<1>2. ASSUME CopyBegins(c) PROVE Copies(c, Torn)
  <2>1. call' = Begins(c, "copying", Of(call[c].key))
    BY <1>2 DEF CopyBegins
  <2>2. /\ \A d \in Callers : d # c => call'[d] = Disturbed(c, Of(call[c].key))[d]
        /\ call'[c].at = "copying" /\ call'[c].path = call[c].path /\ call'[c].key = call[c].key
        /\ call'[c].alone = (call[c].alone /\ Quiet(c))
    BY <1>0, <2>1, BeginsIs
  <2> QED  BY <1>1, <1>2, <2>2 DEF CopyBegins, Copies, Busy, bounds
<1>3. ASSUME CopyEnds(c) PROVE \E f \in Outcome(c, disk[call[c].path]) : Copies(c, f)
  <2>1. PICK f \in Outcome(c, disk[call[c].path]) :
          history' = [history EXCEPT ![call[c].key] = f]
    BY <1>3 DEF CopyEnds
  <2>2. f # None
    BY <1>1, <1>3 DEF CopyEnds, Outcome
  <2>3. /\ Disturbed(c, Of(call[c].key)) \in [Callers -> Call]
        /\ Disturbed(c, Of(call[c].key))[c] = call[c]
    BY <1>0, DisturbedIs
  <2>4. call' = [Disturbed(c, Of(call[c].key)) EXCEPT ![c].at = "copied"]
    BY <1>3 DEF CopyEnds
  <2>5. call'[c] = [call[c] EXCEPT !.at = "copied"]
    BY <2>3, <2>4
  <2>6. \A d \in Callers : d # c => call'[d] = Disturbed(c, Of(call[c].key))[d]
    BY <2>3, <2>4
  <2>7. /\ call'[c].at = "copied" /\ call'[c].path = call[c].path /\ call'[c].key = call[c].key
        /\ call'[c].alone = call[c].alone
    BY <1>0, <2>5 DEF Call
  <2> QED  BY <1>3, <2>1, <2>2, <2>6, <2>7 DEF CopyEnds, Copies, Busy, bounds
<1> QED  BY <1>2, <1>3

\* What the step does, call by call and checkpoint by checkpoint.
LEMMA CopyParts ==
  ASSUME NEW c \in Callers, NEW f, IInv, Copies(c, f)
  PROVE  LET p == call[c].path k == call[c].key IN
         /\ p \in Paths /\ k \in Keys /\ k[2] = Name[p] /\ k[1] <= now
         /\ history'[k] = f /\ \A l \in Keys : l # k => history'[l] = history[l]
         /\ call'[c].path = p /\ call'[c].key = k /\ (call'[c].alone => call[c].alone)
         /\ call'[c].at = (IF call[c].at = "probed" THEN "copying" ELSE "copied")
         /\ \A d \in Callers : d # c =>
              /\ call'[d].at = call[d].at /\ call'[d].path = call[d].path
              /\ call'[d].key = call[d].key
              /\ call'[d].alone => call[d].alone /\ (call[d].at # "idle" => call[d].path # p)
              /\ call'[d].intact = (call[d].intact /\ d \notin Of(k))
<1> DEFINE p == call[c].path
           k == call[c].key
<1>1. /\ p \in Paths /\ k \in Keys /\ call \in [Callers -> Call] /\ call[c] \in Call
      /\ Kept(call[c]) /\ history \in [Keys -> Files]
  BY DEF IInv, TypeOK, Call
<1>2. k[2] = Name[p] /\ k[1] <= now
  BY <1>1 DEF Kept, Copies, Checkpointing
<1>3. history'[k] = f /\ \A l \in Keys : l # k => history'[l] = history[l]
  BY <1>1 DEF Copies
<1>4. ASSUME NEW d \in Callers, d # c
      PROVE  /\ call'[d].at = call[d].at /\ call'[d].path = call[d].path
             /\ call'[d].key = call[d].key
             /\ call'[d].alone => call[d].alone /\ (call[d].at # "idle" => call[d].path # p)
             /\ call'[d].intact = (call[d].intact /\ d \notin Of(k))
  <2>1. call'[d] = Disturbed(c, Of(k))[d]
    BY <1>4 DEF Copies
  <2>2. d \notin On(p) => call[d].at = "idle" \/ call[d].path # p
    BY DEF On, Busy
  <2>3. /\ Disturbed(c, Of(k))[d].at = call[d].at /\ Disturbed(c, Of(k))[d].path = call[d].path
        /\ Disturbed(c, Of(k))[d].key = call[d].key
        /\ Disturbed(c, Of(k))[d].alone = (call[d].alone /\ d \notin On(p))
        /\ Disturbed(c, Of(k))[d].intact = (call[d].intact /\ d \notin Of(k))
    BY <1>1, <1>4, DisturbedIs
  <2> QED  BY <2>1, <2>2, <2>3
<1>5. /\ call'[c].path = p /\ call'[c].key = k /\ (call'[c].alone => call[c].alone)
      /\ call'[c].at = (IF call[c].at = "probed" THEN "copying" ELSE "copied")
  BY DEF Copies
<1> QED  BY <1>1, <1>2, <1>3, <1>4, <1>5

\* What is saved in another checkpoint stays.
LEMMA CopySaved ==
  ASSUME NEW c \in Callers, NEW f, IInv, Copies(c, f),
         NEW l \in Keys, l # call[c].key, NEW v, Saved(l, v)
  PROVE  Saved(l, v)'
<1>1. history'[l] = v
  BY CopyParts DEF Saved
<1>2. \A d \in Callers : call'[d].at = "copying" => call'[d].key # l
  BY CopyParts DEF Saved, Busy
<1> QED  BY <1>1, <1>2 DEF Saved, Busy

\* A checkpoint stays the newest of a file's name while only another name's
\* change, or one that was there already.
LEMMA CopyLatest ==
  ASSUME NEW c \in Callers, NEW f, IInv, Copies(c, f), NEW q \in Paths, NEW l \in Keys,
         Latest(l, q),
         call[c].key[2] # Name[q] \/ history[call[c].key] # None \/ l = call[c].key
  PROVE  Latest(l, q)'
<1> DEFINE k == call[c].key
<1>1. k \in Keys /\ \A m \in Keys : m # k => history'[m] = history[m]
  BY CopyParts
<1>2. ASSUME NEW m \in Keys, m[2] = Name[q], history'[m] # None PROVE m[1] <= l[1]
  <2>1. CASE m # k
    BY <1>1, <1>2, <2>1 DEF Latest
  <2>2. CASE m = k /\ history[k] # None
    BY <1>2, <2>2 DEF Latest
  <2>3. CASE m = k /\ l = k
    <3>1. k[1] \in Nat
      BY <1>1, KeyParts
    <3> QED  BY <2>3, <3>1
  <2> QED  BY <1>2, <2>1, <2>2, <2>3
<1> QED  BY <1>2 DEF Latest

\* The calls of the others: those that still count as alone are on other files.
LEMMA CopyOthers ==
  ASSUME NEW c \in Callers, NEW f, IInv, Copies(c, f), NEW d \in Callers, d # c
  PROVE  Kept(call[d])' /\ Alone(call[d])'
<1> DEFINE p == call[c].path
           k == call[c].key
           q == call[d].path
           l == call[d].key
<1>1. /\ p \in Paths /\ k \in Keys /\ k[2] = Name[p] /\ history'[k] = f
      /\ \A m \in Keys : m # k => history'[m] = history[m]
  BY CopyParts
<1>2. /\ call'[d].at = call[d].at /\ call'[d].path = q /\ call'[d].key = l
      /\ call'[d].alone => call[d].alone /\ (call[d].at # "idle" => q # p)
      /\ call'[d].intact = (call[d].intact /\ d \notin Of(k))
  BY CopyParts
<1>3. q \in Paths /\ l \in Keys /\ Kept(call[d]) /\ Alone(call[d]) /\ undo \in [Paths -> Files]
  BY DEF IInv, TypeOK, Call
<1>4. f # None /\ disk' = disk /\ now' = now
      /\ (undo' = undo \/ undo' = [undo EXCEPT ![p] = None])
  BY DEF Copies
<1>5. q # p => undo'[q] = undo[q]
  BY <1>1, <1>3, <1>4
<1>6. Kept(call[d])'
  <2>1. call[d].at = "copying" => history'[l] # None
    BY <1>1, <1>3, <1>4 DEF Kept
  <2>2. ASSUME call[d].at = "copied", call'[d].intact, disk[q] # None PROVE Saved(l, disk[q])'
    <3>1. PICK m, v : m = l /\ v = disk[q]
      OBVIOUS
    <3>2. Saved(m, v) /\ m # k
      BY <1>2, <1>3, <2>2, <3>1 DEF Kept, Of
    <3>3. Saved(m, v)'
      BY <1>3, <3>1, <3>2, CopySaved
    <3>4. m = call'[d].key /\ v = disk'[call'[d].path]
      BY <1>2, <1>4, <3>1
    <3> QED  BY <1>2, <1>4, <3>1, <3>3, <3>4 DEF Saved
  <2> QED  BY <1>2, <1>3, <1>4, <2>1, <2>2 DEF Kept, Saved
<1>7. Alone(call[d])'
  <2> SUFFICES ASSUME call'[d].alone, Unaliased(q), call[d].at # "idle" PROVE Alone(call[d])'
    BY <1>2 DEF Alone, Unaliased, Checkpointing
  <2>1. call[d].alone /\ q # p /\ Name[p] # Name[q]
    BY <1>1, <1>2, <1>3, OtherName
  <2>2. ASSUME call[d].at \in Checkpointing PROVE l[2] = Name[q] /\ Latest(l, q)'
    <3>1. l[2] = Name[q] /\ Latest(l, q)
      BY <1>3, <2>1, <2>2 DEF Kept, Alone
    <3>2. PICK m, r : m = l /\ r = q
      OBVIOUS
    <3>3. Latest(m, r)'
      BY <1>1, <1>3, <2>1, <3>1, <3>2, CopyLatest
    <3> QED  BY <3>1, <3>2, <3>3, <1>2 DEF Latest
  <2>3. call[d].at \in {"copying", "copied", "found", "restoring"} =>
          l[2] = Name[q] /\ l # k /\ history'[l] = history[l]
    BY <1>1, <1>3, <2>1 DEF Kept, Alone, Checkpointing
  <2>4. call'[d].at \in Checkpointing => Latest(call[d].key, call[d].path)'
    BY <1>2, <2>2 DEF Latest
  <2>5. call[d].at \in {"copying", "restoring"} => call'[d].intact
    BY <1>2, <1>3, <2>1, <2>3 DEF Alone, Of
  <2> QED  BY <1>2, <1>3, <1>4, <1>5, <2>1, <2>3, <2>4, <2>5 DEF Alone, Checkpointing, Unaliased
<1> QED  BY <1>6, <1>7

LEMMA CopyKept ==
  ASSUME NEW c \in Callers, NEW f, IInv, Copies(c, f) PROVE KeptInv'
<1>1. \A l \in Keys : \A v : l # call[c].key /\ Saved(l, v) => Saved(l, v)'
  BY CopySaved
<1>2. ASSUME NEW r \in replaced' \ lost', r[2] # None PROVE Saved(r[3], r[2])'
  <2>1. r \in replaced \ lost /\ r[3] \in Keys
    BY DEF Copies, IInv, TypeOK
  <2>2. Saved(r[3], r[2])
    BY <1>2, <2>1 DEF IInv, KeptInv
  <2>3. r[3] # call[c].key
    BY <1>2, <2>2 DEF Copies, Saved, Busy
  <2>4. PICK l, v : l = r[3] /\ v = r[2]
    OBVIOUS
  <2>5. Saved(l, v)'
    BY <1>1, <2>1, <2>2, <2>3, <2>4
  <2> QED  BY <2>4, <2>5 DEF Saved
<1> QED  BY <1>2 DEF KeptInv

\* What undo says of other files is untouched; of this one it says nothing, for
\* the copy has begun, or says what it said.
LEMMA CopyUndo ==
  ASSUME NEW c \in Callers, NEW f, IInv, Copies(c, f),
         Unaliased(call[c].path) => undo'[call[c].path] = None
  PROVE  UndoInv'
<1> DEFINE p == call[c].path
           k == call[c].key
<1>1. /\ p \in Paths /\ k \in Keys /\ k[2] = Name[p]
      /\ \A m \in Keys : m # k => history'[m] = history[m]
  BY CopyParts
<1>2. undo' = undo \/ undo' = [undo EXCEPT ![p] = None]
  BY DEF Copies
<1>3. ASSUME NEW q \in Paths, Unaliased(q), undo'[q] # None
      PROVE  \E l \in Keys : l[2] = Name[q] /\ history'[l] = undo'[q] /\ Latest(l, q)'
  <2>1. q # p
    BY <1>3
  <2>2. undo'[q] = undo[q] /\ Name[q] # Name[p]
    BY <1>1, <1>2, <1>3, <2>1, OtherName DEF IInv, TypeOK
  <2>3. PICK l \in Keys : l[2] = Name[q] /\ history[l] = undo[q] /\ Latest(l, q)
    BY <1>3, <2>2 DEF IInv, UndoInv
  <2>4. Latest(l, q)'
    BY <1>1, <2>2, <2>3, CopyLatest
  <2>5. history'[l] = history[l]
    BY <1>1, <2>2, <2>3
  <2> QED  BY <2>2, <2>3, <2>4, <2>5
<1> QED  BY <1>3 DEF UndoInv, Unaliased

LEMMA CopyNames ==
  ASSUME NEW c \in Callers, NEW f, IInv, Copies(c, f)
  PROVE  \A l \in Keys : history'[l] # None => l[1] <= now' /\ \E q \in Paths : l[2] = Name[q]
<1>1. now' = now
  BY DEF Copies
<1> QED  BY <1>1, CopyParts DEF IInv, KeysInv

\* Two copies to one checkpoint: neither is intact.
LEMMA CopyBeginsStep ==
  ASSUME NEW c \in Callers PROVE IInv /\ TypeOK' /\ CopyBegins(c) => IInv'
<1> SUFFICES ASSUME IInv, TypeOK', CopyBegins(c) PROVE IInv'
  OBVIOUS
<1> DEFINE p == call[c].path
           k == call[c].key
<1>1. Copies(c, Torn) /\ call[c].at = "probed"
  BY CopyShape DEF CopyBegins, Busy
<1>2. /\ p \in Paths /\ k \in Keys /\ k[2] = Name[p] /\ k[1] <= now /\ history'[k] = Torn
      /\ call'[c].path = p /\ call'[c].key = k /\ call'[c].at = "copying"
      /\ \A d \in Callers : d # c =>
           /\ call'[d].at = call[d].at /\ call'[d].key = call[d].key
           /\ call'[d].intact = (call[d].intact /\ d \notin Of(k))
  BY <1>1, CopyParts
<1>9. call'[c].intact = Quiet(c) /\ call'[c].alone = (call[c].alone /\ Quiet(c))
  BY BeginsIs DEF CopyBegins, IInv, TypeOK
<1>3. now' = now /\ Torn # None
  BY <1>1 DEF Copies, Torn, None
<1>4. undo'[p] = None
  BY <1>2 DEF CopyBegins, IInv, TypeOK
<1>5. KeysInv'
  <2>1. ASSUME NEW a \in Callers, NEW b \in Callers, a # b,
               call'[a].at = "copying", call'[b].at = "copying", call'[a].key = call'[b].key
        PROVE  ~call'[a].intact
    <3>1. CASE a # c /\ b # c
      <4>1. Busy(a, "copying") /\ Busy(b, "copying") /\ call[a].key = call[b].key
        BY <1>2, <2>1, <3>1 DEF Busy
      <4>2. ~call[a].intact
        BY <2>1, <4>1 DEF IInv, KeysInv
      <4>3. call'[a].intact = (call[a].intact /\ a \notin Of(k))
        BY <1>2, <3>1
      <4> QED  BY <4>2, <4>3
    <3>2. CASE a = c
      <4>1. call[b].at = "copying" /\ call[b].key = k
        BY <1>2, <2>1, <3>2
      <4>2. ~Quiet(c)
        BY <2>1, <3>2, <4>1 DEF Quiet, Busy
      <4> QED  BY <1>9, <3>2, <4>2
    <3>3. CASE b = c
      <4>1. a \in Of(k)
        BY <1>2, <2>1, <3>3 DEF Of
      <4> QED  BY <1>2, <2>1, <3>3, <4>1
    <3> QED  BY <3>1, <3>2, <3>3
  <2> QED  BY <1>1, <2>1, CopyNames DEF KeysInv, Busy
<1>6. Kept(call[c])'
  BY <1>2, <1>3 DEF Kept, Checkpointing
<1>7. Alone(call[c])'
  <2> SUFFICES ASSUME call'[c].alone, Unaliased(p) PROVE Alone(call[c])'
    BY <1>2 DEF Alone, Unaliased
  <2>1. Latest(k, p)
    BY <1>1, <1>2, <1>9 DEF IInv, Alone, Checkpointing
  <2>2. PICK m, q : m = k /\ q = p
    OBVIOUS
  <2>3. Latest(m, q)'
    BY <1>1, <1>2, <2>1, <2>2, CopyLatest
  <2>4. Latest(call[c].key, call[c].path)'
    BY <1>2, <2>2, <2>3 DEF Latest
  <2> QED  BY <1>2, <1>4, <1>9, <2>4 DEF Alone
<1>8. KeptInv' /\ UndoInv'
  BY <1>1, <1>4, CopyKept, CopyUndo
<1> QED  BY <1>1, <1>5, <1>6, <1>7, <1>8, CopyOthers DEF IInv

LEMMA CopyEndsStep ==
  ASSUME NEW c \in Callers PROVE IInv /\ TypeOK' /\ CopyEnds(c) => IInv'
<1> SUFFICES ASSUME IInv, TypeOK', CopyEnds(c) PROVE IInv'
  OBVIOUS
<1> DEFINE p == call[c].path
           k == call[c].key
<1>1. PICK f \in Outcome(c, disk[p]) : Copies(c, f)
  BY CopyShape
<1>2. /\ p \in Paths /\ k \in Keys /\ k[2] = Name[p] /\ k[1] <= now /\ history'[k] = f
      /\ call[c].at = "copying" => call'[c].at = "copied"
      /\ call'[c].path = p /\ call'[c].key = k
      /\ \A d \in Callers : d # c =>
           /\ call'[d].at = call[d].at /\ call'[d].key = call[d].key
           /\ call'[d].intact => call[d].intact
  BY <1>1, CopyParts
<1>a. call'[c].alone = call[c].alone /\ call'[c].intact = call[c].intact
  <2>1. call \in [Callers -> Call] /\ call[c] \in Call
    BY DEF IInv, TypeOK
  <2>2. Disturbed(c, Of(k)) \in [Callers -> Call] /\ Disturbed(c, Of(k))[c] = call[c]
    BY <2>1, DisturbedIs
  <2>3. call'[c] = [call[c] EXCEPT !.at = "copied"]
    BY <2>2 DEF CopyEnds
  <2> QED  BY <2>1, <2>3 DEF Call
<1>3. /\ now' = now /\ disk' = disk /\ call[c].at = "copying"
      /\ undo' = (IF call[c].alone THEN undo ELSE [undo EXCEPT ![p] = None])
  BY DEF CopyEnds, Busy, bounds
<1>4. history[k] # None /\ Alone(call[c])
  BY <1>3 DEF IInv, Kept
<1>5. call[c].intact => f = disk[p]
  BY <1>1 DEF Outcome
<1>6. KeysInv'
  <2>1. ASSUME NEW a \in Callers, NEW b \in Callers, a # b,
               call'[a].at = "copying", call'[b].at = "copying", call'[a].key = call'[b].key
        PROVE  ~call'[a].intact
    <3>1. a # c /\ b # c
      BY <1>2, <1>3, <2>1
    <3> QED  BY <1>2, <1>3, <2>1, <3>1 DEF IInv, KeysInv, Busy
  <2> QED  BY <1>1, <2>1, CopyNames DEF KeysInv, Busy
<1>7. Kept(call[c])'
  <2>1. ASSUME call[c].intact, disk[p] # None PROVE Saved(call[c].key, disk[call[c].path])'
    <3>1. ASSUME NEW d \in Callers, call'[d].at = "copying", call'[d].key = k
          PROVE  FALSE
      <4>1. d # c /\ call[d].at = "copying" /\ call[d].key = k
        BY <1>2, <1>3, <3>1
      <4> QED  BY <1>3, <2>1, <4>1 DEF IInv, KeysInv, Busy
    <3> QED  BY <1>2, <1>3, <1>5, <2>1, <3>1 DEF Saved, Busy
  <2> QED  BY <1>a, <1>2, <1>3, <2>1 DEF Kept
<1>8. Alone(call[c])'
  <2> SUFFICES ASSUME call'[c].alone, Unaliased(p) PROVE Alone(call[c])'
    BY <1>2 DEF Alone, Unaliased
  <2>1. Latest(k, p)
    BY <1>a, <1>2, <1>3, <1>4 DEF Alone, Checkpointing
  <2>2. PICK m, q : m = k /\ q = p
    OBVIOUS
  <2>3. Latest(m, q)'
    BY <1>1, <1>2, <1>4, <2>1, <2>2, CopyLatest
  <2>4. Latest(call[c].key, call[c].path)'
    BY <1>2, <2>2, <2>3 DEF Latest
  <2>5. call[c].intact
    BY <1>a, <1>2, <1>3, <1>4 DEF Alone
  <2> QED  BY <1>2, <1>3, <1>5, <2>4, <2>5 DEF Alone
<1>9. Unaliased(p) => undo'[p] = None
  BY <1>2, <1>3, <1>4 DEF Alone, IInv, TypeOK
<1>10. KeptInv' /\ UndoInv'
  BY <1>1, <1>9, CopyKept, CopyUndo
<1> QED  BY <1>1, <1>6, <1>7, <1>8, <1>10, CopyOthers DEF IInv

-----------------------------------------------------------------------------
LEMMA IdleStep == IInv /\ UNCHANGED vars => IInv'
  BY DEF vars, ghosts, bounds, IInv, TypeOK, KeysInv, KeptInv, UndoInv, Kept, Alone, Saved,
         Latest, Busy, Unaliased

LEMMA InvStep == IInv /\ [Next]_vars => IInv'
<1> SUFFICES ASSUME IInv, [Next]_vars PROVE IInv'
  OBVIOUS
<1>1. TypeOK'
  BY TypeStep DEF IInv
<1>2. CASE UNCHANGED vars
  BY <1>2, IdleStep
<1>3. CASE Next
  BY <1>1, <1>3, CrashStep, TickStep, EditStep, RewindStep, WriteStep, CopyBeginsStep,
     CopyEndsStep, WriteBeginsStep, EndStep, RestoreBeginsStep, FailsStep DEF Next
<1> QED  BY <1>2, <1>3

LEMMA SpecInv == Spec => []IInv
<1> QED  BY InitInv, InvStep, PTL DEF Spec

\* What a write replaced is in its checkpoint from the moment the file is emptied
\* (write-file.ts:71-79), through every failure and crash, unless somebody wrote
\* to the file during or after the copy and before the write, or a write of a
\* file of the same name in the same millisecond wrote to the checkpoint.
THEOREM ReplacedIsRecoverable == Spec => []Recoverable
<1>1. IInv => Recoverable
  BY DEF IInv, KeptInv, Saved, Recoverable
<1> QED  BY <1>1, SpecInv, PTL

\* An undisturbed rewind brings back what the latest write of the file replaced
\* (checkpoints.ts:22), of files whose names are not mistaken for another's.
THEOREM RewindIsExact == Spec => RewindReverts
<1>1. ASSUME IInv, [Next]_vars
      PROVE  [\A c \in Callers :
                LET p == call[c].path IN
                RestoreEnds(c) /\ call[c].alone /\ undo[p] # None /\ Unaliased(p) =>
                  disk'[p] = undo[p]]_vars
  <2>1. ASSUME NEW c \in Callers, RestoreEnds(c), call[c].alone, undo[call[c].path] # None,
               Unaliased(call[c].path)
        PROVE  disk'[call[c].path] = undo[call[c].path]
    <3>1. call[c].path \in Paths /\ disk \in [Paths -> Files] /\ Alone(call[c])
      BY <1>1 DEF IInv, TypeOK, Call
    <3>2. history[call[c].key] = undo[call[c].path]
      BY <2>1, <3>1 DEF Alone, RestoreEnds, Busy
    <3>3. disk' = [disk EXCEPT ![call[c].path] = history[call[c].key]]
      BY <2>1, <3>1 DEF RestoreEnds, Outcome, Alone, Busy
    <3> QED  BY <3>1, <3>2, <3>3
  <2> QED  BY <2>1
<1> QED  BY <1>1, SpecInv, PTL DEF Spec, RewindReverts
=============================================================================
