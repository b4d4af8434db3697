-------------------------- MODULE SubAgentsProofs --------------------------
(* The semaphore counts what runs, wakes what waits and loses nothing, for  *)
(* any number of workers, permits and nested calls.                        *)
EXTENDS SubAgents, FiniteSetTheorems, TLAPS

(* A handle that is not in use has no loop and no call.                    *)
Unused == \A w \in Workers : ~Spawned(w) => loop[w] = "none" /\ call[w] = "none"

PermitInv == PermitsBounded /\ NoIdlePermit /\ NoTaskLost /\ Unused

(* CallReturns and AbortSignals make a caller's loop busy again: that it is *)
(* a loop that waits, and not one that is over and has passed its permit   *)
(* on, is what OneCallPerLoop adds.                                        *)
IInv == TypeOK /\ PermitInv /\ OneCallPerLoop

-----------------------------------------------------------------------------
LEMMA PermitsType == Permits \in Nat /\ Permits >= 1
  BY WorkerAssumption DEF Permits

LEMMA RunningFinite == IsFiniteSet(Running) /\ Cardinality(Running) \in Nat
  <1>1. Running \subseteq Workers
    BY DEF Running
  <1>2. QED
    BY <1>1, WorkerAssumption, FS_Subset, FS_CardinalityType

(* Steps that touch neither the semaphore nor which loops run.             *)
LEMMA PermitsKept ==
  ASSUME PermitInv, Running' = Running,
         UNCHANGED <<queue, inFlight, parent>>,
         \A w \in Workers : loop'[w] = "none" <=> loop[w] = "none",
         \A w \in Workers : call[w] = "none" => call'[w] = "none"
  PROVE  PermitInv'
  <1>1. PermitsBounded' /\ NoIdlePermit'
    BY DEF PermitInv, PermitsBounded, NoIdlePermit, Permits
  <1>2. NoTaskLost'
    BY DEF PermitInv, NoTaskLost, Queued, Spawned
  <1>3. Unused'
    BY DEF PermitInv, Unused, Spawned
  <1>4. QED
    BY <1>1, <1>2, <1>3 DEF PermitInv

LEMMA InitIInv == Init => IInv
  <1> SUFFICES ASSUME Init PROVE IInv
    OBVIOUS
  <1> USE WorkerAssumption DEF Init
  <1>1. TypeOK
    BY DEF TypeOK, Callers, Maybe
  <1>2. Running = {}
    BY DEF Running, Callers
  <1>3. PermitsBounded
    BY <1>2, PermitsType, FS_EmptySet DEF PermitsBounded
  <1>4. NoIdlePermit /\ NoTaskLost /\ Unused
    BY DEF NoIdlePermit, NoTaskLost, Unused, Queued, Spawned, Callers
  <1>5. OneCallPerLoop
    BY DEF OneCallPerLoop, Callers
  <1>6. QED
    BY <1>1, <1>3, <1>4, <1>5 DEF IInv, PermitInv

-----------------------------------------------------------------------------
(* Type correctness, action by action.                                     *)
LEMMA ReportedType ==
  ASSUME NEW w \in Workers, NEW r \in EndReason
  PROVE  Reported(w, r) \in EndReason
  BY DEF Reported, EndReason

LEMMA LoopType ==
  ASSUME TypeOK
  PROVE  /\ Workers \subseteq Callers
         /\ loop \in [Callers -> {"none", "starting", "busy", "calling", "over"}]
         /\ inFlight \in Nat
         /\ parent \in [Workers -> Callers \cup {NoCaller}]
         /\ call \in [Workers -> {"none", "waiting", "result", "abandoned"}]
         /\ queue \in Seq(Workers)
  BY DEF TypeOK, Callers

LEMMA PassPermitType ==
  ASSUME TypeOK, NEW w \in Workers, NEW stopped \in BOOLEAN, PassPermit(w, stopped),
         inFlight > 0
  PROVE  /\ queue' \in Seq(Workers)
         /\ inFlight' \in Nat
         /\ loop' \in [Callers -> {"none", "starting", "busy", "calling", "over"}]
         /\ timer' \in [Workers -> BOOLEAN]
  <1>1. CASE queue = <<>>
    <2>1. /\ inFlight' = inFlight - 1 /\ queue' = queue
          /\ loop' = [loop EXCEPT ![w] = "over"]
          /\ timer' = [timer EXCEPT ![w] = @ /\ ~stopped]
      BY <1>1 DEF PassPermit
    <2>2. timer' \in [Workers -> BOOLEAN]
      BY <2>1 DEF TypeOK
    <2>3. QED
      BY <2>1, <2>2 DEF TypeOK, Callers
  <1>2. CASE queue # <<>>
    <2>1. Head(queue) \in Workers /\ Tail(queue) \in Seq(Workers)
      BY <1>2 DEF TypeOK
    <2>2. QED
      BY <1>2, <2>1 DEF TypeOK, PassPermit, Callers
  <1>3. QED
    BY <1>1, <1>2

LEMMA SetResultType ==
  ASSUME TypeOK, NEW w \in Workers, NEW r \in EndReason, SetResult(w, r)
  PROVE  /\ handle' \in [Workers -> {"pending", "completed", "aborted", "errored"}]
         /\ answer' \in [Workers -> Maybe]
         /\ result' \in [Workers -> Maybe]
         /\ active' \in [Ids -> Workers \cup {NoWorker}]
  <1>1. StatusFor(r) \in {"pending", "completed", "aborted", "errored"}
    BY DEF StatusFor
  <1>2. QED
    BY <1>1 DEF TypeOK, SetResult, Maybe

LEMMA AbortSignalsType ==
  ASSUME TypeOK, NEW S, AbortSignals(S)
  PROVE  /\ aborted' \in [Callers -> BOOLEAN]
         /\ call' \in [Workers -> {"none", "waiting", "result", "abandoned"}]
         /\ loop' \in [Callers -> {"none", "starting", "busy", "calling", "over"}]
         /\ UNCHANGED <<parent, listening>>
  BY DEF TypeOK, AbortSignals

LEMMA AbortWorkersType ==
  ASSUME TypeOK, NEW S, AbortWorkers(S)
  PROVE  /\ worker' \in [Workers -> {"running", "completed", "aborted", "errored"}]
         /\ aborted' \in [Callers -> BOOLEAN]
         /\ call' \in [Workers -> {"none", "waiting", "result", "abandoned"}]
         /\ loop' \in [Callers -> {"none", "starting", "busy", "calling", "over"}]
         /\ UNCHANGED <<parent, listening>>
  BY AbortSignalsType DEF TypeOK, AbortWorkers

LEMMA AbortHandlesType ==
  ASSUME TypeOK, NEW S, AbortHandles(S)
  PROVE  TypeOK'
  <1>1. /\ handle' \in [Workers -> {"pending", "completed", "aborted", "errored"}]
        /\ answer' \in [Workers -> Maybe]
        /\ active' \in [Ids -> Workers \cup {NoWorker}]
    BY DEF TypeOK, AbortHandles, Maybe, EndReason
  <1>2. QED
    BY <1>1, AbortWorkersType DEF TypeOK, AbortHandles, semaphore

(* A loop that runs holds a permit, so there is one to pass on.            *)
LEMMA RunnerHoldsPermit ==
  ASSUME PermitInv, NEW w \in Running
  PROVE  inFlight \in Nat /\ inFlight > 0
  <1>1. Running # {}
    OBVIOUS
  <1>2. Cardinality(Running) # 0
    BY <1>1, RunningFinite, FS_EmptySet
  <1>3. QED
    BY <1>2, RunningFinite DEF PermitInv, PermitsBounded

LEMMA TypeStep == TypeOK /\ PermitInv /\ [Next]_vars => TypeOK'
  <1> SUFFICES ASSUME TypeOK, PermitInv, [Next]_vars PROVE TypeOK'
    OBVIOUS
  <1>1. ASSUME NEW c \in Callers, NEW w \in Workers, Spawn(c, w) PROVE TypeOK'
    <2>1. IdOf[w] \in Ids
      BY WorkerAssumption
    <2>2. /\ parent' \in [Workers -> Callers \cup {NoCaller}]
          /\ call' \in [Workers -> {"none", "waiting", "result", "abandoned"}]
          /\ listening' \in [Workers -> BOOLEAN]
          /\ active' \in [Ids -> Workers \cup {NoWorker}]
      BY <1>1, <2>1 DEF TypeOK, Spawn
    <2>3. /\ queue' \in Seq(Workers)
          /\ inFlight' \in Nat
          /\ loop' \in [Callers -> {"none", "starting", "busy", "calling", "over"}]
          /\ timer' \in [Workers -> BOOLEAN]
      <3>1. /\ loop' \in {[loop EXCEPT ![c] = "calling", ![w] = "starting"],
                          [loop EXCEPT ![c] = "calling"]}
            /\ timer' \in {timer, [timer EXCEPT ![w] = TRUE]}
            /\ queue' = queue \/ queue' = Append(queue, w)
            /\ inFlight' = inFlight \/ inFlight' = inFlight + 1
        BY <1>1 DEF Spawn
      <3>2. loop' \in [Callers -> {"none", "starting", "busy", "calling", "over"}]
        BY <3>1 DEF TypeOK, Callers
      <3>3. timer' \in [Workers -> BOOLEAN]
        BY <3>1 DEF TypeOK
      <3>4. queue' \in Seq(Workers) /\ inFlight' \in Nat
        BY <3>1, LoopType
      <3>5. QED
        BY <3>2, <3>3, <3>4
    <2>4. QED
      BY <1>1, <2>2, <2>3 DEF TypeOK, Spawn
  <1>2. ASSUME NEW w \in Workers, EngineRuns(w) PROVE TypeOK'
    BY <1>2 DEF TypeOK, EngineRuns, semaphore, calls
  <1>3. ASSUME NEW w \in Workers, EngineFails(w) PROVE TypeOK'
    <2>1. inFlight > 0
      BY <1>3, RunnerHoldsPermit DEF EngineFails, Running
    <2>2. "error" \in EndReason
      BY DEF EndReason
    <2>3. QED
      BY <1>3, <2>1, <2>2, PassPermitType, SetResultType DEF TypeOK, EngineFails, calls
  <1>4. ASSUME NEW w \in Workers, Ends(w) PROVE TypeOK'
    <2>1. inFlight > 0
      BY <1>4, RunnerHoldsPermit DEF Ends, LoopEnds, LoopThrows, Running
    <2>2. "error" \in EndReason
      BY DEF EndReason
    <2>3. CASE LoopThrows(w)
      BY <2>1, <2>2, <2>3, PassPermitType, SetResultType DEF TypeOK, LoopThrows, calls
    <2>4. ASSUME NEW r \in EndReason, LoopEnds(w, r) PROVE TypeOK'
      BY <2>1, <2>4, ReportedType, PassPermitType, SetResultType DEF TypeOK, LoopEnds, calls
    <2>5. QED
      BY <1>4, <2>3, <2>4 DEF Ends
  <1>5. ASSUME NEW w \in Workers, CallReturns(w) PROVE TypeOK'
    BY <1>5 DEF TypeOK, CallReturns, semaphore
  <1>6. ASSUME NEW w \in Workers, WorkerTimeout(w) PROVE TypeOK'
    <2>1. timer' \in [Workers -> BOOLEAN]
      BY <1>6 DEF TypeOK, WorkerTimeout
    <2>2. QED
      BY <1>6, <2>1, AbortWorkersType DEF TypeOK, WorkerTimeout, semaphore
  <1>7. ASSUME NEW r \in Roots, Disconnect(r) PROVE TypeOK'
    BY <1>7, AbortSignalsType DEF TypeOK, Disconnect, semaphore
  <1>8. ASSUME NEW S, AbortHandles(S) PROVE TypeOK'
    BY <1>8, AbortHandlesType
  <1>9. CASE UNCHANGED vars
    BY <1>9 DEF TypeOK, vars
  <1>10. QED
    BY <1>1, <1>2, <1>3, <1>4, <1>5, <1>6, <1>7, <1>8, <1>9
       DEF Next, Starts, CallTimeout, DeleteAgent, AbortAll

-----------------------------------------------------------------------------
(* The semaphore.                                                          *)
LEMMA SpawnPermits ==
  ASSUME TypeOK, PermitInv, NEW c \in Callers, NEW w \in Workers, Spawn(c, w)
  PROVE  PermitInv'
  <1>1. /\ parent' = [parent EXCEPT ![w] = c]
        /\ call' = [call EXCEPT ![w] = "waiting"]
        /\ loop[c] = "busy" /\ ~Spawned(w) /\ c # NoCaller
    BY LoopType, PermitsType, WorkerAssumption DEF Spawn, NewHandle
  <1>2. loop[w] = "none" /\ w # c /\ w \notin Queued
    BY LoopType, PermitsType, <1>1 DEF PermitInv, Unused, NoTaskLost
  <1>3. \A v \in Workers : Spawned(v)' <=> Spawned(v) \/ v = w
    BY LoopType, PermitsType, <1>1 DEF Spawned
  <1>4. CASE inFlight < Permits
    <2>1. /\ loop' = [loop EXCEPT ![c] = "calling", ![w] = "starting"]
          /\ queue' = queue
          /\ inFlight' = inFlight + 1
      BY LoopType, PermitsType, <1>4 DEF Spawn
    <2>2. Running' = Running \cup {w} /\ w \notin Running
      BY LoopType, PermitsType, <1>1, <1>2, <2>1 DEF Running
    <2>3. Cardinality(Running') = Cardinality(Running) + 1
      BY LoopType, PermitsType, <2>2, RunningFinite, FS_AddElement
    <2>4. PermitsBounded'
      BY LoopType, PermitsType, <1>4, <2>1, <2>3 DEF PermitInv, PermitsBounded, Permits
    <2>5. queue = <<>>
      BY LoopType, PermitsType, <1>4 DEF PermitInv, NoIdlePermit
    <2>6. NoIdlePermit' /\ Queued = {} /\ Queued' = {}
      BY LoopType, PermitsType, <2>1, <2>5 DEF NoIdlePermit, Queued
    <2>7. \A v \in Workers : Spawned(v) => loop[v] # "none"
      BY LoopType, PermitsType, <2>6 DEF PermitInv, NoTaskLost
    <2>8. \A v \in Workers : Spawned(v)' => loop'[v] # "none"
      BY LoopType, PermitsType, <1>3, <2>1, <2>7
    <2>9. NoTaskLost'
      BY LoopType, PermitsType, <2>1, <2>5, <2>6, <2>8 DEF NoTaskLost
    <2>10. Unused'
      BY LoopType, PermitsType, <1>1, <1>3, <2>1 DEF PermitInv, Unused
    <2>11. QED
      BY LoopType, PermitsType, <2>4, <2>6, <2>9, <2>10 DEF PermitInv
  <1>5. CASE inFlight >= Permits
    <2>1. inFlight = Permits
      BY LoopType, PermitsType, <1>5 DEF PermitInv, PermitsBounded
    <2>2. /\ loop' = [loop EXCEPT ![c] = "calling"] /\ inFlight' = inFlight
          /\ queue' = Append(queue, w)
      BY LoopType, PermitsType, <1>5, <2>1 DEF Spawn
    <2>3. Running' = Running
      BY LoopType, PermitsType, <1>1, <1>2, <2>2 DEF Running
    <2>4. PermitsBounded' /\ NoIdlePermit'
      BY LoopType, PermitsType, <2>1, <2>2, <2>3 DEF PermitInv, PermitsBounded, NoIdlePermit, Permits
    <2>5. /\ DOMAIN queue = 1 .. Len(queue) /\ Len(queue) \in Nat
          /\ DOMAIN queue' = 1 .. (Len(queue) + 1)
          /\ \A k \in 1 .. Len(queue) : queue'[k] = queue[k]
          /\ queue'[Len(queue) + 1] = w
      BY LoopType, PermitsType, <2>2
    <2>6. Queued' = Queued \cup {w}
      BY LoopType, PermitsType, <2>5 DEF Queued
    <2>7. \A j, k \in DOMAIN queue' : queue'[j] = queue'[k] => j = k
      <3>1. \A k \in 1 .. Len(queue) : queue'[k] # w
        BY LoopType, PermitsType, <1>2, <2>5 DEF Queued
      <3>2. QED
        BY LoopType, PermitsType, <2>5, <3>1 DEF PermitInv, NoTaskLost
    <2>8. \A v \in Workers : v \in Queued' <=> Spawned(v)' /\ loop'[v] = "none"
      BY LoopType, PermitsType, <1>1, <1>2, <1>3, <2>2, <2>6 DEF PermitInv, NoTaskLost
    <2>9. Unused'
      BY LoopType, PermitsType, <1>1, <1>3, <2>2 DEF PermitInv, Unused
    <2>10. QED
      BY LoopType, PermitsType, <2>4, <2>7, <2>8, <2>9 DEF PermitInv, NoTaskLost
  <1>6. QED
    BY LoopType, PermitsType, <1>4, <1>5

LEMMA PassPermitPermits ==
  ASSUME TypeOK, PermitInv, NEW w \in Running, NEW stopped, PassPermit(w, stopped),
         UNCHANGED <<parent, call>>
  PROVE  PermitInv'
  <1>1. w \in Workers /\ loop[w] # "none"
    BY LoopType, PermitsType DEF Running
  <1>2. inFlight > 0
    BY RunnerHoldsPermit
  <1>3. \A v \in Workers : Spawned(v)' <=> Spawned(v)
    BY LoopType, PermitsType DEF Spawned
  <1>4. CASE queue = <<>>
    <2>1. /\ inFlight' = inFlight - 1 /\ queue' = queue
          /\ loop' = [loop EXCEPT ![w] = "over"]
      BY LoopType, PermitsType, <1>4 DEF PassPermit
    <2>2. Running' = Running \ {w}
      BY LoopType, PermitsType, <1>1, <2>1 DEF Running
    <2>3. Cardinality(Running') = Cardinality(Running) - 1
      BY LoopType, PermitsType, <2>2, RunningFinite, FS_RemoveElement
    <2>4. PermitsBounded'
      BY LoopType, PermitsType, <2>1, <2>3 DEF PermitInv, PermitsBounded, Permits
    <2>5. NoIdlePermit' /\ Queued' = Queued
      BY LoopType, PermitsType, <1>4, <2>1 DEF NoIdlePermit, Queued
    <2>6. NoTaskLost'
      BY LoopType, PermitsType, <1>1, <1>3, <2>1, <2>5 DEF PermitInv, NoTaskLost
    <2>7. Unused'
      BY LoopType, PermitsType, <1>1, <1>3, <2>1 DEF PermitInv, Unused
    <2>8. QED
      BY LoopType, PermitsType, <2>4, <2>5, <2>6, <2>7 DEF PermitInv
  <1>5. CASE queue # <<>>
    <2>1. PICK h : h = Head(queue)
      OBVIOUS
    <2>2. /\ inFlight' = inFlight /\ queue' = Tail(queue)
          /\ loop' = [loop EXCEPT ![w] = "over", ![h] = "starting"]
      BY LoopType, PermitsType, <1>5, <2>1 DEF PassPermit
    <2>3. /\ DOMAIN queue = 1 .. Len(queue) /\ Len(queue) \in Nat /\ Len(queue) >= 1
          /\ DOMAIN queue' = 1 .. (Len(queue) - 1)
          /\ \A k \in 1 .. (Len(queue) - 1) : queue'[k] = queue[k + 1]
          /\ h = queue[1] /\ h \in Workers
      BY LoopType, PermitsType, <1>5, <2>1, <2>2
    <2>4. h \in Queued
      BY LoopType, PermitsType, <2>3 DEF Queued
    <2>5. loop[h] = "none" /\ Spawned(h) /\ h # w
      BY LoopType, PermitsType, <1>1, <2>3, <2>4 DEF PermitInv, NoTaskLost
    <2>6. Running' = (Running \ {w}) \cup {h} /\ h \notin Running
      BY LoopType, PermitsType, <1>1, <2>2, <2>3, <2>5 DEF Running
    <2>7. Cardinality(Running') = Cardinality(Running)
      <3>1. IsFiniteSet(Running \ {w}) /\ Cardinality(Running \ {w}) = Cardinality(Running) - 1
        BY LoopType, PermitsType, RunningFinite, FS_RemoveElement
      <3>2. Cardinality(Running') = Cardinality(Running \ {w}) + 1
        BY LoopType, PermitsType, <2>6, <3>1, FS_AddElement
      <3>3. QED
        BY LoopType, PermitsType, <3>1, <3>2, RunningFinite
    <2>8. PermitsBounded' /\ NoIdlePermit'
      BY LoopType, PermitsType, <1>5, <2>2, <2>7 DEF PermitInv, PermitsBounded, NoIdlePermit, Permits
    <2>9. \A j, k \in DOMAIN queue : queue[j] = queue[k] => j = k
      BY LoopType, PermitsType DEF PermitInv, NoTaskLost
    <2>10. \A j, k \in DOMAIN queue' : queue'[j] = queue'[k] => j = k
      <3>1. SUFFICES ASSUME NEW j \in 1 .. (Len(queue) - 1), NEW k \in 1 .. (Len(queue) - 1),
                            queue[j + 1] = queue[k + 1]
                     PROVE  j = k
        BY LoopType, PermitsType, <2>3
      <3>2. j + 1 \in DOMAIN queue /\ k + 1 \in DOMAIN queue
        BY LoopType, PermitsType, <2>3
      <3>3. j + 1 = k + 1
        BY LoopType, PermitsType, <2>9, <3>1, <3>2
      <3>4. QED
        BY LoopType, PermitsType, <3>3, <2>3
    <2>11. Queued' = Queued \ {h}
      <3>1. ASSUME NEW k \in DOMAIN queue' PROVE queue'[k] \in Queued /\ queue'[k] # h
        <4>1. k + 1 \in DOMAIN queue /\ k + 1 # 1 /\ 1 \in DOMAIN queue
          BY LoopType, PermitsType, <2>3
        <4>2. QED
          BY LoopType, PermitsType, <2>3, <2>9, <4>1 DEF Queued
      <3>2. ASSUME NEW k \in DOMAIN queue, queue[k] # h PROVE queue[k] \in Queued'
        <4>1. k - 1 \in DOMAIN queue' /\ (k - 1) + 1 = k
          BY LoopType, PermitsType, <2>3, <3>2
        <4>2. queue'[k - 1] = queue[k]
          BY LoopType, PermitsType, <2>3, <4>1
        <4>3. QED
          BY LoopType, PermitsType, <4>1, <4>2 DEF Queued
      <3>3. QED
        BY LoopType, PermitsType, <3>1, <3>2 DEF Queued
    <2>12. \A v \in Workers : v \in Queued' <=> Spawned(v)' /\ loop'[v] = "none"
      BY LoopType, PermitsType, <1>1, <1>3, <2>2, <2>3, <2>5, <2>11 DEF PermitInv, NoTaskLost
    <2>13. Unused'
      BY LoopType, PermitsType, <1>1, <1>3, <2>2, <2>3, <2>5 DEF PermitInv, Unused
    <2>14. QED
      BY LoopType, PermitsType, <2>8, <2>10, <2>12, <2>13 DEF PermitInv, NoTaskLost
  <1>6. QED
    BY LoopType, PermitsType, <1>4, <1>5

-----------------------------------------------------------------------------
(* Who waits for whom.                                                     *)
LEMMA WaitingCaller ==
  ASSUME IInv, NEW w \in Workers, call[w] = "waiting"
  PROVE  parent[w] \in Callers /\ loop[parent[w]] = "calling"
  <1>1. parent[w] \in Callers
    BY LoopType DEF IInv, PermitInv, Unused, Spawned
  <1>2. QED
    BY <1>1 DEF IInv, OneCallPerLoop

LEMMA NextInLine ==
  ASSUME IInv, queue # <<>>
  PROVE  Head(queue) \in Workers /\ loop[Head(queue)] = "none"
  <1>1. Head(queue) \in Workers /\ 1 \in DOMAIN queue /\ Head(queue) = queue[1]
    BY LoopType DEF IInv
  <1>2. Head(queue) \in Queued
    BY <1>1 DEF Queued
  <1>3. QED
    BY <1>1, <1>2 DEF IInv, PermitInv, NoTaskLost

(* Steps in which loops that wait for nothing change to another such state.*)
LEMMA CallsKept ==
  ASSUME OneCallPerLoop, UNCHANGED <<parent, call>>,
         \A c \in Callers : loop'[c] = "calling" <=> loop[c] = "calling"
  PROVE  OneCallPerLoop'
  BY DEF OneCallPerLoop

LEMMA PassPermitCalls ==
  ASSUME IInv, NEW w \in Workers, loop[w] # "calling", NEW stopped, PassPermit(w, stopped),
         UNCHANGED <<parent, call>>
  PROVE  OneCallPerLoop'
  <1>1. loop \in [Callers -> {"none", "starting", "busy", "calling", "over"}] /\ w \in Callers
    BY LoopType DEF IInv
  <1>2. CASE queue = <<>>
    <2>1. loop' = [loop EXCEPT ![w] = "over"]
      BY <1>2 DEF PassPermit
    <2>2. QED
      BY <1>1, <2>1, CallsKept DEF IInv
  <1>3. CASE queue # <<>>
    <2>1. loop' = [loop EXCEPT ![w] = "over", ![Head(queue)] = "starting"]
      BY <1>3 DEF PassPermit
    <2>2. \A c \in Callers : loop'[c] = "calling" <=> loop[c] = "calling"
      BY <1>1, <1>3, <2>1, NextInLine
    <2>3. QED
      BY <2>2, CallsKept DEF IInv
  <1>4. QED
    BY <1>2, <1>3

LEMMA SpawnCalls ==
  ASSUME IInv, NEW c \in Callers, NEW w \in Workers, Spawn(c, w)
  PROVE  OneCallPerLoop'
  <1>1. /\ loop \in [Callers -> {"none", "starting", "busy", "calling", "over"}]
        /\ parent \in [Workers -> Callers \cup {NoCaller}]
        /\ call \in [Workers -> {"none", "waiting", "result", "abandoned"}]
        /\ Workers \subseteq Callers
    BY LoopType DEF IInv
  <1>2. /\ parent' = [parent EXCEPT ![w] = c]
        /\ call' = [call EXCEPT ![w] = "waiting"]
        /\ loop[c] = "busy" /\ loop[w] = "none" /\ call[w] = "none"
    BY DEF IInv, PermitInv, Unused, Spawn, NewHandle
  <1>3. \A d \in Callers : loop'[d] = "calling" <=> d = c \/ loop[d] = "calling"
    <2>1. \/ loop' = [loop EXCEPT ![c] = "calling", ![w] = "starting"]
          \/ loop' = [loop EXCEPT ![c] = "calling"]
      BY DEF Spawn
    <2>2. QED
      BY <1>1, <1>2, <2>1
  <1>4. \A v \in Workers : v # w => parent'[v] = parent[v] /\ call'[v] = call[v]
    BY <1>1, <1>2
  <1>5. parent'[w] = c /\ call'[w] = "waiting"
    BY <1>1, <1>2
  <1>6. \A v \in Workers : ~(parent[v] = c /\ call[v] = "waiting")
    BY <1>2 DEF IInv, OneCallPerLoop
  <1>7. QED
    BY <1>2, <1>3, <1>4, <1>5, <1>6 DEF IInv, OneCallPerLoop

LEMMA CallReturnsKeeps ==
  ASSUME IInv, NEW w \in Workers, CallReturns(w)
  PROVE  PermitInv' /\ OneCallPerLoop'
  <1>1. /\ loop \in [Callers -> {"none", "starting", "busy", "calling", "over"}]
        /\ call \in [Workers -> {"none", "waiting", "result", "abandoned"}]
        /\ Workers \subseteq Callers
    BY LoopType DEF IInv
  <1>2. /\ call[w] = "waiting" /\ UNCHANGED <<queue, inFlight, parent>>
        /\ call' = [call EXCEPT ![w] = "result"]
        /\ loop' = [loop EXCEPT ![parent[w]] = "busy"]
    BY DEF CallReturns, semaphore
  <1>3. parent[w] \in Callers /\ loop[parent[w]] = "calling"
    BY <1>2, WaitingCaller
  <1>4. Running' = Running
    BY <1>1, <1>2, <1>3 DEF Running
  <1>5. PermitInv'
    BY <1>1, <1>2, <1>3, <1>4, PermitsKept DEF IInv
  <1>6. OneCallPerLoop'
    BY <1>1, <1>2, <1>3 DEF IInv, OneCallPerLoop
  <1>7. QED
    BY <1>5, <1>6

LEMMA AbortSignalsKeeps ==
  ASSUME IInv, NEW S, AbortSignals(S), UNCHANGED <<queue, inFlight>>
  PROVE  PermitInv' /\ OneCallPerLoop'
  <1>1. /\ loop \in [Callers -> {"none", "starting", "busy", "calling", "over"}]
        /\ call \in [Workers -> {"none", "waiting", "result", "abandoned"}]
        /\ Workers \subseteq Callers
    BY LoopType DEF IInv
  <1>2. /\ UNCHANGED parent
        /\ call' = [w \in Workers |-> IF w \in Heard(S) THEN "abandoned" ELSE call[w]]
        /\ loop' = [c \in Callers |->
                      IF \E w \in Heard(S) : parent[w] = c THEN "busy" ELSE loop[c]]
    BY DEF AbortSignals
  <1>3. \A w \in Heard(S) : w \in Workers /\ call[w] = "waiting"
    BY DEF Heard
  <1>4. \A w \in Heard(S) : parent[w] \in Callers /\ loop[parent[w]] = "calling"
    BY <1>3, WaitingCaller
  <1>5. Running' = Running /\ \A w \in Workers : loop'[w] = "none" <=> loop[w] = "none"
    BY <1>1, <1>2, <1>4 DEF Running
  <1>6. PermitInv'
    BY <1>1, <1>2, <1>3, <1>5, PermitsKept DEF IInv
  <1>7. ASSUME NEW c \in Callers
        PROVE  loop'[c] = "calling" <=> \E w \in Workers : parent'[w] = c /\ call'[w] = "waiting"
    <2>1. CASE \E w \in Heard(S) : parent[w] = c
      <3>1. PICK w \in Heard(S) : parent[w] = c
        BY <2>1
      <3>2. \A v \in Workers : parent[v] = c /\ call[v] = "waiting" => v = w
        BY <1>3, <3>1 DEF IInv, OneCallPerLoop
      <3>3. QED
        BY <1>1, <1>2, <3>1, <3>2
    <2>2. CASE ~ \E w \in Heard(S) : parent[w] = c
      BY <1>1, <1>2, <2>2 DEF IInv, OneCallPerLoop
    <2>3. QED
      BY <2>1, <2>2
  <1>8. \A w \in Workers : call'[w] = "waiting" => call[w] = "waiting"
    BY <1>2
  <1>9. OneCallPerLoop'
    BY <1>2, <1>7, <1>8 DEF IInv, OneCallPerLoop
  <1>10. QED
    BY <1>6, <1>9

-----------------------------------------------------------------------------
LEMMA NextIInv == IInv /\ [Next]_vars => IInv'
  <1> SUFFICES ASSUME IInv, [Next]_vars PROVE IInv'
    OBVIOUS
  <1>1. TypeOK'
    BY TypeStep DEF IInv
  <1>2. ASSUME NEW c \in Callers, NEW w \in Workers, Spawn(c, w)
        PROVE  PermitInv' /\ OneCallPerLoop'
    BY <1>2, SpawnPermits, SpawnCalls DEF IInv
  <1>3. ASSUME NEW w \in Workers, EngineRuns(w) PROVE PermitInv' /\ OneCallPerLoop'
    <2>1. /\ loop \in [Callers -> {"none", "starting", "busy", "calling", "over"}]
          /\ w \in Callers
      BY LoopType DEF IInv
    <2>2. /\ loop[w] = "starting" /\ loop' = [loop EXCEPT ![w] = "busy"]
          /\ UNCHANGED <<queue, inFlight, parent, call>>
      BY <1>3 DEF EngineRuns, semaphore, calls
    <2>3. Running' = Running
      BY <2>1, <2>2, LoopType DEF Running, IInv
    <2>4. PermitInv'
      BY <2>1, <2>2, <2>3, LoopType, PermitsKept DEF IInv
    <2>5. OneCallPerLoop'
      BY <2>1, <2>2, CallsKept DEF IInv
    <2>6. QED
      BY <2>4, <2>5
  <1>4. ASSUME NEW w \in Workers, NEW stopped, PassPermit(w, stopped),
               loop[w] \in {"starting", "busy"}, UNCHANGED <<parent, call>>
        PROVE  PermitInv' /\ OneCallPerLoop'
    <2>1. w \in Running
      BY <1>4 DEF Running
    <2>2. QED
      BY <1>4, <2>1, PassPermitPermits, PassPermitCalls DEF IInv
  <1>5. ASSUME NEW w \in Workers, EngineFails(w) PROVE PermitInv' /\ OneCallPerLoop'
    BY <1>4, <1>5 DEF EngineFails, calls
  <1>6. ASSUME NEW w \in Workers, Ends(w) PROVE PermitInv' /\ OneCallPerLoop'
    BY <1>4, <1>6 DEF Ends, LoopEnds, LoopThrows, calls
  <1>7. ASSUME NEW w \in Workers, CallReturns(w) PROVE PermitInv' /\ OneCallPerLoop'
    BY <1>7, CallReturnsKeeps
  <1>8. ASSUME NEW w \in Workers, WorkerTimeout(w) PROVE PermitInv' /\ OneCallPerLoop'
    BY <1>8, AbortSignalsKeeps DEF WorkerTimeout, AbortWorkers, semaphore
  <1>9. ASSUME NEW r \in Roots, Disconnect(r) PROVE PermitInv' /\ OneCallPerLoop'
    BY <1>9, AbortSignalsKeeps DEF Disconnect, semaphore
  <1>10. ASSUME NEW S, AbortHandles(S) PROVE PermitInv' /\ OneCallPerLoop'
    BY <1>10, AbortSignalsKeeps DEF AbortHandles, AbortWorkers, semaphore
  <1>11. ASSUME UNCHANGED vars PROVE PermitInv' /\ OneCallPerLoop'
    <2>1. UNCHANGED <<queue, inFlight, loop, parent, call>>
      BY <1>11 DEF vars
    <2>2. Running' = Running
      BY <2>1 DEF Running
    <2>3. PermitInv'
      BY <2>1, <2>2, PermitsKept DEF IInv
    <2>4. OneCallPerLoop'
      BY <2>1, CallsKept DEF IInv
    <2>5. QED
      BY <2>3, <2>4
  <1>12. PermitInv' /\ OneCallPerLoop'
    BY <1>2, <1>3, <1>5, <1>6, <1>7, <1>8, <1>9, <1>10, <1>11
       DEF Next, Starts, CallTimeout, DeleteAgent, AbortAll
  <1>13. QED
    BY <1>1, <1>12 DEF IInv

LEMMA SpecIInv == Spec => []IInv
  BY InitIInv, NextIInv, PTL DEF Spec

-----------------------------------------------------------------------------
(* Every variable keeps its type.                                          *)
THEOREM TypeCorrect == Spec => []TypeOK
  <1>1. IInv => TypeOK
    BY DEF IInv
  <1>2. QED
    BY <1>1, SpecIInv, PTL

(* The number of workers that run is the number of permits taken, and      *)
(* never more than the semaphore has.                                      *)
THEOREM PermitsAreBounded == Spec => []PermitsBounded
  <1>1. IInv => PermitsBounded
    BY DEF IInv, PermitInv
  <1>2. QED
    BY <1>1, SpecIInv, PTL

(* No task waits while a permit is free.                                   *)
THEOREM PermitsAreUsed == Spec => []NoIdlePermit
  <1>1. IInv => NoIdlePermit
    BY DEF IInv, PermitInv
  <1>2. QED
    BY <1>1, SpecIInv, PTL

(* A spawned task is in the queue exactly once, or has started.            *)
THEOREM TasksAreKept == Spec => []NoTaskLost
  <1>1. IInv => NoTaskLost
    BY DEF IInv, PermitInv
  <1>2. QED
    BY <1>1, SpecIInv, PTL

(* A loop waits for exactly the one worker its current call spawned.       *)
THEOREM CallsArePaired == Spec => []OneCallPerLoop
  <1>1. IInv => OneCallPerLoop
    BY DEF IInv
  <1>2. QED
    BY <1>1, SpecIInv, PTL

(* The semaphore of spawner.ts neither leaks nor invents a permit, leaves  *)
(* none idle while a task waits, and loses no task.                        *)
THEOREM PermitsStayInOrder == Spec => []PermitsInOrder
  <1>1. TypeOK /\ PermitsBounded /\ NoIdlePermit /\ NoTaskLost => PermitsInOrder
    BY DEF PermitsInOrder
  <1>2. QED
    BY <1>1, TypeCorrect, PermitsAreBounded, PermitsAreUsed, TasksAreKept, PTL

-----------------------------------------------------------------------------
(* The handles. A result is set as the task ends, a worker that is         *)
(* "aborted" has an aborted signal, one that ended has answered, and only  *)
(* spawned handles are listed or answered.                                 *)
Fresh(w) == ~Spawned(w) => answer[w] = NoReason /\ result[w] = NoReason

ResultAtEnd(w) == result[w] = NoReason <=> loop[w] # "over"

WorkerTrue(w) ==
    /\ worker[w] = "aborted" => aborted[w]
    /\ worker[w] \in {"completed", "errored"} => answer[w] # NoReason

Answered(w) ==
    answer[w] # NoReason => answer[w] = result[w] \/ (answer[w] = "interrupted" /\ aborted[w])

Listed == \A i \in Ids : active[i] # NoWorker => IdOf[active[i]] = i /\ Spawned(active[i])

HandleTrue(w) == Fresh(w) /\ ResultAtEnd(w) /\ WorkerTrue(w) /\ Answered(w)

HInv == IInv /\ Listed /\ \A w \in Workers : HandleTrue(w)

(* makeHandleId (spawner.ts) gives every handle an id of its own.          *)
UniqueIds == \A v, w \in Workers : IdOf[v] = IdOf[w] => v = w

(* Every handle that is listed and every answer still to come agree.       *)
LInv == UniqueIds => ListedWhileLive

(* A step that leaves a handle alone.                                      *)
LEMMA HandleKept ==
  ASSUME NEW w \in Workers, HandleTrue(w),
         answer'[w] = answer[w], result'[w] = result[w], worker'[w] = worker[w],
         loop'[w] = "over" <=> loop[w] = "over",
         aborted[w] => aborted'[w],
         Spawned(w) => Spawned(w)'
  PROVE  HandleTrue(w)'
  BY DEF HandleTrue, Fresh, ResultAtEnd, WorkerTrue, Answered

LEMMA ListedKept ==
  ASSUME Listed, \A i \in Ids : active'[i] \in {active[i], NoWorker}, UNCHANGED parent
  PROVE  Listed'
  BY DEF Listed, Spawned

(* Whoever has a loop or a call has been spawned.                          *)
LEMMA InUse ==
  ASSUME IInv, NEW w \in Workers, loop[w] # "none" \/ call[w] # "none"
  PROVE  Spawned(w)
  BY DEF IInv, PermitInv, Unused

LEMMA HandleTypes ==
  ASSUME TypeOK
  PROVE  /\ handle \in [Workers -> {"pending", "completed", "aborted", "errored"}]
         /\ worker \in [Workers -> {"running", "completed", "aborted", "errored"}]
         /\ answer \in [Workers -> Maybe] /\ result \in [Workers -> Maybe]
         /\ active \in [Ids -> Workers \cup {NoWorker}]
         /\ aborted \in [Callers -> BOOLEAN]
         /\ IdOf \in [Workers -> Ids] /\ NoWorker \notin Workers
  BY WorkerAssumption DEF TypeOK

LEMMA InitHandles == Init => HInv /\ LInv
  <1> SUFFICES ASSUME Init PROVE HInv /\ LInv
    OBVIOUS
  <1>1. IInv
    BY InitIInv
  <1>2. ASSUME NEW w \in Workers PROVE HandleTrue(w)
    <2>1. w \in Callers /\ w \notin Roots
      BY WorkerAssumption DEF Callers
    <2>2. QED
      BY <2>1 DEF Init, HandleTrue, Fresh, ResultAtEnd, WorkerTrue, Answered
  <1>3. Listed /\ ListedWhileLive
    BY WorkerAssumption DEF Init, Listed, ListedWhileLive, Spawned
  <1>4. QED
    BY <1>1, <1>2, <1>3 DEF HInv, LInv

LEMMA SpawnHandles ==
  ASSUME HInv, LInv, NEW c \in Callers, NEW w \in Workers, Spawn(c, w)
  PROVE  Listed' /\ LInv' /\ \A v \in Workers : HandleTrue(v)'
  <1>1. /\ Workers \subseteq Callers /\ c # NoCaller
        /\ loop \in [Callers -> {"none", "starting", "busy", "calling", "over"}]
        /\ parent \in [Workers -> Callers \cup {NoCaller}]
        /\ active \in [Ids -> Workers \cup {NoWorker}]
        /\ IdOf \in [Workers -> Ids] /\ NoWorker \notin Workers
    BY LoopType, HandleTypes, WorkerAssumption DEF HInv, IInv
  <1>2. /\ loop[c] = "busy" /\ ~Spawned(w) /\ loop[w] = "none"
        /\ parent' = [parent EXCEPT ![w] = c]
        /\ active' = [active EXCEPT ![IdOf[w]] = w]
        /\ UNCHANGED <<aborted, worker, answer, result>>
    BY DEF HInv, IInv, PermitInv, Unused, Spawn, NewHandle
  <1>3. \A v \in Workers : Spawned(v)' <=> Spawned(v) \/ v = w
    BY <1>1, <1>2 DEF Spawned
  <1>4. \A v \in Workers : loop'[v] = "over" <=> loop[v] = "over"
    <2>1. \/ loop' = [loop EXCEPT ![c] = "calling", ![w] = "starting"]
          \/ loop' = [loop EXCEPT ![c] = "calling"]
      BY DEF Spawn
    <2>2. QED
      BY <1>1, <1>2, <2>1
  <1>5. \A v \in Workers : HandleTrue(v)'
    BY <1>2, <1>3, <1>4, HandleKept DEF HInv
  <1>6. Listed'
    BY <1>1, <1>2, <1>3 DEF HInv, Listed
  <1>7. LInv'
    <2> SUFFICES ASSUME UniqueIds, NEW v \in Workers
                 PROVE  Spawned(v)' /\ answer'[v] = NoReason <=> active'[IdOf[v]] = v
      BY DEF LInv, ListedWhileLive, UniqueIds
    <2>1. CASE v = w
      <3>1. answer[w] = NoReason
        BY <1>2 DEF HInv, HandleTrue, Fresh
      <3>2. QED
        BY <1>1, <1>2, <1>3, <2>1, <3>1
    <2>2. CASE v # w
      <3>1. active'[IdOf[v]] = active[IdOf[v]]
        BY <1>1, <1>2, <2>2 DEF UniqueIds
      <3>2. QED
        BY <1>2, <1>3, <2>2, <3>1 DEF LInv, ListedWhileLive
    <2>3. QED
      BY <2>1, <2>2
  <1>8. QED
    BY <1>5, <1>6, <1>7

(* A task ends: its result is set, whatever its handle was told before.    *)
LEMMA EndHandles ==
  ASSUME HInv, LInv, NEW w \in Workers, loop[w] \in {"starting", "busy"},
         NEW r \in EndReason, SetResult(w, r), NEW stopped, PassPermit(w, stopped),
         NEW status \in {"completed", "errored", worker[w]},
         worker' = [worker EXCEPT ![w] = status],
         UNCHANGED <<aborted, parent>>
  PROVE  Listed' /\ LInv' /\ \A v \in Workers : HandleTrue(v)'
  <1>1. /\ Workers \subseteq Callers /\ TypeOK
        /\ loop \in [Callers -> {"none", "starting", "busy", "calling", "over"}]
        /\ worker \in [Workers -> {"running", "completed", "aborted", "errored"}]
        /\ answer \in [Workers -> Maybe] /\ result \in [Workers -> Maybe]
        /\ active \in [Ids -> Workers \cup {NoWorker}]
        /\ IdOf \in [Workers -> Ids] /\ NoWorker \notin Workers
    BY LoopType, HandleTypes DEF HInv, IInv
  <1>2. /\ result' = [result EXCEPT ![w] = r]
        /\ answer' = [answer EXCEPT ![w] = IF @ = NoReason THEN r ELSE @]
        /\ active' = [active EXCEPT ![IdOf[w]] = NoWorker]
    BY DEF SetResult
  <1>3. \A v \in Workers : loop'[v] = "over" <=> loop[v] = "over" \/ v = w
    <2>1. CASE queue = <<>>
      <3>1. loop' = [loop EXCEPT ![w] = "over"]
        BY <2>1 DEF PassPermit
      <3>2. QED
        BY <1>1, <3>1
    <2>2. CASE queue # <<>>
      <3>1. loop' = [loop EXCEPT ![w] = "over", ![Head(queue)] = "starting"]
        BY <2>2 DEF PassPermit
      <3>2. Head(queue) \in Workers /\ loop[Head(queue)] = "none"
        BY <2>2, NextInLine DEF HInv
      <3>3. QED
        BY <1>1, <3>1, <3>2
    <2>3. QED
      BY <2>1, <2>2
  <1>4. r # NoReason
    BY ReasonAssumption
  <1>5. HandleTrue(w) /\ Spawned(w) /\ result[w] = NoReason
    BY InUse DEF HInv, HandleTrue, ResultAtEnd
  <1>6. answer'[w] # NoReason /\ result'[w] = r /\ worker'[w] = status
    BY <1>1, <1>2, <1>4
  <1>7. HandleTrue(w)'
    <2>1. Fresh(w)'
      BY <1>5 DEF Fresh, Spawned
    <2>2. ResultAtEnd(w)'
      BY <1>3, <1>4, <1>6 DEF ResultAtEnd
    <2>3. WorkerTrue(w)'
      BY <1>5, <1>6 DEF HandleTrue, WorkerTrue
    <2>4. Answered(w)'
      BY <1>1, <1>2, <1>5, <1>6 DEF HandleTrue, Answered
    <2>5. QED
      BY <2>1, <2>2, <2>3, <2>4 DEF HandleTrue
  <1>8. ASSUME NEW v \in Workers, v # w PROVE HandleTrue(v)'
    <2>1. answer'[v] = answer[v] /\ result'[v] = result[v] /\ worker'[v] = worker[v]
      BY <1>1, <1>2, <1>8
    <2>2. QED
      BY <1>3, <1>8, <2>1, HandleKept DEF HInv, Spawned
  <1>9. Listed'
    BY <1>1, <1>2, ListedKept DEF HInv
  <1>10. LInv'
    <2> SUFFICES ASSUME UniqueIds, NEW v \in Workers
                 PROVE  Spawned(v)' /\ answer'[v] = NoReason <=> active'[IdOf[v]] = v
      BY DEF LInv, ListedWhileLive, UniqueIds
    <2>1. CASE v = w
      BY <1>1, <1>2, <1>6, <2>1
    <2>2. CASE v # w
      <3>1. active'[IdOf[v]] = active[IdOf[v]] /\ answer'[v] = answer[v]
        BY <1>1, <1>2, <2>2 DEF UniqueIds
      <3>2. QED
        BY <3>1 DEF LInv, ListedWhileLive, Spawned
    <2>3. QED
      BY <2>1, <2>2
  <1>11. QED
    BY <1>7, <1>8, <1>9, <1>10

(* An abort ends no loop and starts none.                                  *)
LEMMA AbortLoops ==
  ASSUME IInv, NEW S, AbortSignals(S)
  PROVE  /\ \A w \in Workers : loop'[w] = "over" <=> loop[w] = "over"
         /\ \A w \in Workers : aborted'[w] <=> aborted[w] \/ w \in S
         /\ UNCHANGED parent
  <1>1. Workers \subseteq Callers
    BY LoopType DEF IInv
  <1>2. \A w \in Heard(S) : loop[parent[w]] = "calling"
    BY WaitingCaller DEF Heard
  <1>3. QED
    BY <1>1, <1>2 DEF AbortSignals

LEMMA AbortWorkersHandles ==
  ASSUME HInv, NEW S \in SUBSET Workers, AbortWorkers(S)
  PROVE  /\ \A w \in Workers : loop'[w] = "over" <=> loop[w] = "over"
         /\ \A w \in Workers : aborted[w] => aborted'[w]
         /\ \A w \in Workers : worker'[w] = "aborted" => aborted'[w]
         /\ \A w \in Workers : worker'[w] \in {"completed", "errored"} => worker[w] = worker'[w]
         /\ \A w \in S : worker'[w] # "running"
         /\ UNCHANGED parent
  <1>1. /\ worker' = [w \in Workers |-> IF w \in Abortable(S) THEN "aborted" ELSE worker[w]]
        /\ AbortSignals(Abortable(S))
    BY DEF AbortWorkers
  <1>2. /\ \A w \in Workers : loop'[w] = "over" <=> loop[w] = "over"
        /\ \A w \in Workers : aborted'[w] <=> aborted[w] \/ w \in Abortable(S)
        /\ UNCHANGED parent
    BY <1>1, AbortLoops DEF HInv
  <1>3. \A w \in Workers : worker[w] = "aborted" => aborted[w]
    BY DEF HInv, HandleTrue, WorkerTrue
  <1>4. QED
    BY <1>1, <1>2, <1>3 DEF Abortable

LEMMA AbortHandlesHandles ==
  ASSUME HInv, LInv, NEW S \in SUBSET Workers, \A w \in S : Spawned(w), AbortHandles(S)
  PROVE  Listed' /\ LInv' /\ \A v \in Workers : HandleTrue(v)'
  <1>1. /\ answer \in [Workers -> Maybe] /\ active \in [Ids -> Workers \cup {NoWorker}]
        /\ worker \in [Workers -> {"running", "completed", "aborted", "errored"}]
        /\ worker' \in [Workers -> {"running", "completed", "aborted", "errored"}]
        /\ IdOf \in [Workers -> Ids] /\ NoWorker \notin Workers
    BY HandleTypes, AbortWorkersType DEF HInv, IInv, AbortHandles
  <1>2. /\ answer' = [w \in Workers |->
              IF w \in S /\ answer[w] = NoReason THEN "interrupted" ELSE answer[w]]
        /\ active' = [i \in Ids |-> IF \E w \in S : IdOf[w] = i THEN NoWorker ELSE active[i]]
        /\ UNCHANGED result
        /\ AbortWorkers(S)
    BY DEF AbortHandles
  <1>3. /\ \A w \in Workers : loop'[w] = "over" <=> loop[w] = "over"
        /\ \A w \in Workers : aborted[w] => aborted'[w]
        /\ \A w \in Workers : worker'[w] = "aborted" => aborted'[w]
        /\ \A w \in Workers : worker'[w] \in {"completed", "errored"} => worker[w] = worker'[w]
        /\ \A w \in S : worker'[w] # "running"
        /\ UNCHANGED parent
    BY <1>2, AbortWorkersHandles
  <1>4. "interrupted" # NoReason
    BY ReasonAssumption DEF EndReason
  <1>5. ASSUME NEW w \in Workers PROVE HandleTrue(w)'
    <2>1. HandleTrue(w)
      BY DEF HInv
    <2>2. Fresh(w)'
      BY <1>2, <1>3, <2>1 DEF HandleTrue, Fresh, Spawned
    <2>3. ResultAtEnd(w)'
      BY <1>2, <1>3, <2>1 DEF HandleTrue, ResultAtEnd
    <2>4. WorkerTrue(w)'
      BY <1>2, <1>3, <1>4, <2>1 DEF HandleTrue, WorkerTrue
    <2>5. Answered(w)'
      <3>1. CASE w \in S /\ answer[w] = NoReason
        <4>1. worker'[w] \notin {"completed", "errored"}
          BY <1>3, <2>1, <3>1 DEF HandleTrue, WorkerTrue
        <4>2. worker'[w] = "aborted"
          BY <1>1, <1>3, <3>1, <4>1
        <4>3. QED
          BY <1>2, <1>3, <3>1, <4>2 DEF Answered
      <3>2. CASE ~(w \in S /\ answer[w] = NoReason)
        BY <1>2, <1>3, <2>1, <3>2 DEF HandleTrue, Answered
      <3>3. QED
        BY <3>1, <3>2
    <2>6. QED
      BY <2>2, <2>3, <2>4, <2>5 DEF HandleTrue
  <1>6. Listed'
    BY <1>2, <1>3, ListedKept DEF HInv
  <1>7. LInv'
    <2> SUFFICES ASSUME UniqueIds, NEW v \in Workers
                 PROVE  Spawned(v)' /\ answer'[v] = NoReason <=> active'[IdOf[v]] = v
      BY DEF LInv, ListedWhileLive, UniqueIds
    <2>1. CASE v \in S
      BY <1>1, <1>2, <1>4, <2>1
    <2>2. CASE v \notin S
      <3>1. active'[IdOf[v]] = active[IdOf[v]] /\ answer'[v] = answer[v]
        BY <1>1, <1>2, <2>2 DEF UniqueIds
      <3>2. QED
        BY <1>3, <3>1 DEF LInv, ListedWhileLive, Spawned
    <2>3. QED
      BY <2>1, <2>2
  <1>8. QED
    BY <1>5, <1>6, <1>7

(* Steps that touch neither a handle nor the list of them.                 *)
LEMMA OthersHandles ==
  ASSUME HInv, LInv, UNCHANGED <<parent, active, answer, result>>,
         \A w \in Workers : loop'[w] = "over" <=> loop[w] = "over",
         \A w \in Workers : aborted[w] => aborted'[w],
         \A w \in Workers : worker'[w] = "aborted" => aborted'[w],
         \A w \in Workers : worker'[w] \in {"completed", "errored"} => worker[w] = worker'[w]
  PROVE  Listed' /\ LInv' /\ \A v \in Workers : HandleTrue(v)'
  <1>1. Listed'
    BY ListedKept DEF HInv
  <1>2. LInv'
    BY DEF LInv, ListedWhileLive, UniqueIds, Spawned
  <1>3. ASSUME NEW w \in Workers PROVE HandleTrue(w)'
    <2>1. HandleTrue(w)
      BY DEF HInv
    <2>2. Fresh(w)' /\ ResultAtEnd(w)' /\ WorkerTrue(w)' /\ Answered(w)'
      BY <2>1 DEF HandleTrue, Fresh, ResultAtEnd, WorkerTrue, Answered, Spawned
    <2>3. QED
      BY <2>2 DEF HandleTrue
  <1>4. QED
    BY <1>1, <1>2, <1>3

LEMMA NextHandles == HInv /\ LInv /\ [Next]_vars => HInv' /\ LInv'
  <1> SUFFICES ASSUME HInv, LInv, [Next]_vars PROVE HInv' /\ LInv'
    OBVIOUS
  <1> DEFINE Goal == Listed' /\ LInv' /\ \A v \in Workers : HandleTrue(v)'
  <1>0. IInv /\ IInv' /\ TypeOK
    BY NextIInv DEF HInv, IInv
  <1>a. \A w \in Workers : worker[w] = "aborted" => aborted[w]
    BY DEF HInv, HandleTrue, WorkerTrue
  <1>b. /\ Workers \subseteq Callers
        /\ loop \in [Callers -> {"none", "starting", "busy", "calling", "over"}]
        /\ worker \in [Workers -> {"running", "completed", "aborted", "errored"}]
        /\ active \in [Ids -> Workers \cup {NoWorker}]
        /\ "error" \in EndReason
    BY <1>0, LoopType, HandleTypes DEF EndReason
  <1>1. ASSUME NEW c \in Callers, NEW w \in Workers, Spawn(c, w) PROVE Goal
    BY <1>1, SpawnHandles
  <1>2. ASSUME NEW w \in Workers, EngineRuns(w) PROVE Goal
    <2>1. /\ loop[w] = "starting" /\ loop' = [loop EXCEPT ![w] = "busy"]
          /\ UNCHANGED <<parent, aborted, worker, active, answer, result>>
      BY <1>2 DEF EngineRuns, calls
    <2>2. \A v \in Workers : loop'[v] = "over" <=> loop[v] = "over"
      BY <1>b, <2>1
    <2>3. QED
      BY <1>a, <2>1, <2>2, OthersHandles
  <1>3. ASSUME NEW w \in Workers, EngineFails(w) PROVE Goal
    <2>1. /\ loop[w] = "starting" /\ SetResult(w, "error") /\ PassPermit(w, FALSE)
          /\ UNCHANGED <<aborted, parent, worker>>
      BY <1>3 DEF EngineFails, calls
    <2>2. worker' = [worker EXCEPT ![w] = worker[w]]
      BY <1>b, <2>1
    <2>3. QED
      BY <1>b, <2>1, <2>2, EndHandles
  <1>4. ASSUME NEW w \in Workers, NEW ended \in EndReason, LoopEnds(w, ended) PROVE Goal
    <2> DEFINE status == IF worker[w] = "running" THEN "completed" ELSE worker[w]
    <2>1. /\ loop[w] = "busy" /\ SetResult(w, Reported(w, ended)) /\ PassPermit(w, TRUE)
          /\ worker' = [worker EXCEPT ![w] = status]
          /\ UNCHANGED <<aborted, parent>>
      BY <1>4 DEF LoopEnds, calls
    <2>2. Reported(w, ended) \in EndReason
      BY ReportedType
    <2>3. status \in {"completed", "errored", worker[w]}
      OBVIOUS
    <2> HIDE DEF status
    <2>4. QED
      BY <2>1, <2>2, <2>3, EndHandles
  <1>5. ASSUME NEW w \in Workers, LoopThrows(w) PROVE Goal
    <2>1. /\ loop[w] = "busy" /\ SetResult(w, "error") /\ PassPermit(w, TRUE)
          /\ worker' = [worker EXCEPT ![w] = "errored"]
          /\ UNCHANGED <<aborted, parent>>
      BY <1>5 DEF LoopThrows, calls
    <2>2. QED
      BY <1>b, <2>1, EndHandles
  <1>6. ASSUME NEW w \in Workers, CallReturns(w) PROVE Goal
    <2>1. /\ loop' = [loop EXCEPT ![parent[w]] = "busy"]
          /\ UNCHANGED <<parent, aborted, worker, active, answer, result>>
          /\ call[w] = "waiting"
      BY <1>6 DEF CallReturns
    <2>2. parent[w] \in Callers /\ loop[parent[w]] = "calling"
      BY <1>0, <2>1, WaitingCaller
    <2>3. \A v \in Workers : loop'[v] = "over" <=> loop[v] = "over"
      BY <1>b, <2>1, <2>2
    <2>4. QED
      BY <1>a, <2>1, <2>3, OthersHandles
  <1>7. ASSUME NEW w \in Workers, WorkerTimeout(w) PROVE Goal
    <2>1. AbortWorkers({w}) /\ UNCHANGED <<active, answer, result>>
      BY <1>7 DEF WorkerTimeout
    <2>2. QED
      BY <2>1, AbortWorkersHandles, OthersHandles
  <1>8. ASSUME NEW r \in Roots, Disconnect(r) PROVE Goal
    <2>1. AbortSignals({r}) /\ UNCHANGED <<worker, active, answer, result>>
      BY <1>8 DEF Disconnect
    <2>2. QED
      BY <1>0, <1>a, <2>1, AbortLoops, OthersHandles
  <1>9. ASSUME NEW w \in Workers, CallTimeout(w) PROVE Goal
    <2>1. call[w] = "waiting" /\ AbortHandles({w})
      BY <1>9 DEF CallTimeout
    <2>2. Spawned(w)
      BY <1>0, <2>1, InUse
    <2>3. QED
      BY <2>1, <2>2, AbortHandlesHandles
  <1>10. ASSUME NEW i \in Ids, DeleteAgent(i) PROVE Goal
    <2>1. active[i] \in Workers /\ Spawned(active[i]) /\ AbortHandles({active[i]})
      BY <1>b, <1>10 DEF DeleteAgent, HInv, Listed
    <2>2. QED
      BY <2>1, AbortHandlesHandles
  <1>11. ASSUME AbortAll PROVE Goal
    <2> DEFINE S == {w \in Workers : active[IdOf[w]] = w}
    <2>1. AbortHandles(S)
      BY <1>11 DEF AbortAll
    <2>2. \A w \in S : Spawned(w)
      BY WorkerAssumption DEF HInv, Listed
    <2> HIDE DEF S
    <2>3. S \subseteq Workers
      BY DEF S
    <2>4. QED
      BY <2>1, <2>2, <2>3, AbortHandlesHandles
  <1>12. ASSUME UNCHANGED vars PROVE Goal
    <2>1. UNCHANGED <<loop, aborted, parent, worker, active, answer, result>>
      BY <1>12 DEF vars
    <2>2. QED
      BY <1>a, <2>1, OthersHandles
  <1>13. Goal
    BY <1>1, <1>2, <1>3, <1>4, <1>5, <1>6, <1>7, <1>8, <1>9, <1>10, <1>11, <1>12
       DEF Next, Starts, Ends
  <1>14. QED
    BY <1>0, <1>13 DEF HInv

LEMMA SpecHandles == Spec => [](HInv /\ LInv)
  BY InitHandles, NextHandles, PTL DEF Spec

(* What wait() answers is the worker's own result, unless its signal was   *)
(* aborted before there was one: a race of results, aborts and timers      *)
(* never answers with anything else.                                       *)
THEOREM AnswersAreResults == Spec => []AnswerIsResult
  <1>1. HInv => AnswerIsResult
    BY DEF HInv, HandleTrue, Answered, AnswerIsResult
  <1>2. QED
    BY <1>1, SpecHandles, PTL

(* With ids of their own, handles, answers and callers agree with the      *)
(* workers: DELETE and abortAll reach every handle that is still live and  *)
(* no other, and no loop is freed by another's worker.                     *)
THEOREM HandlesAreTrue ==
  ASSUME UniqueIds
  PROVE  Spec => []HandlesTrue
  <1>1. HInv /\ LInv => HandlesTrue
    BY DEF HInv, LInv, IInv, HandleTrue, Answered, AnswerIsResult, HandlesTrue
  <1>2. QED
    BY <1>1, SpecHandles, PTL
=============================================================================
