----------------------------- MODULE SubAgents -----------------------------
(***************************************************************************)
(* Sub-agents: the spawner with its semaphore, handles and list of active  *)
(* handles (server/src/agents/spawner.ts), the worker each handle drives   *)
(* (agents/worker.ts), the spawn_agent tool that waits for one             *)
(* (tools/spawn-agent.ts) and the DELETE route (server.ts).                *)
(*                                                                         *)
(* A caller is an agent loop that may call spawn_agent: a POST /message    *)
(* run (a root), or a worker, since every worker's engine has the tool     *)
(* too and shares the one semaphore. A loop runs its tools one after       *)
(* another, so it waits for at most one worker. Handlers run to completion *)
(* on the event loop; what follows a promise is a step of its own only     *)
(* where something else can come first.                                    *)
(***************************************************************************)
EXTENDS Naturals, Sequences, FiniteSets

CONSTANTS
    Workers,        \* the calls of spawn()
    Roots,          \* the loops of POST /message
    Ids, IdOf,      \* the id each handle is listed under
    MaxConcurrent,
    NoCaller, NoWorker, NoReason

Callers == Roots \cup Workers
Permits == IF MaxConcurrent > 1 THEN MaxConcurrent ELSE 1

ASSUME WorkerAssumption ==
    /\ MaxConcurrent \in Nat
    /\ IsFiniteSet(Workers)
    /\ IdOf \in [Workers -> Ids]
    /\ Roots \cap Workers = {}
    /\ NoCaller \notin Callers
    /\ NoWorker \notin Workers

EndReason == {"completed", "interrupted", "error", "max_turns"}
ASSUME ReasonAssumption == NoReason \notin EndReason

VARIABLES
    queue,       \* the semaphore: tasks that wait for a permit,
    inFlight,    \* and its count of the permits taken
    loop,        \* what each caller's loop is doing
    aborted,     \* its AbortSignal has aborted
    parent,      \* the caller whose spawn_agent call spawned the worker
    call,        \* that call: waiting, or what ended the wait
    listening,   \* that call hears the abort of its caller's signal
    worker,      \* SubAgentWorker.status
    timer,       \* the worker's own timer is armed
    handle,      \* LiveHandle.status
    answer,      \* what wait() resolved to
    result,      \* LiveHandle.result; set once, with `settled`
    active       \* the spawner's map from id to handle

semaphore == <<queue, inFlight>>
calls == <<parent, call, listening>>
vars == <<queue, inFlight, loop, aborted, parent, call, listening,
          worker, timer, handle, answer, result, active>>

Maybe == EndReason \cup {NoReason}

TypeOK ==
    /\ queue \in Seq(Workers)
    /\ inFlight \in Nat
    /\ loop \in [Callers -> {"none", "starting", "busy", "calling", "over"}]
    /\ aborted \in [Callers -> BOOLEAN]
    /\ parent \in [Workers -> Callers \cup {NoCaller}]
    /\ call \in [Workers -> {"none", "waiting", "result", "abandoned"}]
    /\ listening \in [Workers -> BOOLEAN]
    /\ worker \in [Workers -> {"running", "completed", "aborted", "errored"}]
    /\ timer \in [Workers -> BOOLEAN]
    /\ handle \in [Workers -> {"pending", "completed", "aborted", "errored"}]
    /\ answer \in [Workers -> Maybe]
    /\ result \in [Workers -> Maybe]
    /\ active \in [Ids -> Workers \cup {NoWorker}]

Init ==
    /\ queue = <<>>
    /\ inFlight = 0
    /\ loop = [c \in Callers |-> IF c \in Roots THEN "busy" ELSE "none"]
    /\ aborted = [c \in Callers |-> FALSE]
    /\ parent = [w \in Workers |-> NoCaller]
    /\ call = [w \in Workers |-> "none"]
    /\ listening = [w \in Workers |-> FALSE]
    /\ worker = [w \in Workers |-> "running"]
    /\ timer = [w \in Workers |-> FALSE]
    /\ handle = [w \in Workers |-> "pending"]
    /\ answer = [w \in Workers |-> NoReason]
    /\ result = [w \in Workers |-> NoReason]
    /\ active = [i \in Ids |-> NoWorker]

Spawned(w) == parent[w] # NoCaller

(* A handle that is new. Handles are interchangeable until they are used:  *)
(* taking them in a fixed order loses nothing.                             *)
NewHandle(w) == ~Spawned(w) /\ w = CHOOSE v \in Workers : ~Spawned(v)

Queued == {queue[k] : k \in DOMAIN queue}
Running == {w \in Workers : loop[w] \in {"starting", "busy", "calling"}}

-----------------------------------------------------------------------------
(* spawn(), called by spawn_agent, which then waits for the handle. The    *)
(* semaphore starts the task at once or queues it. The call may come from  *)
(* a loop that has been aborted since the prompt was answered (an "always" *)
(* answer is written to a file first): an abort that has already happened  *)
(* is not heard.                                                           *)
Spawn(c, w) ==
    /\ loop[c] = "busy"
    /\ NewHandle(w)
    /\ parent' = [parent EXCEPT ![w] = c]
    /\ call' = [call EXCEPT ![w] = "waiting"]
    /\ listening' = [listening EXCEPT ![w] = ~aborted[c]]
    /\ active' = [active EXCEPT ![IdOf[w]] = w]
    /\ \/ /\ inFlight < Permits
          /\ inFlight' = inFlight + 1
          /\ loop' = [loop EXCEPT ![c] = "calling", ![w] = "starting"]
          /\ timer' = [timer EXCEPT ![w] = TRUE]
          /\ UNCHANGED queue
       \/ /\ inFlight >= Permits
          /\ queue' = Append(queue, w)
          /\ loop' = [loop EXCEPT ![c] = "calling"]
          /\ UNCHANGED <<inFlight, timer>>
    /\ UNCHANGED <<aborted, worker, handle, answer, result>>

(* A bug PassPermit could have: nobody is woken.                           *)
PassPermitNoWakeUp(w, stopped) ==
    /\ inFlight' = inFlight - 1
    /\ loop' = [loop EXCEPT ![w] = "over"]
    /\ timer' = [timer EXCEPT ![w] = @ /\ ~stopped]
    /\ UNCHANGED queue

(* The permit of w goes to the longest-waiting task, which starts.         *)
PassPermit(w, stopped) ==
    IF queue = <<>>
    THEN /\ inFlight' = inFlight - 1
         /\ loop' = [loop EXCEPT ![w] = "over"]
         /\ timer' = [timer EXCEPT ![w] = @ /\ ~stopped]
         /\ UNCHANGED queue
    ELSE /\ queue' = Tail(queue)
         /\ loop' = [loop EXCEPT ![w] = "over", ![Head(queue)] = "starting"]
         /\ timer' = [timer EXCEPT ![w] = @ /\ ~stopped, ![Head(queue)] = TRUE]
         /\ UNCHANGED inFlight

(* setResult and setError: the first result counts, and the first to       *)
(* resolve the promise; the handle leaves the list here, so the timer that *)
(* spawn() sets to remove it after a window finds nothing to remove.       *)
StatusFor(reason) == IF reason = "error" THEN "errored"
                     ELSE IF reason = "interrupted" THEN "aborted" ELSE "completed"

SetResult(w, reason) ==
    /\ handle' = [handle EXCEPT ![w] = StatusFor(reason)]
    /\ result' = [result EXCEPT ![w] = reason]
    /\ answer' = [answer EXCEPT ![w] = IF @ = NoReason THEN reason ELSE @]
    /\ active' = [active EXCEPT ![IdOf[w]] = NoWorker]

(* worker.run: the engine factory is called outside the try block. When it *)
(* throws, the handle gets an error and the worker's timer stays armed.    *)
EngineRuns(w) ==
    /\ loop[w] = "starting"
    /\ loop' = [loop EXCEPT ![w] = "busy"]
    /\ UNCHANGED <<semaphore, aborted, calls, worker, timer, handle, answer, result, active>>

EngineFails(w) ==
    /\ loop[w] = "starting"
    /\ SetResult(w, "error")
    /\ PassPermit(w, FALSE)
    /\ UNCHANGED <<aborted, calls, worker>>

(* The reason run() reports for the one the engine ended with.             *)
Reported(w, ended) ==
    IF ended = "completed" /\ worker[w] = "aborted" THEN "interrupted" ELSE ended

(* The loop of a worker ends, by itself or because its signal aborted.     *)
LoopEnds(w, ended) ==
    /\ loop[w] = "busy"
    /\ SetResult(w, Reported(w, ended))
    /\ worker' = [worker EXCEPT ![w] = IF @ = "running" THEN "completed" ELSE @]
    /\ PassPermit(w, TRUE)
    /\ UNCHANGED <<aborted, calls>>

(* ... or its event stream throws.                                         *)
LoopThrows(w) ==
    /\ loop[w] = "busy"
    /\ SetResult(w, "error")
    /\ worker' = [worker EXCEPT ![w] = "errored"]
    /\ PassPermit(w, TRUE)
    /\ UNCHANGED <<aborted, calls>>

(* wait() has resolved and the call returns to its loop.                   *)
CallReturns(w) ==
    /\ call[w] = "waiting"
    /\ answer[w] # NoReason
    /\ call' = [call EXCEPT ![w] = "result"]
    /\ loop' = [loop EXCEPT ![parent[w]] = "busy"]
    /\ UNCHANGED <<semaphore, aborted, parent, listening, worker, timer,
                   handle, answer, result, active>>

-----------------------------------------------------------------------------
(* The calls that end when the signals of the callers in S abort: those    *)
(* that hear it and have no answer yet.                                    *)
Heard(S) ==
    {w \in Workers : /\ call[w] = "waiting" /\ answer[w] = NoReason
                     /\ listening[w]
                     /\ parent[w] \in S /\ ~aborted[parent[w]]}

(* The worker such a call waited for goes on.                              *)
AbortSignals(S) ==
    /\ aborted' = [c \in Callers |-> aborted[c] \/ c \in S]
    /\ call' = [w \in Workers |-> IF w \in Heard(S) THEN "abandoned" ELSE call[w]]
    /\ loop' = [c \in Callers |->
                   IF \E w \in Heard(S) : parent[w] = c THEN "busy" ELSE loop[c]]
    /\ UNCHANGED <<parent, listening>>

(* SubAgentWorker.abort: only a worker that has not ended can be aborted.  *)
Abortable(S) == {w \in S : worker[w] = "running"}

AbortWorkers(S) ==
    /\ worker' = [w \in Workers |-> IF w \in Abortable(S) THEN "aborted" ELSE worker[w]]
    /\ AbortSignals(Abortable(S))

(* A bug AbortHandles could have: the worker is not told.                  *)
AbortHandlesOnly(S) ==
    /\ handle' = [w \in Workers |-> IF w \in S THEN "aborted" ELSE handle[w]]
    /\ answer' = [w \in Workers |->
                    IF w \in S /\ answer[w] = NoReason THEN "interrupted" ELSE answer[w]]
    /\ active' = [i \in Ids |-> IF \E w \in S : IdOf[w] = i THEN NoWorker ELSE active[i]]
    /\ UNCHANGED <<semaphore, loop, aborted, calls, worker, timer, result>>

(* handle.abort(): whatever the worker does next, wait() resolves now, and *)
(* the handle leaves the list. The task keeps its permit, or its place in  *)
(* the queue.                                                              *)
AbortHandles(S) ==
    /\ handle' = [w \in Workers |-> IF w \in S THEN "aborted" ELSE handle[w]]
    /\ answer' = [w \in Workers |->
                    IF w \in S /\ answer[w] = NoReason THEN "interrupted" ELSE answer[w]]
    /\ active' = [i \in Ids |-> IF \E w \in S : IdOf[w] = i THEN NoWorker ELSE active[i]]
    /\ AbortWorkers(S)
    /\ UNCHANGED <<semaphore, timer, result>>

(* A bug CallTimeout could have: it aborts the worker and not its handle.  *)
CallTimeoutWorkerOnly(w) ==
    /\ call[w] = "waiting"
    /\ answer[w] = NoReason
    /\ AbortWorkers({w})
    /\ UNCHANGED <<semaphore, timer, handle, answer, result, active>>

(* The timer of the spawn_agent call, cleared once the call has returned.  *)
CallTimeout(w) ==
    /\ call[w] = "waiting"
    /\ answer[w] = NoReason
    /\ AbortHandles({w})

(* A bug WorkerTimeout could have: it is logged and nothing else.          *)
WorkerTimeoutLogged(w) ==
    /\ timer[w]
    /\ timer' = [timer EXCEPT ![w] = FALSE]
    /\ UNCHANGED <<semaphore, loop, aborted, calls, worker, handle, answer, result, active>>

(* The worker's timer; the handle is told nothing.                         *)
WorkerTimeout(w) ==
    /\ timer[w]
    /\ timer' = [timer EXCEPT ![w] = FALSE]
    /\ AbortWorkers({w})
    /\ UNCHANGED <<semaphore, handle, answer, result, active>>

(* DELETE /sessions/:id/agents/:agentId *)
DeleteAgent(i) ==
    /\ active[i] # NoWorker
    /\ AbortHandles({active[i]})

AbortAll ==
    /\ \E i \in Ids : active[i] # NoWorker
    /\ AbortHandles({w \in Workers : active[IdOf[w]] = w})

(* The client of POST /message goes away.                                  *)
Disconnect(r) ==
    /\ ~aborted[r]
    /\ AbortSignals({r})
    /\ UNCHANGED <<semaphore, worker, timer, handle, answer, result, active>>

-----------------------------------------------------------------------------
Starts(w) == EngineRuns(w) \/ EngineFails(w)
Ends(w) == LoopThrows(w) \/ \E r \in EndReason : LoopEnds(w, r)

Next ==
    \/ \E c \in Callers, w \in Workers : Spawn(c, w)
    \/ \E w \in Workers : \/ Starts(w) \/ Ends(w) \/ CallReturns(w)
                          \/ CallTimeout(w) \/ WorkerTimeout(w)
    \/ \E i \in Ids : DeleteAgent(i)
    \/ AbortAll
    \/ \E r \in Roots : Disconnect(r)

Spec == Init /\ [][Next]_vars

(* Promises run their reactions, timers fire, and a loop whose signal has  *)
(* aborted ends: the stream, the shell and the prompts all honour it. A    *)
(* loop that nobody aborts owes nothing, nor does a model or a client.     *)
FairSpec ==
    /\ Spec
    /\ \A w \in Workers :
          /\ WF_vars(Starts(w))
          /\ WF_vars(CallReturns(w))
          /\ WF_vars(CallTimeout(w))
          /\ WF_vars(WorkerTimeout(w))
          /\ WF_vars(aborted[w] /\ Ends(w))

-----------------------------------------------------------------------------
(* "The semaphore caps real concurrency": the permits taken are those of   *)
(* the tasks that run, whatever path started and ended each, and never     *)
(* more than there are.                                                    *)
PermitsBounded == inFlight = Cardinality(Running) /\ inFlight <= Permits

(* A task waits only while every permit is taken: no wake-up is lost.      *)
NoIdlePermit == queue # <<>> => inFlight = Permits

(* Every task that was spawned waits exactly once, runs, or is over: no    *)
(* abort, crash or timeout drops one from the queue or starts it twice.    *)
NoTaskLost ==
    /\ \A j, k \in DOMAIN queue : queue[j] = queue[k] => j = k
    /\ \A w \in Workers : w \in Queued <=> Spawned(w) /\ loop[w] = "none"

(* A handle nobody has answered is listed under its id, so that DELETE and *)
(* abortAll reach it, and a listed handle is one that can still be         *)
(* aborted (when ids are unique). That it leaves the list at once is what  *)
(* onSettled does, and not what the comment beside it says: see            *)
(* HeldForAWindow.                                                         *)
ListedWhileLive ==
    \A w \in Workers :
        Spawned(w) /\ answer[w] = NoReason <=> active[IdOf[w]] = w

(* What wait() answers is the worker's own result, unless the handle was   *)
(* aborted before the worker had one.                                      *)
AnswerIsResult ==
    \A w \in Workers : answer[w] # NoReason =>
        \/ answer[w] = result[w]
        \/ answer[w] = "interrupted" /\ aborted[w]

(* A loop waits for one worker of its own, and is not freed by another's.  *)
OneCallPerLoop ==
    \A c \in Callers :
        /\ loop[c] = "calling" <=>
              \E w \in Workers : parent[w] = c /\ call[w] = "waiting"
        /\ \A v, w \in Workers :
              parent[v] = c /\ parent[w] = c /\ call[v] = "waiting" /\ call[w] = "waiting"
                => v = w

(* The semaphore neither leaks nor invents a permit, leaves none idle      *)
(* while a task waits, and loses no task.                                  *)
PermitsInOrder == TypeOK /\ PermitsBounded /\ NoIdlePermit /\ NoTaskLost

(* The list of handles, what wait() answers and who waits for whom agree   *)
(* with the workers, however results, aborts, timers and DELETE race.      *)
HandlesTrue == ListedWhileLive /\ AnswerIsResult /\ OneCallPerLoop

(* Workers that hold every permit while they wait for workers in the queue *)
(* are freed in the end: every task that is spawned ends ...               *)
EveryTaskEnds == \A w \in Workers : Spawned(w) ~> loop[w] = "over"

(* ... and every call returns, even one that did not hear the abort.       *)
EveryCallReturns == \A w \in Workers : call[w] = "waiting" ~> call[w] # "waiting"

-----------------------------------------------------------------------------
(* "Transitions to `running` once the loop yields its first event"         *)
(* (spawner.ts, makeHandle).                                               *)
RunningWhenRunning ==
    \A w \in Workers : loop[w] \in {"busy", "calling"} /\ answer[w] = NoReason
                         => handle[w] = "running"

(* "Hold the handle in the active list for a short window so a late        *)
(* `list()` / `get()` call still sees it" (spawner.ts, spawn): the step    *)
(* that gives a handle its result leaves it in the list.                   *)
HeldForAWindow ==
    [][\A w \in Workers : result[w] = NoReason /\ result'[w] # NoReason
                            => active'[IdOf[w]] = active[IdOf[w]]]_vars
=============================================================================
