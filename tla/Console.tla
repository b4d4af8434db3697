------------------------------ MODULE Console ------------------------------
(***************************************************************************)
(* The terminal client and the route it streams from: how the client comes *)
(* to a session (tui/src/hooks/useSession.ts), its store (state/store.ts), *)
(* keys (components/App.tsx, InputBar.tsx, hooks/useInput.ts), streams     *)
(* (hooks/useStream.ts, client/sse.ts), and on the server the POST route   *)
(* with the event bus and what other clients of the session do             *)
(* (server/src/server.ts, events/bus.ts).                                  *)
(*                                                                         *)
(* Stream s is the s-th message the user sends; the client posts it once   *)
(* per attempt, and every post is a run of the agent. A connection may     *)
(* break, an answer may fail to come, and the session may be deleted, at   *)
(* any time. The loop behind a run is an environment that ends (module     *)
(* QueryEngine): it opens and closes messages, prompts, fails or stops.    *)
(*                                                                         *)
(* A key is handled by the handler of the last render whose effects ran,   *)
(* so what the handler sees of the store, `shown`, may be one render old.  *)
(***************************************************************************)
EXTENDS Integers, Sequences, FiniteSets, SequencesExt, Functions

CONSTANTS
    MaxSends,           \* bound: messages the user sends
    MaxAttempts,        \* SSE_DEFAULTS.maxAttempts
    MaxHealthChecks,    \* useSession's healthAttempts
    MaxTokens,          \* bound: tokens the loops emit
    MaxEvents,          \* bound: other events they emit before their last
    MaxQueue,           \* bound: events on the way on one connection
    MaxFaults           \* bound: broken connections, loops that throw, deletions

ASSUME ConsoleAssumption ==
    /\ MaxSends \in Nat \ {0} /\ MaxAttempts \in Nat \ {0}
    /\ MaxHealthChecks \in Nat \ {0}
    /\ MaxTokens \in Nat /\ MaxEvents \in Nat /\ MaxQueue \in Nat \ {0} /\ MaxFaults \in Nat

Streams == 1..MaxSends
NoStream == 0
Runs == Streams \X (1..MaxAttempts)

EventType == {"message_start", "token", "message_end", "approval_request",
              "approval_response", "session_end"}

(* A message of the chat is known by the stream that made it and a count.  *)
ChatId == Streams \X Nat
NoMessage == <<NoStream, 0>>
ChatMessage == [open : BOOLEAN, tokens : SUBSET Streams]

VARIABLES
    boot,           \* useSession: its status and the checks made
    store,          \* the store: isStreaming, pendingApproval, messages
    shown,          \* isStreaming, as the mounted key handler sees it
    modal,          \* App's pendingApproval: a prompt the user can answer
    ref,            \* currentMessageIdRef
    controllerRef,
    streams,        \* useStream and streamAgentEvents, per message sent
    runs,           \* the POST route and its connection, per attempt
    session,        \* on the server: does it exist
    spent,          \* the faults and events there have been
    overlapped      \* ghost: pairs of streams that were live together

client == <<boot, store, shown, modal, ref, controllerRef, streams>>
consoleVars == <<boot, store, shown, modal, ref, controllerRef, streams, runs, session, spent, overlapped>>

Idle == [pc |-> "unused", attempt |-> 0, aborted |-> FALSE, made |-> 0]
NoRun == [at |-> "none", prompting |-> FALSE, open |-> FALSE, subscribed |-> FALSE,
          aborted |-> FALSE, queue |-> <<>>]

ConsoleInit ==
    /\ boot = [status |-> "checking_server", checks |-> 0]
    /\ store = [streaming |-> FALSE, prompt |-> FALSE, chat |-> <<>>]
    /\ shown = FALSE
    /\ modal = FALSE
    /\ ref = NoMessage
    /\ controllerRef = NoStream
    /\ streams = [s \in Streams |-> Idle]
    /\ runs = [r \in Runs |-> NoRun]
    /\ session = FALSE
    /\ spent = [faults |-> 0, tokens |-> 0, events |-> 0]
    /\ overlapped = {}

Ready == boot.status = "ready"
Live == {s \in Streams : streams[s].pc \notin {"unused", "done"}}
Heard == {s \in Live : ~streams[s].aborted}

-----------------------------------------------------------------------------
(* useSession.refresh                                                      *)

BootTurns(status, checks) ==
    /\ boot' = [status |-> status, checks |-> checks]
    /\ UNCHANGED <<store, shown, modal, ref, controllerRef, streams, runs, spent, overlapped>>

HealthAnswers ==
    /\ boot.status \in {"checking_server", "rechecking"}
    /\ BootTurns("creating", 0)
    /\ UNCHANGED session

(* The default bootstrap starts nothing, so a failed check leads to two    *)
(* more.                                                                   *)
HealthFails ==
    /\ boot.status \in {"checking_server", "rechecking"}
    /\ LET last == boot.checks + 1
           allowed == IF boot.status = "rechecking" THEN 2 ELSE MaxHealthChecks
       IN  BootTurns(IF last < allowed THEN boot.status
                     ELSE IF boot.status = "rechecking" THEN "error" ELSE "rechecking",
                     IF last < allowed THEN last ELSE 0)
    /\ UNCHANGED session

(* POST /sessions, or GET of the session that --session names.             *)
SessionOpens ==
    /\ boot.status = "creating"
    /\ BootTurns("ready", 0)
    /\ session' = TRUE

SessionFails ==
    /\ boot.status = "creating"
    /\ BootTurns("error", 0)
    /\ \/ UNCHANGED session
       \/ session' = TRUE

-----------------------------------------------------------------------------
(* The keys. While `shown`, and while the modal is up, none is heard.      *)

KeyHeard == Ready /\ ~shown /\ ~modal

Render ==
    /\ shown # store.streaming
    /\ shown' = store.streaming
    /\ UNCHANGED <<boot, store, modal, ref, controllerRef, streams, runs, session, spent, overlapped>>

(* An attempt of s posts the message.                                      *)
Posted(s, n) == [runs EXCEPT ![<<s, n>>].at = "arriving", ![<<s, n>>].open = TRUE]

(* handleSubmit and send. The handler is deaf while the isStreaming it     *)
(* sees is true, so send's own test of it finds it false.                  *)
Send(s) ==
    /\ KeyHeard
    /\ streams[s].pc = "unused" /\ \A t \in 1..(s - 1) : streams[t].pc # "unused"
    /\ streams' = [streams EXCEPT ![s].pc = "posting", ![s].attempt = 1]
    /\ controllerRef' = s
    /\ ref' = NoMessage
    /\ store' = [store EXCEPT !.streaming = TRUE]
    /\ runs' = Posted(s, 1)
    /\ overlapped' = overlapped \cup {{s, t} : t \in Heard}
    /\ UNCHANGED <<boot, shown, modal, session, spent>>

(* Ctrl+C and /interrupt. The message being streamed stays open.           *)
Interrupt ==
    /\ KeyHeard
    /\ streams' = [s \in Streams |-> IF s = controllerRef
                                     THEN [streams[s] EXCEPT !.aborted = TRUE] ELSE streams[s]]
    /\ runs' = [r \in Runs |-> IF r[1] = controllerRef
                               THEN [runs[r] EXCEPT !.open = FALSE] ELSE runs[r]]
    /\ controllerRef' = NoStream
    /\ ref' = NoMessage
    /\ store' = [store EXCEPT !.streaming = FALSE]
    /\ UNCHANGED <<boot, shown, modal, session, spent, overlapped>>

Clear ==
    /\ KeyHeard
    /\ store.chat # <<>>
    /\ store' = [store EXCEPT !.chat = <<>>]
    /\ UNCHANGED <<boot, shown, modal, ref, controllerRef, streams, runs, session, spent, overlapped>>

-----------------------------------------------------------------------------
(* dispatch: what an event of stream s does to the store, ref and s.       *)

With(id, msg) == [i \in DOMAIN store.chat \cup {id} |-> IF i = id THEN msg ELSE store.chat[i]]

(* finalizeMessage: an id that /clear has removed is not found.            *)
Finalised(id) ==
    IF id \in DOMAIN store.chat THEN [store.chat EXCEPT ![id].open = FALSE] ELSE store.chat

Opens(s, tokens) ==
    LET id == <<s, streams[s].made + 1>>
    IN  /\ store' = [store EXCEPT !.chat = With(id, [open |-> TRUE, tokens |-> tokens]),
                                  !.streaming = TRUE]
        /\ ref' = id
        /\ streams' = [streams EXCEPT ![s].made = @ + 1]

Settles(s, ended) ==
    /\ store' = [store EXCEPT !.chat = Finalised(ref), !.prompt = IF ended THEN FALSE ELSE @]
    /\ ref' = NoMessage
    /\ streams' = IF ended THEN [streams EXCEPT ![s].pc = "closing"] ELSE streams

Says(s) ==
    /\ store' = IF ref \in DOMAIN store.chat
                THEN [store EXCEPT !.chat[ref].tokens = @ \cup {s}] ELSE store
    /\ UNCHANGED <<ref, streams>>

Dispatch(s, e) ==
    \/ e = "message_start" /\ Opens(s, {})
    \/ e = "token" /\ ref = NoMessage /\ Opens(s, {s})
    \/ e = "token" /\ ref # NoMessage /\ Says(s)
    \/ e = "message_end" /\ Settles(s, FALSE)
    \/ e = "session_end" /\ Settles(s, TRUE)
    \/ /\ e \in {"approval_request", "approval_response"}
       /\ store' = [store EXCEPT !.prompt = (e = "approval_request")]
       /\ UNCHANGED <<ref, streams>>

-----------------------------------------------------------------------------
(* streamAgentEvents and runStream                                         *)

Conn(s) == <<s, streams[s].attempt>>
Kept == UNCHANGED <<boot, shown, modal, session, spent, overlapped>>

(* The attempt is over: with an error, or with a stream that ended before  *)
(* session_end.                                                            *)
AttemptOver(s, failed) ==
    /\ streams' = [streams EXCEPT ![s].pc =
                    IF streams[s].attempt < MaxAttempts THEN "sleeping"
                    ELSE IF failed THEN "failed" ELSE "closing"]
    /\ UNCHANGED <<store, ref, controllerRef>>
    /\ Kept

Handshake(s) ==
    /\ streams[s].pc = "posting" /\ ~streams[s].aborted
    /\ runs[Conn(s)].open /\ runs[Conn(s)].at \in {"running", "over"}
    /\ streams' = [streams EXCEPT ![s].pc = "reading"]
    /\ UNCHANGED <<store, ref, controllerRef, runs>>
    /\ Kept

(* A status that is not 2xx, or a request the network lost: both are tried *)
(* again.                                                                  *)
PostFails(s) ==
    /\ streams[s].pc = "posting" /\ ~streams[s].aborted
    /\ ~runs[Conn(s)].open \/ runs[Conn(s)].at = "refused"
    /\ AttemptOver(s, TRUE)
    /\ UNCHANGED runs

Taken(s) == [runs EXCEPT ![Conn(s)].queue = Tail(@),
                         ![Conn(s)].open = @ /\ Head(runs[Conn(s)].queue) # "session_end"]

(* A bug Read could have: the signal is not looked at.                     *)
ReadRegardless(s) ==
    /\ streams[s].pc = "reading"
    /\ runs[Conn(s)].queue # <<>>
    /\ Dispatch(s, Head(runs[Conn(s)].queue))
    /\ runs' = Taken(s)
    /\ UNCHANGED controllerRef
    /\ Kept

Read(s) ==
    /\ streams[s].pc = "reading" /\ ~streams[s].aborted
    /\ runs[Conn(s)].queue # <<>>
    /\ Dispatch(s, Head(runs[Conn(s)].queue))
    /\ runs' = Taken(s)
    /\ UNCHANGED controllerRef
    /\ Kept

(* The body ends: closed by the server, or broken.                         *)
BodyEnds(s) ==
    /\ streams[s].pc = "reading" /\ ~streams[s].aborted
    /\ runs[Conn(s)].queue = <<>>
    /\ ~runs[Conn(s)].open \/ runs[Conn(s)].at = "over"
    /\ AttemptOver(s, ~runs[Conn(s)].open)
    /\ runs' = [runs EXCEPT ![Conn(s)].open = FALSE]

Wake(s) ==
    /\ streams[s].pc = "sleeping" /\ ~streams[s].aborted
    /\ streams' = [streams EXCEPT ![s].pc = "posting", ![s].attempt = @ + 1]
    /\ runs' = Posted(s, streams[s].attempt + 1)
    /\ UNCHANGED <<store, ref, controllerRef>>
    /\ Kept

(* A bug Finish could have: a stream that failed leaves the flag set.      *)
FinishUnlessFailed(s) ==
    /\ \/ streams[s].pc \in {"closing", "failed"}
       \/ streams[s].aborted /\ streams[s].pc # "done"
    /\ store' = [store EXCEPT !.streaming = @ /\ streams[s].pc = "failed"]
    /\ controllerRef' = IF controllerRef = s THEN NoStream ELSE controllerRef
    /\ ref' = NoMessage
    /\ streams' = [streams EXCEPT ![s].pc = "done"]
    /\ UNCHANGED runs
    /\ Kept

(* send's catch and finally. The finally block also resets what a later    *)
(* stream has set. What the connection still holds is dropped with it.    *)
Finish(s) ==
    /\ \/ streams[s].pc \in {"closing", "failed"}
       \/ streams[s].aborted /\ streams[s].pc # "done"
    /\ LET failed == streams[s].pc = "failed" /\ ~streams[s].aborted
       IN  store' = [store EXCEPT !.chat = IF failed THEN Finalised(ref) ELSE @,
                                  !.streaming = FALSE]
    /\ controllerRef' = IF controllerRef = s THEN NoStream ELSE controllerRef
    /\ ref' = NoMessage
    /\ streams' = [streams EXCEPT ![s].pc = "done"]
    /\ runs' = [runs EXCEPT ![Conn(s)].queue = <<>>]
    /\ Kept

-----------------------------------------------------------------------------
(* POST /sessions/:id/message and the event bus                            *)

ServerKept == UNCHANGED <<client, session, spent, overlapped>>
Fault == spent.faults < MaxFaults /\ spent' = [spent EXCEPT !.faults = @ + 1]

(* The session is not there when the request comes.                        *)
Refuse(r) ==
    /\ runs[r].at = "arriving" /\ ~session
    /\ runs' = [runs EXCEPT ![r].at = "refused"]
    /\ ServerKept

(* The message is stored (module Sessions), the loop starts and the        *)
(* connection subscribes.                                                  *)
Subscribe(r) ==
    /\ runs[r].at = "arriving" /\ session
    /\ runs' = [runs EXCEPT ![r].at = "running", ![r].subscribed = TRUE]
    /\ ServerKept

Queued(r, e) == IF runs[r].open THEN [runs[r] EXCEPT !.queue = Append(@, e)] ELSE runs[r]
HasRoom(r) == Len(runs[r].queue) < MaxQueue \/ ~runs[r].open

Bound(e) == IF e = "token" THEN [kind |-> "tokens", most |-> MaxTokens]
            ELSE [kind |-> "events", most |-> MaxEvents]

(* The loop's events come in any order: the client is to stand tokens that *)
(* no message_start announced. An event sent to a lost client is dropped.  *)
Emit(r, e) ==
    /\ runs[r].at = "running" /\ runs[r].open
    /\ spent[Bound(e).kind] < Bound(e).most /\ HasRoom(r)
    /\ e \notin {"approval_request", "approval_response", "session_end"}
    /\ runs' = [runs EXCEPT ![r].queue = Append(@, e), ![r].prompting = FALSE]
    /\ spent' = [spent EXCEPT ![Bound(e).kind] = @ + 1]
    /\ UNCHANGED <<client, session, overlapped>>

(* bus.publish: every connection of the session is sent the event.         *)
Published(e) == [q \in Runs |-> IF runs[q].subscribed THEN Queued(q, e) ELSE runs[q]]
BusHasRoom == \A q \in Runs : runs[q].subscribed => HasRoom(q)

(* The loop waits for the user (module PendingApprovals), unless its signal *)
(* is aborted, and the request is put on the bus of the session.           *)
Ask(r) ==
    /\ runs[r].at = "running"
    /\ spent.events < MaxEvents /\ BusHasRoom
    /\ runs' = [q \in Runs |->
                 IF q = r THEN [Published("approval_request")[r] EXCEPT !.prompting = ~runs[r].aborted]
                 ELSE Published("approval_request")[q]]
    /\ spent' = [spent EXCEPT !.events = @ + 1]
    /\ UNCHANGED <<client, session, overlapped>>

(* A bug Ended could have: the connection stays on the bus.                *)
EndedListening(run) == [run EXCEPT !.at = "over"]

(* The loop stops, with session_end or by an exception; the finally block  *)
(* unsubscribes and closes.                                                *)
Ended(run) == [NoRun EXCEPT !.at = "over", !.open = run.open, !.queue = run.queue]

LoopEnds(r) ==
    /\ runs[r].at = "running" /\ HasRoom(r)
    /\ runs' = [runs EXCEPT ![r] = Ended(Queued(r, "session_end"))]
    /\ ServerKept

LoopThrows(r) ==
    /\ runs[r].at = "running"
    /\ runs' = [runs EXCEPT ![r] = Ended(runs[r])]
    /\ Fault
    /\ UNCHANGED <<client, session, overlapped>>

(* stream.onAbort: unsubscribe and abort the loop, and with it its wait.   *)
ClientGone(r) ==
    /\ runs[r].at = "running" /\ ~runs[r].open /\ ~runs[r].aborted
    /\ runs' = [runs EXCEPT ![r].subscribed = FALSE, ![r].aborted = TRUE, ![r].prompting = FALSE]
    /\ ServerKept

Break(r) ==
    /\ runs[r].open /\ runs[r].at \in {"arriving", "running"}
    /\ runs' = [runs EXCEPT ![r].open = FALSE, ![r].queue = <<>>]
    /\ Fault
    /\ UNCHANGED <<client, session, overlapped>>

-----------------------------------------------------------------------------
(* Other clients of the same session                                       *)

(* POST /sessions/:id/approve answers a prompt and publishes the answer to *)
(* every subscriber.                                                       *)
Approve(r) ==
    /\ session /\ runs[r].prompting
    /\ BusHasRoom
    /\ runs' = [q \in Runs |->
                 [Published("approval_response")[q] EXCEPT !.prompting = runs[q].prompting /\ q # r]]
    /\ ServerKept

(* The session is deleted, and every prompt is answered for its run.       *)
Delete ==
    /\ session /\ Ready
    /\ session' = FALSE
    /\ runs' = [r \in Runs |-> [runs[r] EXCEPT !.prompting = FALSE]]
    /\ Fault
    /\ UNCHANGED <<client, overlapped>>

-----------------------------------------------------------------------------
Boot == HealthAnswers \/ HealthFails \/ SessionOpens \/ SessionFails
Stream(s) == Handshake(s) \/ PostFails(s) \/ Read(s) \/ BodyEnds(s) \/ Wake(s) \/ Finish(s)
Loop(r) == Refuse(r) \/ Subscribe(r) \/ LoopEnds(r) \/ LoopThrows(r)

ConsoleNext ==
    \/ Boot \/ Render \/ Interrupt \/ Clear
    \/ \E s \in Streams : Send(s) \/ Stream(s)
    \/ \E r \in Runs : Loop(r) \/ ClientGone(r) \/ Break(r) \/ Ask(r) \/ Approve(r)
    \/ \E r \in Runs, e \in EventType : Emit(r, e)
    \/ Delete

(* Something goes on as long as the client has something to do or a run    *)
(* could end: each of these steps is taken a bounded number of times.      *)
Fairness ==
    WF_consoleVars(Render \/ (\E s \in Streams : Stream(s)) \/ (\E r \in Runs : Loop(r)))

ConsoleSpec == ConsoleInit /\ [][ConsoleNext]_consoleVars /\ Fairness

-----------------------------------------------------------------------------
ConsoleTypeOK ==
    /\ boot \in [status : {"checking_server", "rechecking", "creating", "ready", "error"},
                 checks : 0..MaxHealthChecks]
    /\ store.streaming \in BOOLEAN /\ store.prompt \in BOOLEAN
    /\ DOMAIN store.chat \subseteq ChatId
    /\ \A id \in DOMAIN store.chat : store.chat[id] \in ChatMessage
    /\ shown \in BOOLEAN /\ modal \in BOOLEAN
    /\ ref \in ChatId \cup {NoMessage}
    /\ controllerRef \in Streams \cup {NoStream}
    /\ streams \in [Streams -> [pc : {"unused", "posting", "reading", "sleeping", "failed",
                                      "closing", "done"},
                                attempt : 0..MaxAttempts, aborted : BOOLEAN, made : Nat]]
    /\ \A r \in Runs :
         /\ runs[r].at \in {"none", "arriving", "refused", "running", "over"}
         /\ runs[r].queue \in Seq(EventType) /\ Len(runs[r].queue) <= MaxQueue
         /\ {runs[r].prompting, runs[r].open, runs[r].subscribed, runs[r].aborted} \subseteq BOOLEAN
    /\ session \in BOOLEAN
    /\ spent \in [faults : 0..MaxFaults, tokens : 0..MaxTokens, events : 0..MaxEvents]

(* Every connection on the bus is that of a run that goes on, and a run    *)
(* whose client has not been lost is on the bus: no event is published to  *)
(* a connection that has been closed (server.ts:730-769, bus.ts:23-69).    *)
SubscribersAreLive ==
    \A r \in Runs : runs[r].subscribed <=> runs[r].at = "running" /\ ~runs[r].aborted

(* The client's and the server's records of who listens are of their types *)
(* and in step.                                                            *)
StreamsInStep == ConsoleTypeOK /\ SubscribersAreLive

(* A message of the chat has text of the stream that opened it and of no   *)
(* other, unless the two streams were open at once: the reference to the   *)
(* current message is shared by all streams (useStream.ts:114, 220-229).   *)
TokensStayHome ==
    \A id \in DOMAIN store.chat : \A s \in store.chat[id].tokens :
        s = id[1] \/ {s, id[1]} \in overlapped

(* Once the user has interrupted a stream, nothing that still arrives on   *)
(* it changes the chat (sse.ts:79, useStream.ts:304).                      *)
AbortedIsSilent ==
    [][\A s \in Streams :
         (streams[s].aborted /\ <<streams[s], runs[Conn(s)]>>' # <<streams[s], runs[Conn(s)]>>)
            => store'.chat = store.chat]_consoleVars

(* The input bar, which is deaf while a stream is on, is freed in the end, *)
(* however the stream fails (useStream.ts:199-229).                        *)
InputComesBack == shown ~> ~shown

(* App.tsx:338: when an approval_request event arrives, surface the modal. *)
PromptSurfaces == store.prompt => modal

(* useStream.ts:150: we never have two open at once.                       *)
NeverTwoOpen == Cardinality(Heard) <= 1
=============================================================================
