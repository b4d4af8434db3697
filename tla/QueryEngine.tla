---------------------------- MODULE QueryEngine ----------------------------
(***************************************************************************)
(* The agent loop for one user message: QueryEngine.run, runOneTurn and    *)
(* runOneTool (server/src/loop/query-engine.ts), with the compaction       *)
(* cascade (loop/compaction.ts) and the token budget (loop/token-budget.ts) *)
(* it consults before each call of the model.                              *)
(*                                                                         *)
(* A step goes from one await to the next. The abort of the run's signal   *)
(* can come between any two. The provider sends any chunks it likes, may   *)
(* throw, and may refuse to summarise; a hook may block. Of the events the *)
(* loop emits, those that open or close something are kept.                *)
(***************************************************************************)
EXTENDS Naturals, Sequences, FiniteSets

CONSTANTS
    CallIds,            \* tool call ids the model uses
    MaxTurns,
    MaxCalls,           \* bound: tool calls in one run
    Threshold,          \* used tokens at which the budget is near its limit
    LongTokens,         \* what a long output or summary weighs more
    FailureThreshold    \* autoCompactFailureThreshold

ASSUME LoopAssumption ==
    /\ MaxTurns \in Nat /\ MaxCalls \in Nat
    /\ Threshold \in Nat \ {0} /\ LongTokens \in Nat
    /\ FailureThreshold \in Nat \ {0}

NoId == "none"

(* A history entry. The request is the user message of this run.           *)
Entry == [kind : {"user", "request", "text", "use", "result", "summary"},
          id : CallIds \cup {NoId}, long : BOOLEAN]
Plain(kind) == [kind |-> kind, id |-> NoId, long |-> FALSE]
Summary(long) == [kind |-> "summary", id |-> NoId, long |-> long]
Use(i) == [kind |-> "use", id |-> i, long |-> FALSE]
Result(i, long) == [kind |-> "result", id |-> i, long |-> long]

Event == [type : {"session_start", "message_start", "message_end", "tool_start",
                  "tool_end", "fatal", "compaction_failed", "session_end"},
          id : CallIds \cup {NoId}]
Emit(type) == <<[type |-> type, id |-> NoId]>>
EmitFor(type, i) == <<[type |-> type, id |-> i]>>

EndReason == {"completed", "interrupted", "error", "max_turns"}
Phase == {"start", "head", "turn", "auto", "full", "prompt", "stream", "tools",
          "over", "dropped"}

VARIABLES
    phase,       \* the await the loop is at
    aborted,     \* the run's AbortSignal has aborted
    turn,        \* model calls, counted at the head of the loop
    messages,    \* currentMessages
    working,     \* workingMessages: what this turn sends to the model
    used,        \* the budget's counter; what is beyond Threshold is not told apart
    failures,    \* autoCompactFailures
    noAuto,      \* noAutoCompact: the circuit breaker
    text,        \* textAccumulated is not empty
    requests,    \* pendingToolCalls
    fatal,       \* sawFatal
    done,        \* toolOutcomes, as the entries they will append
    events,      \* this turn's events
    out,         \* what run() has yielded
    ended        \* the reason of session_end

compaction == <<failures, noAuto>>
reply == <<text, requests, fatal, done>>
vars == <<phase, aborted, turn, messages, working, used, failures, noAuto,
          text, requests, fatal, done, events, out, ended>>

TypeOK ==
    /\ phase \in Phase
    /\ aborted \in BOOLEAN
    /\ turn \in 0..MaxTurns
    /\ messages \in Seq(Entry)
    /\ working \in Seq(Entry)
    /\ used \in 0..Threshold
    /\ failures \in 0..FailureThreshold
    /\ noAuto \in BOOLEAN
    /\ text \in BOOLEAN
    /\ requests \in Seq(CallIds)
    /\ fatal \in BOOLEAN
    /\ done \in Seq(Entry)
    /\ events \in Seq(Event)
    /\ out \in Seq(Event)
    /\ ended \in EndReason \cup {NoId}

(* The history holds what earlier messages left behind: user messages      *)
(* only, since nothing else is stored.                                     *)
Init ==
    /\ phase = "start"
    /\ aborted \in BOOLEAN
    /\ turn = 0
    /\ messages \in {<<>>, <<Plain("user")>>}
    /\ working = <<>>
    /\ used = 0
    /\ failures = 0
    /\ noAuto = FALSE
    /\ text = FALSE
    /\ requests = <<>>
    /\ fatal = FALSE
    /\ done = <<>>
    /\ events = <<>>
    /\ out = <<>>
    /\ ended = NoId

-----------------------------------------------------------------------------
Cap(n) == IF n > Threshold THEN Threshold ELSE n
High(n) == n >= Threshold

(* estimateMessagesTokens: one token for each entry, more for a long one.  *)
Estimate(ms) ==
    Cap(Len(ms) + LongTokens * Cardinality({j \in DOMAIN ms : ms[j].long}))

(* run() up to the loop.                                                   *)
Start ==
    /\ phase = "start"
    /\ phase' = "head"
    /\ messages' = Append(messages, Plain("request"))
    /\ out' = Emit("session_start")
    /\ UNCHANGED <<aborted, turn, working, used, compaction, reply, events, ended>>

(* The turn's events and session_end are yielded.                          *)
End(reason, turnEvents) ==
    /\ phase' = "over"
    /\ ended' = reason
    /\ out' = out \o turnEvents \o Emit("session_end")

(* A bug LoopHead could have: a run whose signal has aborted neither goes  *)
(* on nor ends.                                                            *)
LoopHeadWaits ==
    /\ phase = "head"
    /\ ~aborted
    /\ IF turn >= MaxTurns
       THEN End("max_turns", <<>>) /\ UNCHANGED <<turn, working, events>>
       ELSE /\ turn' = turn + 1
            /\ phase' = "turn"
            /\ working' = messages
            /\ events' = <<>>
            /\ UNCHANGED <<out, ended>>
    /\ UNCHANGED <<aborted, messages, used, compaction, reply>>

(* while (turn < maxTurns) ...                                             *)
LoopHead ==
    /\ phase = "head"
    /\ IF turn >= MaxTurns
       THEN End("max_turns", <<>>) /\ UNCHANGED <<turn, working, events>>
       ELSE IF aborted
       THEN End("interrupted", <<>>) /\ UNCHANGED <<turn, working, events>>
       ELSE /\ turn' = turn + 1
            /\ phase' = "turn"
            /\ working' = messages
            /\ events' = <<>>
            /\ UNCHANGED <<out, ended>>
    /\ UNCHANGED <<aborted, messages, used, compaction, reply>>

(* A send to the client fails: the route leaves the generator where it     *)
(* yielded.                                                                *)
ClientLost ==
    /\ phase \in {"head", "turn"}
    /\ phase' = "dropped"
    /\ aborted' = TRUE
    /\ UNCHANGED <<turn, messages, working, used, compaction, reply, events, out, ended>>

-----------------------------------------------------------------------------
(* Compaction                                                              *)

Truncated(ms) == [j \in DOMAIN ms |-> [ms[j] EXCEPT !.long = @ /\ ms[j].kind # "result"]]

LastUser(ms) ==
    CHOOSE j \in DOMAIN ms :
        /\ ms[j].kind \in {"user", "request"}
        /\ \A k \in DOMAIN ms : ms[k].kind \in {"user", "request"} => k <= j

(* buildReplacement: the summary and the last user message.                *)
Replacement(ms, long) == <<Summary(long), ms[LastUser(ms)]>>

(* clearedBudget = FALSE makes the loop report a failure.                  *)
Cleared(b) == events' = IF b THEN events ELSE events \o Emit("compaction_failed")

(* The turn begins: when the budget is near its limit, micro truncates the *)
(* long outputs. (It drops outputs ten user messages old: in a run every   *)
(* output comes after the last user message, so none is.)                  *)
Micro ==
    /\ phase = "turn"
    /\ IF ~High(used)
       THEN phase' = "prompt" /\ UNCHANGED <<working, used, events>>
       ELSE /\ working' = Truncated(working)
            /\ used' = Estimate(working')
            /\ IF ~High(used')
               THEN phase' = "prompt" /\ Cleared(working' # working)
               ELSE phase' = (IF noAuto THEN "full" ELSE "auto") /\ UNCHANGED events
    /\ UNCHANGED <<aborted, turn, messages, compaction, reply, out, ended>>

Summarised(long) ==
    /\ ~aborted
    /\ working' = Replacement(working, long)
    /\ used' = Estimate(working')

AutoSummary(long) ==
    /\ phase = "auto"
    /\ Summarised(long)
    /\ failures' = 0
    /\ phase' = IF High(used') THEN "full" ELSE "prompt"
    /\ UNCHANGED <<aborted, turn, messages, noAuto, reply, events, out, ended>>

(* A bug AutoFails could have: the breaker waits for one failure more.     *)
AutoFailsOnceMore ==
    /\ phase = "auto"
    /\ failures' = failures + 1
    /\ noAuto' = (noAuto \/ failures' > FailureThreshold)
    /\ phase' = "full"
    /\ UNCHANGED <<aborted, turn, messages, working, used, reply, events, out, ended>>

(* The summary call throws, is aborted or returns nothing. The budget is   *)
(* as high as micro left it.                                               *)
AutoFails ==
    /\ phase = "auto"
    /\ failures' = failures + 1
    /\ noAuto' = (noAuto \/ failures' >= FailureThreshold)
    /\ phase' = "full"
    /\ UNCHANGED <<aborted, turn, messages, working, used, reply, events, out, ended>>

Full(long) ==
    /\ phase = "full"
    /\ Summarised(long)
    /\ phase' = "prompt"
    /\ Cleared(~High(used'))
    /\ UNCHANGED <<aborted, turn, messages, compaction, reply, out, ended>>

FullFails ==
    /\ phase = "full"
    /\ phase' = "prompt"
    /\ Cleared(~High(used))
    /\ UNCHANGED <<aborted, turn, messages, working, used, compaction, reply, out, ended>>

-----------------------------------------------------------------------------
(* The call of the model                                                   *)

(* The signal has aborted, or a PreAPICall hook blocks.                    *)
NotCalled ==
    /\ phase = "prompt"
    /\ End("completed", events)
    /\ UNCHANGED <<aborted, turn, messages, working, used, compaction, reply, events>>

CallModel ==
    /\ phase = "prompt"
    /\ ~aborted
    /\ phase' = "stream"
    /\ events' = events \o Emit("message_start")
    /\ text' = FALSE
    /\ requests' = <<>>
    /\ fatal' = FALSE
    /\ done' = <<>>
    /\ UNCHANGED <<aborted, turn, messages, working, used, compaction, out, ended>>

(* Tools whose end the client has been told of.                            *)
Ran == {j \in DOMAIN out : out[j].type = "tool_end"}

(* A chunk that arrives before the abort: text, a tool call, usage that    *)
(* brings the budget near its limit (less is not told apart), or a fatal   *)
(* error, in any order and number.                                         *)
Chunk ==
    /\ phase = "stream"
    /\ ~aborted
    /\ \/ text' = TRUE /\ UNCHANGED <<requests, fatal, used>>
       \/ /\ Len(requests) + Cardinality(Ran) < MaxCalls
          /\ \E i \in CallIds : requests' = Append(requests, i)
          /\ UNCHANGED <<text, fatal, used>>
       \/ used' = Threshold /\ UNCHANGED <<text, requests, fatal>>
       \/ fatal' = TRUE /\ UNCHANGED <<text, requests, used>>
    /\ UNCHANGED <<phase, aborted, turn, messages, working, compaction, done, events, out, ended>>

(* The stream ends, or its next chunk finds the signal aborted. A          *)
(* PostAPICall hook may block.                                             *)
StreamEnds ==
    /\ phase = "stream"
    /\ LET all == events \o Emit("message_end")
       IN \/ End("completed", all) /\ UNCHANGED events
          \/ fatal /\ End("error", all) /\ UNCHANGED events
          \/ ~fatal /\ requests = <<>> /\ End("completed", all) /\ UNCHANGED events
          \/ /\ ~fatal /\ requests # <<>>
             /\ phase' = "tools"
             /\ events' = all
             /\ UNCHANGED <<out, ended>>
    /\ UNCHANGED <<aborted, turn, messages, working, used, compaction, reply>>

(* The stream throws, as it may when its signal aborts.                    *)
StreamThrows ==
    /\ phase \in {"prompt", "stream"}
    /\ phase = "prompt" => ~aborted
    /\ End("error", events \o Emit("fatal"))
    /\ UNCHANGED <<aborted, turn, messages, working, used, compaction, reply, events>>

-----------------------------------------------------------------------------
(* The tools of the turn, in order                                         *)

NextCall == requests[Len(done) \div 2 + 1]

ToolEvents(i) == EmitFor("tool_start", i) \o EmitFor("tool_end", i)

(* The next tool runs, fails, is not registered, is blocked by a hook or   *)
(* denied: its result, truncated, says so. The signal is not consulted.    *)
RunTool(long) ==
    /\ phase = "tools"
    /\ Len(done) < 2 * Len(requests)
    /\ done' = done \o <<Use(NextCall), Result(NextCall, long)>>
    /\ events' = events \o ToolEvents(NextCall)
    /\ UNCHANGED <<phase, aborted, turn, messages, working, used, compaction,
                   text, requests, fatal, out, ended>>

(* A bug Abandon could have: the loop goes on with the next turn.          *)
AbandonTurn ==
    /\ phase = "tools"
    /\ Len(done) < 2 * Len(requests)
    /\ phase' = "head"
    /\ messages' = IF text THEN Append(working, Plain("text")) ELSE working
    /\ out' = out \o events \o ToolEvents(NextCall)
    /\ UNCHANGED <<aborted, turn, working, used, compaction, reply, events, ended>>

(* The next tool's prompt was aborted, timed out, or the gate threw: the   *)
(* run is over and the turn's events are not yielded.                      *)
Abandon ==
    /\ phase = "tools"
    /\ Len(done) < 2 * Len(requests)
    /\ End("interrupted", <<>>)
    /\ UNCHANGED <<aborted, turn, messages, working, used, compaction, reply, events>>

(* A bug EndTurn could have: all the calls are appended, then all the      *)
(* results.                                                                *)
EndTurnGrouped ==
    /\ phase = "tools"
    /\ Len(done) = 2 * Len(requests)
    /\ phase' = "head"
    /\ messages' = working \o SelectSeq(done, LAMBDA e : e.kind = "use")
                           \o SelectSeq(done, LAMBDA e : e.kind # "use")
    /\ out' = out \o events
    /\ UNCHANGED <<aborted, turn, working, used, compaction, reply, events, ended>>

EndTurn ==
    /\ phase = "tools"
    /\ Len(done) = 2 * Len(requests)
    /\ phase' = "head"
    /\ messages' = (IF text THEN Append(working, Plain("text")) ELSE working) \o done
    /\ out' = out \o events
    /\ UNCHANGED <<aborted, turn, working, used, compaction, reply, events, ended>>

-----------------------------------------------------------------------------
Abort ==
    /\ ~aborted
    /\ phase \notin {"over", "dropped"}
    /\ aborted' = TRUE
    /\ UNCHANGED <<phase, turn, messages, working, used, compaction, reply, events, out, ended>>

(* Steps the loop takes by itself, or a call of the model that returns.    *)
Step ==
    \/ Start \/ LoopHead \/ Micro \/ AutoFails \/ FullFails
    \/ \E long \in BOOLEAN : AutoSummary(long) \/ Full(long) \/ RunTool(long)
    \/ NotCalled \/ CallModel \/ StreamEnds \/ StreamThrows \/ Abandon \/ EndTurn

Next == Step \/ Chunk \/ Abort \/ ClientLost

Spec == Init /\ [][Next]_vars

(* Every await ends: a provider's stream, a summary, a hook's command, a   *)
(* prompt (module PendingApprovals) and a tool.                            *)
FairSpec == Spec /\ WF_vars(Step)

-----------------------------------------------------------------------------
(* Whatever ran, failed, was denied or compacted away, the model is only   *)
(* ever sent a history in which each tool call is followed by its own      *)
(* result and each result preceded by its call; providers reject any other. *)
CallsArePaired ==
    phase = "stream" =>
        \A j \in DOMAIN working :
            /\ working[j].kind = "use" =>
                  /\ j < Len(working)
                  /\ working[j + 1].kind = "result" /\ working[j + 1].id = working[j].id
            /\ working[j].kind = "result" =>
                  /\ j > 1
                  /\ working[j - 1].kind = "use" /\ working[j - 1].id = working[j].id

(* "The active request from the user which we want to preserve verbatim"   *)
(* (compaction.ts): the model always sees it, once, and no user message    *)
(* after it.                                                               *)
RequestKept ==
    phase = "stream" =>
        \E j \in DOMAIN working :
            /\ working[j].kind = "request"
            /\ \A k \in DOMAIN working :
                  working[k].kind = "request" \/ (k > j /\ working[k].kind = "user") => k = j

(* The client's view nests: a tool starts when no other is running and     *)
(* ends next, a message that starts ends or the run fails, and nothing     *)
(* follows session_end, which is the last event of every run that ends.    *)
EventsNest ==
    /\ \A j \in DOMAIN out :
          /\ out[j].type = "tool_start" =>
                j < Len(out) /\ out[j + 1] = [type |-> "tool_end", id |-> out[j].id]
          /\ out[j].type = "message_start" =>
                j < Len(out) /\ out[j + 1].type \in {"message_end", "fatal"}
          /\ out[j].type = "session_end" => j = Len(out) /\ phase = "over"
    /\ phase = "over" => out[Len(out)].type = "session_end"

(* Every prompt is well formed, whatever ran, failed, was denied or was    *)
(* compacted away before it: calls and results are paired and the user's   *)
(* request is there, once and last among the user's messages.              *)
PromptWellFormed == CallsArePaired /\ RequestKept

(* The circuit breaker trips on the third consecutive failure and never    *)
(* closes: "does not retry after 3 consecutive failures".                  *)
BreakerTrips == noAuto <=> failures >= FailureThreshold

(* When a prompt was abandoned the user is not "billed for more turns": no *)
(* tool runs and no call is made after a request that got no result.       *)
NoUnansweredCall ==
    turn > 0 /\ phase = "head" =>
        /\ Len(done) = 2 * Len(requests)
        /\ \A k \in DOMAIN requests : done[2 * k].kind = "result" /\ done[2 * k].id = requests[k]

(* The run's own account of itself is well formed: the events nest, and no *)
(* turn is left with a call that has no result.                            *)
RunWellFormed == TypeOK /\ EventsNest /\ NoUnansweredCall

(* Every run that the client listens to ends, and tells the client so.     *)
EveryRunEnds == <>(phase \in {"over", "dropped"})

-----------------------------------------------------------------------------
(* "Context compaction failed to bring token usage below the threshold"    *)
(* (query-engine.ts, compactionFailureEvent) is reported when it did.      *)
FailureIsFailure ==
    [][Len(events') > Len(events) /\ events'[Len(events')].type = "compaction_failed"
         => High(used')]_vars
=============================================================================
