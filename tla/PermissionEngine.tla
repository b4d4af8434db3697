-------------------------- MODULE PermissionEngine --------------------------
(***************************************************************************)
(* The permission gate in front of every tool call: checkPermission and    *)
(* requestApproval (server/src/permissions/engine.ts), the allowlist store *)
(* they read and extend (permissions/allowlist.ts), and the HTTP routes    *)
(* that answer, cancel or abandon a prompt (server/src/server.ts). The     *)
(* waits themselves are module PendingApprovals, shared by every session.  *)
(*                                                                         *)
(* A run is one POST /message (or one sub-agent): it has its own engine    *)
(* and hence its own AllowlistStore, and makes its tool calls one after    *)
(* another. Runs interleave at every file read, file write and prompt.     *)
(* All runs work in one directory, so they share both allowlist files. A   *)
(* tool stands for a tool name with one input signature, the thing an      *)
(* allowlist entry matches.                                                *)
(***************************************************************************)
EXTENDS Naturals

CONSTANTS
    Calls, Runs, Sessions, Tools, ApprovalIds,
    RunOf,         \* the run that makes each call
    SessionOf,     \* the session of each run
    ModeOf,        \* the permission mode captured when the run started
    ToolOf,        \* the tool each call names
    ApprovalIdOf,  \* `sessionId:toolCallId`; the model chooses the latter
    LevelOf,       \* permissionLevel of each registered tool
    Critical,      \* calls the danger classifier rates 'critical'
    ReadOnlyTools,
    FaultyIO,      \* may a file read or write fail?
    MaxAnswers,    \* bound: POST /approve requests whose body is being read
    NoCall, NoRun, NoOutcome, NoVerdict

Mode == {"plan", "auto", "full", "read-only", "ci"}
Level == {"auto_approve", "require_approval", "always_deny", "unregistered"}

ASSUME CallAssumption ==
    /\ RunOf \in [Calls -> Runs]
    /\ SessionOf \in [Runs -> Sessions]
    /\ ModeOf \in [Runs -> Mode]
    /\ ToolOf \in [Calls -> Tools]
    /\ ApprovalIdOf \in [Calls -> ApprovalIds]
    /\ LevelOf \in [Tools -> Level]
    /\ Critical \subseteq Calls
    /\ ReadOnlyTools \subseteq Tools
    /\ FaultyIO \in BOOLEAN
    /\ MaxAnswers \in Nat

VARIABLES
    pending, phase, settled, outcome, timer, listening, aborted, cause,
    stage,       \* where checkPermission is for each call
    verdict,     \* what it returned
    store,       \* each run's AllowlistStore: cached entries, or not loaded
    disk,        \* the project and the global allowlist file
    sessions,    \* sessions the manager still has
    answering,   \* POST /approve requests past the has() of their session
    over         \* runs whose loop a denied prompt has ended

registry == <<pending, phase, settled, outcome, timer, listening, aborted, cause>>
vars == <<pending, phase, settled, outcome, timer, listening, aborted, cause,
          stage, verdict, store, disk, sessions, answering, over>>

Approvals == INSTANCE PendingApprovals WITH
    Waits <- Calls, Ids <- ApprovalIds, Signals <- Runs,
    IdOf <- ApprovalIdOf, SignalOf <- RunOf, NoWait <- NoCall, NoSignal <- NoRun

ASSUME NoneAssumption ==
    /\ NoCall \notin Calls /\ NoRun \notin Runs
    /\ NoOutcome \notin Approvals!Outcome

Entry == [tool : Tools, list : {"allow", "deny"}]
Scope == {"project", "global"}
NotLoaded == [loaded |-> FALSE, entries |-> {}]
Loaded(entries) == [loaded |-> TRUE, entries |-> entries]

Reason == {"mode_denied", "denylist_match", "allowlist_match", "tool_auto_approve",
           "tool_always_deny", "user_approved", "user_denied", "user_approved_always",
           "user_denied_always", "timeout_denied", "aborted_denied"}
ASSUME VerdictAssumption == NoVerdict \notin Reason

Approving == {"allowlist_match", "tool_auto_approve", "user_approved", "user_approved_always"}

TypeOK ==
    /\ Approvals!TypeOK
    /\ stage \in [Calls -> {"idle", "project", "global", "prompt", "saving", "done"}]
    /\ verdict \in [Calls -> Reason \cup {NoVerdict}]
    /\ store \in [Runs -> [Scope -> [loaded : BOOLEAN, entries : SUBSET Entry]]]
    /\ disk \in [Scope -> SUBSET Entry]
    /\ sessions \subseteq Sessions
    /\ answering \in 0..MaxAnswers
    /\ over \in [Runs -> BOOLEAN]

Init ==
    /\ Approvals!Init
    /\ stage = [c \in Calls |-> "idle"]
    /\ verdict = [c \in Calls |-> NoVerdict]
    /\ store = [r \in Runs |-> [s \in Scope |-> NotLoaded]]
    /\ disk = [s \in Scope |-> {}]
    /\ sessions = Sessions
    /\ answering = 0
    /\ over = [r \in Runs |-> FALSE]

-----------------------------------------------------------------------------
(* checkPermission                                                         *)

Denied(c) == verdict[c] \in Reason \ Approving

(* The loop ends when a prompt was abandoned rather than answered.         *)
Conclude(c, reason) ==
    /\ stage' = [stage EXCEPT ![c] = "done"]
    /\ verdict' = [verdict EXCEPT ![c] = reason]
    /\ over' = [over EXCEPT ![RunOf[c]] =
                   @ \/ reason \in {"timeout_denied", "aborted_denied"}]

Proceed(c, next) ==
    /\ stage' = [stage EXCEPT ![c] = next]
    /\ UNCHANGED <<verdict, over>>

ModeDenies(c) ==
    /\ ModeOf[RunOf[c]] \in {"plan", "read-only"}
    /\ ToolOf[c] \notin ReadOnlyTools

(* A run makes its next call once the previous one has its verdict.        *)
Begin(c) ==
    /\ stage[c] = "idle"
    /\ ~over[RunOf[c]]
    /\ \A d \in Calls : RunOf[d] = RunOf[c] => stage[d] \in {"idle", "done"}
    /\ IF ModeDenies(c) THEN Conclude(c, "mode_denied") ELSE Proceed(c, "project")
    /\ UNCHANGED <<registry, store, disk, sessions, answering>>

(* A bug they could have: the file is read again on every look-up.         *)
EnsureReloaded(r, s) ==
    \E entries \in {disk[s]} \cup (IF FaultyIO THEN {{}} ELSE {}) :
        store' = [store EXCEPT ![r][s] = Loaded(entries)]

(* ensureProjectLoaded / ensureGlobalLoaded: the file is read once per     *)
(* store; one that cannot be read counts as empty.                         *)
EnsureLoaded(r, s) ==
    IF store[r][s].loaded
    THEN UNCHANGED store
    ELSE \E entries \in {disk[s]} \cup (IF FaultyIO THEN {{}} ELSE {}) :
            store' = [store EXCEPT ![r][s] = Loaded(entries)]

(* matchBucket compares the tool and the pattern of an entry, and not the  *)
(* list it is on.                                                          *)
Matches(entries, tool) == \E e \in entries : e.tool = tool

(* A bug isDenied could have: it consults the project file only.           *)
DeniedByProjectOnly(c) == FALSE

(* isDenied, second half: the global file.                                 *)
DeniedGlobally(c) == Matches(store'[RunOf[c]]["global"].entries, ToolOf[c])

(* isDenied, first half: the project file.                                 *)
LookUpProject(c) ==
    /\ stage[c] = "project"
    /\ EnsureLoaded(RunOf[c], "project")
    /\ IF Matches(store'[RunOf[c]]["project"].entries, ToolOf[c])
       THEN Conclude(c, "denylist_match")
       ELSE Proceed(c, "global")
    /\ UNCHANGED <<registry, disk, sessions, answering>>

(* isAllowed, when isDenied has loaded both files.                         *)
IsAllowed(c) ==
    Matches(store'[RunOf[c]]["project"].entries \cup store'[RunOf[c]]["global"].entries,
            ToolOf[c])

AutoApproves(c) ==
    /\ LevelOf[ToolOf[c]] = "auto_approve"
    /\ c \notin Critical
    /\ ModeOf[RunOf[c]] # "auto"

(* A bug requestApproval could have: a second prompt waits for the first.  *)
AskForTheSame(c) ==
    \/ /\ pending[ApprovalIdOf[c]] # NoCall
       /\ Proceed(c, "prompt")
       /\ UNCHANGED registry
    \/ /\ Approvals!RegisterGivenUp(c) \/ Approvals!RegisterWaiting(c)
       /\ Proceed(c, "prompt")

(* requestApproval: an id that is already pending is denied at once.       *)
Ask(c) ==
    \/ /\ Approvals!RegisterDuplicate(c)
       /\ Conclude(c, "denylist_match")
    \/ /\ Approvals!RegisterGivenUp(c) \/ Approvals!RegisterWaiting(c)
       /\ Proceed(c, "prompt")

(* isDenied, second half, and the rest of the decision, up to the prompt.  *)
LookUpGlobal(c) ==
    /\ stage[c] = "global"
    /\ EnsureLoaded(RunOf[c], "global")
    /\ \/ /\ DeniedGlobally(c)
          /\ Conclude(c, "denylist_match")
          /\ UNCHANGED registry
       \/ /\ ~DeniedGlobally(c)
          /\ IF IsAllowed(c) THEN Conclude(c, "allowlist_match") /\ UNCHANGED registry
             ELSE IF LevelOf[ToolOf[c]] = "always_deny"
                  THEN Conclude(c, "tool_always_deny") /\ UNCHANGED registry
             ELSE IF AutoApproves(c)
                  THEN Conclude(c, "tool_auto_approve") /\ UNCHANGED registry
             ELSE Ask(c)
    /\ UNCHANGED <<disk, sessions, answering>>

(* What the outcome of the wait makes of the call, once nothing is left to *)
(* remember.                                                               *)
ReasonFor(o) ==
    IF o.decision = "approve_always" THEN "user_approved_always"
    ELSE IF o.decision = "deny_always" THEN "user_denied_always"
    ELSE IF o.auto THEN (IF o.reason = "timeout" THEN "timeout_denied" ELSE "aborted_denied")
    ELSE IF o.decision = "approve" THEN "user_approved" ELSE "user_denied"

Remembered(o, tool) ==
    IF o.decision = "approve_always"
    THEN [scope |-> "project", entry |-> [tool |-> tool, list |-> "allow"]]
    ELSE [scope |-> "global", entry |-> [tool |-> tool, list |-> "deny"]]

(* A bug ForGood could have: every denial is remembered.                   *)
ForGoodOrDenied(o) == o.decision # "approve"

(* The outcomes that are remembered.                                       *)
ForGood(o) == o.decision \in {"approve_always", "deny_always"}

(* The wait is over: an "always" decision is added to the cached entries   *)
(* before it is written; any other outcome is the verdict.                 *)
Wake(c) ==
    /\ stage[c] = "prompt"
    /\ outcome[c] # NoOutcome
    /\ IF ForGood(outcome[c])
       THEN LET m == Remembered(outcome[c], ToolOf[c])
            IN /\ store' = [store EXCEPT ![RunOf[c]][m.scope] = Loaded(@.entries \cup {m.entry})]
               /\ Proceed(c, "saving")
       ELSE /\ Conclude(c, ReasonFor(outcome[c]))
            /\ UNCHANGED store
    /\ UNCHANGED <<registry, disk, sessions, answering>>

(* writeFileSafe replaces the whole file by the cached entries; a failure  *)
(* is logged and the verdict stands.                                       *)
Save(c) ==
    LET s == Remembered(outcome[c], ToolOf[c]).scope
    IN /\ stage[c] = "saving"
       /\ \/ disk' = [disk EXCEPT ![s] = store[RunOf[c]][s].entries]
          \/ FaultyIO /\ UNCHANGED disk
       /\ Conclude(c, ReasonFor(outcome[c]))
       /\ UNCHANGED <<registry, store, sessions, answering>>

-----------------------------------------------------------------------------
(* What happens to a prompt from outside.                                  *)

(* POST /sessions/:id/approve: the session in the URL must exist; then the *)
(* body is awaited.                                                        *)
PostAnswer ==
    /\ sessions # {}
    /\ answering < MaxAnswers
    /\ answering' = answering + 1
    /\ UNCHANGED <<registry, stage, verdict, store, disk, sessions, over>>

(* The body is there: its request id is looked up among the prompts of     *)
(* every session, whatever ended or was deleted while it was awaited; a    *)
(* prompt that is no longer pending is a 404.                              *)
Answer(i, d) ==
    /\ answering > 0
    /\ answering' = answering - 1
    /\ IF pending[i] # NoCall THEN Approvals!Resolve(i, d) ELSE UNCHANGED registry
    /\ UNCHANGED <<stage, verdict, store, disk, sessions, over>>

(* A body that is no approval is a 400.                                    *)
RefuseAnswer ==
    /\ answering > 0
    /\ answering' = answering - 1
    /\ UNCHANGED <<registry, stage, verdict, store, disk, sessions, over>>

(* The client of POST /message goes away.                                  *)
Disconnect(r) ==
    /\ Approvals!Abort(r)
    /\ UNCHANGED <<stage, verdict, store, disk, sessions, answering, over>>

Expire(c) ==
    /\ Approvals!Timeout(c)
    /\ UNCHANGED <<stage, verdict, store, disk, sessions, answering, over>>

(* DELETE /sessions/:id *)
DeleteSession(s) ==
    /\ s \in sessions
    /\ sessions' = sessions \ {s}
    /\ IF \E i \in ApprovalIds : pending[i] # NoCall
       THEN Approvals!CancelAll("aborted")
       ELSE UNCHANGED registry
    /\ UNCHANGED <<stage, verdict, store, disk, answering, over>>

Check(c) == LookUpProject(c) \/ LookUpGlobal(c) \/ Wake(c) \/ Save(c)

Next ==
    \/ \E c \in Calls : Begin(c) \/ Check(c) \/ Expire(c)
    \/ PostAnswer \/ RefuseAnswer
    \/ \E i \in ApprovalIds, d \in Approvals!Decision : Answer(i, d)
    \/ \E r \in Runs : Disconnect(r)
    \/ \E s \in Sessions : DeleteSession(s)

Spec == Init /\ [][Next]_vars

(* File operations complete, promises wake their waiter, timers fire. The  *)
(* model, the user and the client owe nothing.                             *)
FairSpec == Spec /\ \A c \in Calls : WF_vars(Check(c)) /\ WF_vars(Expire(c))

-----------------------------------------------------------------------------
SameKind(c, d) == c # d /\ RunOf[c] = RunOf[d] /\ ToolOf[c] = ToolOf[d]

(* A call is let through only by its own licence: the user approved this   *)
(* very call, or its tool approves itself, outside auto mode and for an    *)
(* input that is not critical, or an entry of the run's own store names    *)
(* it; and never in a mode that forbids it. No order of answers, timeouts, *)
(* disconnections and deletions lets one call run on another's approval.   *)
Licensed ==
    \A c \in Calls : verdict[c] \in Approving =>
        /\ ModeOf[RunOf[c]] \in {"plan", "read-only"} => ToolOf[c] \in ReadOnlyTools
        /\ \/ outcome[c] = Approvals!UserSaid("approve")
           \/ outcome[c] = Approvals!UserSaid("approve_always")
           \/ /\ outcome[c] = NoOutcome
              /\ LevelOf[ToolOf[c]] = "auto_approve"
              /\ c \notin Critical /\ ModeOf[RunOf[c]] # "auto"
           \/ \E s \in Scope : \E e \in store[RunOf[c]][s].entries :
                 e.list = "allow" /\ e.tool = ToolOf[c]

(* A decision that POST /approve reported as recorded is the decision the  *)
(* call gets, whatever times out, aborts or is deleted afterwards.         *)
AnswerHonoured ==
    \A c \in Calls :
        stage[c] = "done" /\ outcome[c] # NoOutcome /\ ~outcome[c].auto =>
            (Denied(c) <=> outcome[c].decision \in {"deny", "deny_always"})

(* "Persist before returning so the very next invocation of the same tool  *)
(* is short-circuited" (engine.ts): once the user has said "always", the   *)
(* same run never prompts for that tool again, even if the write failed.   *)
AlwaysNeverAsksAgain ==
    [][\A c, d \in Calls :
          /\ SameKind(c, d)
          /\ verdict[c] \in {"user_approved_always", "user_denied_always"}
          /\ stage[d] # "prompt"
          => stage'[d] # "prompt"]_vars

(* After "deny always" every later call of that tool in the run is denied. *)
DenyAlwaysHolds ==
    [][\A c, d \in Calls :
          /\ SameKind(c, d) /\ verdict[c] = "user_denied_always"
          /\ verdict[d] = NoVerdict /\ verdict'[d] # NoVerdict
          => Denied(d)']_vars

(* The allowlist files hold only what a user decided for good: no timeout, *)
(* abort or cancelled prompt ever leaves an entry behind.                  *)
OnlyUsersWriteLists ==
    \A s \in Scope : \A e \in disk[s] :
        \E c \in Calls :
            /\ ToolOf[c] = e.tool
            /\ outcome[c] = Approvals!UserSaid(
                   IF e.list = "allow" THEN "approve_always" ELSE "deny_always")

(* What the gate decides and keeps is what its users decided: every call   *)
(* let through has a licence, every recorded answer is obeyed, and nothing *)
(* else reaches the allowlist files, whatever overlaps or fails.           *)
GateHonest == TypeOK /\ Licensed /\ AnswerHonoured /\ OnlyUsersWriteLists

(* No call hangs in the gate: once it has begun it gets a verdict, even    *)
(* when nobody is listening to the session it prompts in.                  *)
EveryCheckReturns ==
    \A c \in Calls : stage[c] \notin {"idle", "done"} ~> stage[c] = "done"

-----------------------------------------------------------------------------
(* What the repository says and the code does not do.                      *)

(* "Allowlist -> approve" (engine.ts:9), "comandos aprobados por el        *)
(* usuario se guardan en config para no preguntar de nuevo": after         *)
(* "approve always" the same call is let through.                          *)
ApproveAlwaysHolds ==
    [][\A c, d \in Calls :
          /\ SameKind(c, d) /\ verdict[c] = "user_approved_always"
          /\ verdict[d] = NoVerdict /\ verdict'[d] # NoVerdict
          => ~Denied(d)']_vars

(* "The corresponding file is reloaded and rewritten" (allowlist.ts:125):  *)
(* a write adds its entry to what the file holds.                          *)
SavesKeepEntries == [][\A s \in Scope : disk[s] \subseteq disk'[s]]_vars

(* "Tear down per-session state" (server.ts:411): deleting a session ends  *)
(* the prompts of that session only.                                       *)
DeleteEndsOwnPrompts ==
    [][\A s \in Sessions : s \in sessions /\ s \notin sessions' =>
          \A c \in Calls : Approvals!Open(c) /\ ~Approvals!Open(c)'
                             => SessionOf[RunOf[c]] = s]_vars
=============================================================================
