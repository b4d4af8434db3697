-------------------------- MODULE PendingApprovals --------------------------
(***************************************************************************)
(* The registry of in-flight permission approvals, server/src/events/bus.ts *)
(* (class PendingApprovals). Every method runs to completion on the event  *)
(* loop, so each is one action; what interleaves is their order: a POST    *)
(* that answers, the five-minute timer, the abort of the caller's signal,  *)
(* the cancellation of everything, and a second register of the same id.   *)
(*                                                                         *)
(* A wait is one call of register(), hence one promise. Several waits may  *)
(* carry the same approval id (`sessionId:toolCallId`), one after another  *)
(* or at once.                                                             *)
(***************************************************************************)
CONSTANTS
    Waits,       \* the calls of register()
    Ids,         \* approval ids
    Signals,     \* abort signals of the runs that wait
    IdOf,        \* the approval id of each wait
    SignalOf,    \* the signal of each wait, or NoSignal
    NoWait,      \* no entry in the map
    NoSignal,    \* register() called without a signal
    NoOutcome    \* a promise still unresolved

ASSUME WaitAssumption ==
    /\ IdOf \in [Waits -> Ids]
    /\ SignalOf \in [Waits -> Signals \cup {NoSignal}]
    /\ NoWait \notin Waits
    /\ NoSignal \notin Signals

Decision == {"approve", "deny", "approve_always", "deny_always"}
CancelReason == {"timeout", "aborted"}

(* ApprovalOutcome: a user's decision, or an automatic denial.             *)
UserSaid(d) == [auto |-> FALSE, decision |-> d, reason |-> "none"]
AutoDeny(r) == [auto |-> TRUE, decision |-> "deny", reason |-> r]
Outcome == {UserSaid(d) : d \in Decision} \cup {AutoDeny(r) : r \in CancelReason}

ASSUME OutcomeAssumption == NoOutcome \notin Outcome

VARIABLES
    pending,     \* the map from approval id to the entry waiting under it
    phase,       \* register() not called, threw, or returned a promise
    settled,     \* the `settled` flag in each wait's closure
    outcome,     \* what each promise resolved to (a promise keeps the first)
    timer,       \* the wait's timer is armed
    listening,   \* onAbort is attached to the wait's signal
    aborted,     \* AbortSignal.aborted
    cause        \* history: the event that ended each wait

vars == <<pending, phase, settled, outcome, timer, listening, aborted, cause>>

(* The events that end waits: an answer posted under an id, the timer of a *)
(* wait, the abort of a signal, and cancelAll().                           *)
Answered(i) == <<"answer", i>>
Expired(w) == <<"timer", w>>
Interrupted(s) == <<"signal", s>>
Cancelled == <<"all">>
NoCause == << >>
Cause == {Answered(i) : i \in Ids} \cup {Expired(w) : w \in Waits}
            \cup {Interrupted(s) : s \in Signals} \cup {Cancelled}

TypeOK ==
    /\ pending \in [Ids -> Waits \cup {NoWait}]
    /\ phase \in [Waits -> {"idle", "threw", "waiting"}]
    /\ settled \in [Waits -> BOOLEAN]
    /\ outcome \in [Waits -> Outcome \cup {NoOutcome}]
    /\ timer \in [Waits -> BOOLEAN]
    /\ listening \in [Waits -> BOOLEAN]
    /\ aborted \in [Signals -> BOOLEAN]
    /\ cause \in [Waits -> Cause \cup {NoCause}]

Init ==
    /\ pending = [i \in Ids |-> NoWait]
    /\ phase = [w \in Waits |-> "idle"]
    /\ settled = [w \in Waits |-> FALSE]
    /\ outcome = [w \in Waits |-> NoOutcome]
    /\ timer = [w \in Waits |-> FALSE]
    /\ listening = [w \in Waits |-> FALSE]
    /\ aborted = [s \in Signals |-> FALSE]
    /\ cause = [w \in Waits |-> NoCause]

-----------------------------------------------------------------------------
(* The promise of a wait that register() accepted has not resolved.        *)
Open(w) == phase[w] = "waiting" /\ outcome[w] = NoOutcome

(* The signal the wait was registered with has already aborted.            *)
GivenUp(w) == SignalOf[w] \in Signals /\ aborted[SignalOf[w]]

(* entry.resolve(o) called on every wait of S by some event: the flag      *)
(* guards the whole body, which removes whatever the map holds under the   *)
(* wait's id, clears the timer and the listener and resolves the promise.  *)
ResolveEntries(S, o, event) ==
    LET live == {w \in S : ~settled[w]}
    IN /\ settled' = [w \in Waits |-> settled[w] \/ w \in live]
       /\ pending' = [i \in Ids |->
                        IF \E w \in live : IdOf[w] = i THEN NoWait ELSE pending[i]]
       /\ timer' = [w \in Waits |-> timer[w] /\ w \notin live]
       /\ listening' = [w \in Waits |-> listening[w] /\ w \notin live]
       /\ outcome' = [w \in Waits |->
                        IF w \in live /\ outcome[w] = NoOutcome THEN o ELSE outcome[w]]
       /\ cause' = [w \in Waits |->
                      IF w \in live /\ outcome[w] = NoOutcome THEN event ELSE cause[w]]

-----------------------------------------------------------------------------
(* register(): the same id twice throws ...                                *)
RegisterDuplicate(w) ==
    /\ phase[w] = "idle"
    /\ pending[IdOf[w]] # NoWait
    /\ phase' = [phase EXCEPT ![w] = "threw"]
    /\ UNCHANGED <<pending, settled, outcome, timer, listening, aborted, cause>>

(* A bug the next case could have: it throws as well.                      *)
RegisterGivenUpThrows(w) ==
    /\ phase[w] = "idle" /\ pending[IdOf[w]] = NoWait /\ GivenUp(w)
    /\ phase' = [phase EXCEPT ![w] = "threw"]
    /\ ResolveEntries({w}, AutoDeny("aborted"), Interrupted(SignalOf[w]))
    /\ UNCHANGED aborted

(* ... a signal that has already aborted resolves the promise at once and  *)
(* the entry never reaches the map ...                                     *)
RegisterGivenUp(w) ==
    /\ phase[w] = "idle"
    /\ pending[IdOf[w]] = NoWait
    /\ GivenUp(w)
    /\ phase' = [phase EXCEPT ![w] = "waiting"]
    /\ ResolveEntries({w}, AutoDeny("aborted"), Interrupted(SignalOf[w]))
    /\ UNCHANGED aborted

(* Bugs the last case could have: the first waiter is overwritten; the     *)
(* timer is not armed.                                                     *)
RegisterOverwriting(w) ==
    /\ phase[w] = "idle" /\ ~GivenUp(w)
    /\ phase' = [phase EXCEPT ![w] = "waiting"]
    /\ timer' = [timer EXCEPT ![w] = TRUE]
    /\ listening' = [listening EXCEPT ![w] = SignalOf[w] # NoSignal]
    /\ pending' = [pending EXCEPT ![IdOf[w]] = w]
    /\ UNCHANGED <<settled, outcome, aborted, cause>>

RegisterUntimed(w) ==
    /\ phase[w] = "idle" /\ pending[IdOf[w]] = NoWait /\ ~GivenUp(w)
    /\ phase' = [phase EXCEPT ![w] = "waiting"]
    /\ listening' = [listening EXCEPT ![w] = SignalOf[w] # NoSignal]
    /\ pending' = [pending EXCEPT ![IdOf[w]] = w]
    /\ UNCHANGED <<settled, outcome, timer, aborted, cause>>

(* ... and otherwise the timer and the listener are set, then the entry.   *)
RegisterWaiting(w) ==
    /\ phase[w] = "idle"
    /\ pending[IdOf[w]] = NoWait
    /\ ~GivenUp(w)
    /\ phase' = [phase EXCEPT ![w] = "waiting"]
    /\ timer' = [timer EXCEPT ![w] = TRUE]
    /\ listening' = [listening EXCEPT ![w] = SignalOf[w] # NoSignal]
    /\ pending' = [pending EXCEPT ![IdOf[w]] = w]
    /\ UNCHANGED <<settled, outcome, aborted, cause>>

Register(w) == RegisterDuplicate(w) \/ RegisterGivenUp(w) \/ RegisterWaiting(w)

(* resolve(): true when an entry was found, false for an expired id, which *)
(* changes nothing.                                                        *)
Resolve(i, d) ==
    /\ pending[i] # NoWait
    /\ ResolveEntries({pending[i]}, UserSaid(d), Answered(i))
    /\ UNCHANGED <<phase, aborted>>

(* The five-minute timer fires.                                            *)
Timeout(w) ==
    /\ timer[w]
    /\ ResolveEntries({w}, AutoDeny("timeout"), Expired(w))
    /\ UNCHANGED <<phase, aborted>>

(* A bug onAbort could have: one signal ends every wait.                   *)
AbortEverything(s) ==
    /\ ~aborted[s]
    /\ aborted' = [aborted EXCEPT ![s] = TRUE]
    /\ ResolveEntries({w \in Waits : listening[w]}, AutoDeny("aborted"), Interrupted(s))
    /\ UNCHANGED phase

(* A signal aborts once: it runs the listener of every wait attached to it *)
(* before anything else can happen.                                        *)
Abort(s) ==
    /\ ~aborted[s]
    /\ aborted' = [aborted EXCEPT ![s] = TRUE]
    /\ ResolveEntries({w \in Waits : listening[w] /\ SignalOf[w] = s}, AutoDeny("aborted"),
                      Interrupted(s))
    /\ UNCHANGED phase

(* cancelAll() resolves every entry of the map, then clears it.            *)
CancelAll(r) ==
    /\ \E i \in Ids : pending[i] # NoWait
    /\ ResolveEntries({w \in Waits : pending[IdOf[w]] = w}, AutoDeny(r), Cancelled)
    /\ UNCHANGED <<phase, aborted>>

Next ==
    \/ \E w \in Waits : Register(w) \/ Timeout(w)
    \/ \E i \in Ids, d \in Decision : Resolve(i, d)
    \/ \E s \in Signals : Abort(s)
    \/ \E r \in CancelReason : CancelAll(r)

Spec == Init /\ [][Next]_vars

(* setTimeout is the only thing the runtime guarantees to happen: nobody   *)
(* has to answer, abort or cancel.                                         *)
FairSpec == Spec /\ \A w \in Waits : WF_vars(Timeout(w))

-----------------------------------------------------------------------------
(* Every unresolved promise can still be reached: it is the entry its id   *)
(* maps to, so an answer finds it, its timer is armed, and it listens to   *)
(* its signal. "The second call throws so the loop fails loudly rather     *)
(* than silently overwriting the first waiter." (bus.ts, register)         *)
NoOrphanWait ==
    \A w \in Waits : Open(w) =>
        /\ pending[IdOf[w]] = w
        /\ timer[w]
        /\ SignalOf[w] # NoSignal => listening[w] /\ ~GivenUp(w)

(* Every entry of the map is an unresolved promise registered under that   *)
(* id, so a decision that resolve() acknowledges decides something.        *)
NoStaleEntry ==
    \A i \in Ids : pending[i] # NoWait => Open(pending[i]) /\ IdOf[pending[i]] = i

(* A resolved promise leaves no armed timer and no listener behind, which  *)
(* would keep the process alive or fire on a later wait of the same id.    *)
NoLeak == \A w \in Waits : outcome[w] # NoOutcome => ~timer[w] /\ ~listening[w]

(* At most one promise is open under an id.                                *)
OneWaitPerId ==
    \A v, w \in Waits : Open(v) /\ Open(w) /\ IdOf[v] = IdOf[w] => v = w

(* The registry is what its promises say: its variables have their types,  *)
(* and no order of answers, timers, aborts, cancellations and repeated ids *)
(* leaves a promise nothing can end, an entry without one, a timer or a    *)
(* listener without an entry, or two promises under one id.                *)
RegistryTidy == TypeOK /\ NoOrphanWait /\ NoStaleEntry /\ NoLeak /\ OneWaitPerId

EndsAlone(w) == \A v \in Waits \ {w} : Open(v) => Open(v)'

(* What ends a wait is an answer posted under its own id, its own timer,   *)
(* the signal it was registered with, or the cancellation of everything,   *)
(* and it gets the outcome that event has for it; an answer and a timer    *)
(* end no other wait. So a late answer, timer or abort of an earlier wait  *)
(* under the same id leaves the newer one alone.                           *)
EndedByItsOwn ==
    [][\A w \in Waits : outcome[w] = NoOutcome /\ outcome'[w] # NoOutcome =>
          \/ /\ cause'[w] = Answered(IdOf[w]) /\ EndsAlone(w)
             /\ outcome'[w] \in {UserSaid(d) : d \in Decision}
          \/ /\ cause'[w] = Expired(w) /\ EndsAlone(w)
             /\ outcome'[w] = AutoDeny("timeout")
          \/ /\ cause'[w] = Interrupted(SignalOf[w]) /\ GivenUp(w)'
             /\ outcome'[w] = AutoDeny("aborted")
          \/ /\ cause'[w] = Cancelled /\ \A v \in Waits : ~Open(v)'
             /\ outcome'[w] \in {AutoDeny(r) : r \in CancelReason}]_vars

(* An agent that waits for an approval is never stuck: every wait ends,    *)
(* whether or not anyone answers.                                          *)
EveryWaitEnds == \A w \in Waits : Open(w) ~> ~Open(w)

-----------------------------------------------------------------------------
(* The registry delivers to each accepted wait exactly one outcome.        *)
Promise == INSTANCE ApprovalPromise WITH
    Outcomes <- Outcome,
    asked    <- {w \in Waits : phase[w] = "waiting"},
    refused  <- {w \in Waits : phase[w] = "threw"},
    answer   <- outcome

ImplementsPromise == Promise!Spec
=============================================================================
