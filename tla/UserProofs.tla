----------------------------- MODULE UserProofs -----------------------------
(***************************************************************************)
(* Proofs about the two parts that wait for the user.  The registry of     *)
(* pending approvals, for any number of waits, ids and signals.  Console,  *)
(* from ConsoleShapes on: for any number of streams, runs and ids, the     *)
(* terminal shows at most the stream it reads, a token goes to the message *)
(* of its own stream, and an aborted stream writes nothing more.           *)
(***************************************************************************)
EXTENDS PendingApprovals, Console,
        TLAPS

(* The flag and the promise agree, and a wait that was never accepted has  *)
(* nothing armed: the two facts no property needs to say but every step    *)
(* relies on.                                                              *)
FlagAgrees ==
    \A w \in Waits : settled[w] <=> outcome[w] # NoOutcome

UnacceptedIsInert ==
    \A w \in Waits : phase[w] # "waiting" =>
        ~settled[w] /\ ~timer[w] /\ ~listening[w]

IInv == /\ TypeOK
        /\ FlagAgrees
        /\ UnacceptedIsInert
        /\ NoOrphanWait
        /\ NoStaleEntry
        /\ NoLeak

LEMMA OutcomeValues ==
    /\ \A d \in Decision : UserSaid(d) \in Outcome
    /\ \A r \in CancelReason : AutoDeny(r) \in Outcome
    /\ AutoDeny("timeout") \in Outcome /\ AutoDeny("aborted") \in Outcome
<1>1. \A d \in Decision : UserSaid(d) \in Outcome
  BY DEF Outcome
<1>2. \A r \in CancelReason : AutoDeny(r) \in Outcome
  BY DEF Outcome
<1>3. QED
  BY <1>1, <1>2 DEF CancelReason

LEMMA CauseValues ==
    /\ \A w \in Waits : Expired(w) \in Cause
    /\ \A i \in Ids : Answered(i) \in Cause
    /\ \A s \in Signals : Interrupted(s) \in Cause
    /\ Cancelled \in Cause
BY DEF Cause

LEMMA InitIInv == Init => IInv
BY WaitAssumption
DEF Init, IInv, TypeOK, FlagAgrees, UnacceptedIsInert, NoOrphanWait,
    NoStaleEntry, NoLeak, Open

(* entry.resolve on a set of accepted waits keeps the invariant, provided  *)
(* no accepted, unresolved wait is left attached to a signal that aborted. *)
LEMMA ResolvePreserves ==
    ASSUME IInv, NEW S \in SUBSET Waits, NEW o \in Outcome, NEW event \in Cause,
           ResolveEntries(S, o, event),
           phase' \in [Waits -> {"idle", "threw", "waiting"}],
           aborted' \in [Signals -> BOOLEAN],
           \A w \in Waits : phase[w] # phase'[w] => w \in S,
           \A w \in S : /\ phase'[w] = "waiting"
                        /\ phase[w] = "waiting" \/ pending[IdOf[w]] = NoWait,
           \A w \in Waits \ S :
               listening[w] /\ SignalOf[w] \in Signals
                 => aborted'[SignalOf[w]] = aborted[SignalOf[w]]
    PROVE  IInv'
<1> DEFINE live == {w \in S : ~settled[w]}
<1>1. /\ settled' = [w \in Waits |-> settled[w] \/ w \in live]
      /\ pending' = [i \in Ids |->
                        IF \E w \in live : IdOf[w] = i THEN NoWait ELSE pending[i]]
      /\ timer' = [w \in Waits |-> timer[w] /\ w \notin live]
      /\ listening' = [w \in Waits |-> listening[w] /\ w \notin live]
      /\ outcome' = [w \in Waits |->
                        IF w \in live /\ outcome[w] = NoOutcome THEN o ELSE outcome[w]]
      /\ cause' = [w \in Waits |->
                        IF w \in live /\ outcome[w] = NoOutcome THEN event ELSE cause[w]]
  BY DEF ResolveEntries
<1>2. live \subseteq S /\ live \subseteq Waits
  OBVIOUS
<1>3. TypeOK'
  BY <1>1 DEF IInv, TypeOK
<1>4. o # NoOutcome
  BY OutcomeAssumption
<1>5. \A w \in Waits : settled'[w] <=> outcome'[w] # NoOutcome
  BY <1>1, <1>2, <1>4 DEF IInv, FlagAgrees
<1>6. \A w \in Waits : phase'[w] # "waiting" => ~settled'[w] /\ ~timer'[w] /\ ~listening'[w]
  BY <1>1, <1>2 DEF IInv, UnacceptedIsInert
<1>7. \A w \in Waits : phase'[w] = "waiting" /\ outcome'[w] = NoOutcome
                          => Open(w) /\ w \notin live /\ w \notin S
  <2> SUFFICES ASSUME NEW w \in Waits, phase'[w] = "waiting", outcome'[w] = NoOutcome
               PROVE  Open(w) /\ w \notin live /\ w \notin S
    OBVIOUS
  <2>1. outcome[w] = NoOutcome /\ w \notin live
    BY <1>1, <1>4
  <2>2. w \notin S
    BY <2>1 DEF IInv, FlagAgrees
  <2>3. QED
    BY <2>1, <2>2 DEF Open
<1>8. \A v, w \in Waits : v \in live /\ Open(w) /\ IdOf[v] = IdOf[w] => w = v
  <2> SUFFICES ASSUME NEW v \in live, NEW w \in Waits, Open(w), IdOf[v] = IdOf[w]
               PROVE  w = v
    BY <1>2
  <2>1. pending[IdOf[w]] = w /\ w # NoWait
    BY WaitAssumption DEF IInv, NoOrphanWait
  <2>2. phase[v] = "waiting"
    BY <2>1
  <2>3. outcome[v] = NoOutcome
    BY DEF IInv, FlagAgrees
  <2>4. pending[IdOf[v]] = v
    BY <2>2, <2>3 DEF IInv, NoOrphanWait, Open
  <2>5. QED
    BY <2>1, <2>4
<1>9. NoOrphanWait'
  <2> SUFFICES ASSUME NEW w \in Waits, phase'[w] = "waiting", outcome'[w] = NoOutcome
               PROVE  /\ pending'[IdOf[w]] = w
                      /\ timer'[w]
                      /\ SignalOf[w] # NoSignal => listening'[w] /\ ~GivenUp(w)'
    BY DEF NoOrphanWait, Open
  <2>1. Open(w) /\ w \notin live /\ w \notin S
    BY <1>7
  <2>2. pending[IdOf[w]] = w /\ timer[w] /\ (SignalOf[w] # NoSignal => listening[w] /\ ~GivenUp(w))
    BY <2>1 DEF IInv, NoOrphanWait
  <2>3. IdOf[w] \in Ids
    BY WaitAssumption
  <2>4. pending'[IdOf[w]] = w
    BY <1>1, <1>2, <1>8, <2>1, <2>2, <2>3
  <2>5. timer'[w] /\ (SignalOf[w] # NoSignal => listening'[w])
    BY <1>1, <2>1, <2>2
  <2>6. SignalOf[w] # NoSignal => ~GivenUp(w)'
    BY <2>1, <2>2 DEF GivenUp
  <2>7. QED
    BY <2>4, <2>5, <2>6
<1>10. NoStaleEntry'
  <2> SUFFICES ASSUME NEW i \in Ids, pending'[i] # NoWait
               PROVE  Open(pending[i])' /\ IdOf[pending'[i]] = i
    BY DEF NoStaleEntry
  <2>1. pending'[i] = pending[i] /\ pending[i] # NoWait /\ ~\E w \in live : IdOf[w] = i
    BY <1>1
  <2>2. PICK w \in Waits : pending[i] = w
    BY <2>1 DEF IInv, TypeOK
  <2>3. Open(w) /\ IdOf[w] = i
    BY <2>1, <2>2 DEF IInv, NoStaleEntry
  <2>4. w \notin live
    BY <2>1, <2>3
  <2>5. phase'[w] = "waiting" /\ outcome'[w] = NoOutcome
    BY <1>1, <2>3, <2>4 DEF Open
  <2>6. QED
    BY <2>1, <2>2, <2>3, <2>5 DEF Open
<1>11. NoLeak'
  BY <1>1, <1>2 DEF IInv, NoLeak, NoOrphanWait, FlagAgrees
<1>12. QED
  BY <1>3, <1>5, <1>6, <1>9, <1>10, <1>11 DEF IInv, FlagAgrees, UnacceptedIsInert

LEMMA RegisterIInv ==
    ASSUME IInv, NEW w \in Waits, Register(w)
    PROVE  IInv'
<1>1. CASE RegisterDuplicate(w)
  BY <1>1 DEF RegisterDuplicate, IInv, TypeOK, FlagAgrees, UnacceptedIsInert,
              NoOrphanWait, NoStaleEntry, NoLeak, Open, GivenUp
<1>2. CASE RegisterGivenUp(w)
  <2>1. /\ ResolveEntries({w}, AutoDeny("aborted"), Interrupted(SignalOf[w]))
        /\ aborted' = aborted /\ Interrupted(SignalOf[w]) \in Cause
    BY <1>2, CauseValues DEF RegisterGivenUp, GivenUp
  <2>2. /\ phase' \in [Waits -> {"idle", "threw", "waiting"}]
        /\ \A v \in Waits : phase[v] # phase'[v] => v \in {w}
        /\ phase'[w] = "waiting" /\ pending[IdOf[w]] = NoWait
    BY <1>2 DEF RegisterGivenUp, IInv, TypeOK
  <2>3. aborted' \in [Signals -> BOOLEAN]
    BY <2>1 DEF IInv, TypeOK
  <2>4. QED
    BY <2>1, <2>2, <2>3, ResolvePreserves, OutcomeValues
<1>3. CASE RegisterWaiting(w)
  <2>1. /\ phase' = [phase EXCEPT ![w] = "waiting"]
        /\ timer' = [timer EXCEPT ![w] = TRUE]
        /\ listening' = [listening EXCEPT ![w] = SignalOf[w] # NoSignal]
        /\ pending' = [pending EXCEPT ![IdOf[w]] = w]
        /\ UNCHANGED <<settled, outcome, aborted, cause>>
        /\ phase[w] = "idle" /\ pending[IdOf[w]] = NoWait /\ ~GivenUp(w)
    BY <1>3 DEF RegisterWaiting
  <2>2. IdOf[w] \in Ids /\ w # NoWait
    BY WaitAssumption
  <2>3. outcome[w] = NoOutcome /\ ~settled[w]
    BY <2>1 DEF IInv, FlagAgrees, UnacceptedIsInert
  <2>4. TypeOK'
    BY <2>1, <2>2 DEF IInv, TypeOK
  <2>5. FlagAgrees' /\ UnacceptedIsInert'
    BY <2>1 DEF IInv, TypeOK, FlagAgrees, UnacceptedIsInert
  <2>6. NoOrphanWait'
    <3> SUFFICES ASSUME NEW v \in Waits, Open(v)'
                 PROVE  /\ pending'[IdOf[v]] = v
                        /\ timer'[v]
                        /\ SignalOf[v] # NoSignal => listening'[v] /\ ~GivenUp(v)'
      BY DEF NoOrphanWait
    <3>1. CASE v = w
      <4>1. pending'[IdOf[v]] = v /\ timer'[v]
        BY <2>1, <2>2, <3>1 DEF IInv, TypeOK
      <4>2. SignalOf[v] # NoSignal => listening'[v]
        BY <2>1, <3>1 DEF IInv, TypeOK
      <4>3. ~GivenUp(v)'
        BY <2>1, <3>1 DEF GivenUp
      <4>4. QED
        BY <4>1, <4>2, <4>3
    <3>2. CASE v # w
      <4>1. Open(v)
        BY <2>1, <3>2 DEF Open, IInv, TypeOK
      <4>2. /\ pending[IdOf[v]] = v /\ timer[v]
            /\ SignalOf[v] # NoSignal => listening[v] /\ ~GivenUp(v)
        BY <4>1 DEF IInv, NoOrphanWait
      <4>3. IdOf[v] # IdOf[w]
        BY <2>1, <4>2, WaitAssumption
      <4>4. pending'[IdOf[v]] = v /\ timer'[v] /\ listening'[v] = listening[v]
        BY <2>1, <3>2, <4>2, <4>3, WaitAssumption DEF IInv, TypeOK
      <4>5. GivenUp(v)' <=> GivenUp(v)
        BY <2>1 DEF GivenUp
      <4>6. QED
        BY <4>2, <4>4, <4>5
    <3>3. QED
      BY <3>1, <3>2
  <2>7. NoStaleEntry'
    BY <2>1, <2>2, <2>3 DEF IInv, TypeOK, NoStaleEntry, Open
  <2>8. NoLeak'
    BY <2>1, <2>3 DEF IInv, TypeOK, NoLeak
  <2>9. QED
    BY <2>4, <2>5, <2>6, <2>7, <2>8 DEF IInv
<1>4. QED
  BY <1>1, <1>2, <1>3 DEF Register

(* Whatever is in the map, or still has its timer or its listener, is an   *)
(* accepted wait.                                                          *)
LEMMA ArmedIsAccepted ==
    ASSUME IInv, NEW w \in Waits,
           timer[w] \/ listening[w] \/ pending[IdOf[w]] = w
    PROVE  phase[w] = "waiting"
BY WaitAssumption DEF IInv, UnacceptedIsInert, NoStaleEntry, Open

LEMMA NextIInv == IInv /\ [Next]_vars => IInv'
<1> SUFFICES ASSUME IInv, [Next]_vars PROVE IInv'
  OBVIOUS
<1> USE OutcomeValues, CauseValues
<1>0. phase \in [Waits -> {"idle", "threw", "waiting"}] /\ aborted \in [Signals -> BOOLEAN]
  BY DEF IInv, TypeOK
<1>1. ASSUME NEW w \in Waits, Register(w) PROVE IInv'
  BY <1>1, RegisterIInv
<1>2. ASSUME NEW w \in Waits, Timeout(w) PROVE IInv'
  <2>1. ResolveEntries({w}, AutoDeny("timeout"), Expired(w)) /\ UNCHANGED <<phase, aborted>> /\ timer[w]
    BY <1>2 DEF Timeout
  <2>2. \A v \in {w} : phase'[v] = "waiting" /\ phase[v] = "waiting"
    BY <2>1, ArmedIsAccepted
  <2>3. QED
    BY <1>0, <2>1, <2>2, ResolvePreserves
<1>3. ASSUME NEW i \in Ids, NEW d \in Decision, Resolve(i, d) PROVE IInv'
  <2>1. PICK w \in Waits : pending[i] = w
    BY <1>3 DEF Resolve, IInv, TypeOK
  <2>2. ResolveEntries({w}, UserSaid(d), Answered(i)) /\ UNCHANGED <<phase, aborted>>
    BY <1>3, <2>1 DEF Resolve
  <2>3. \A v \in {w} : phase'[v] = "waiting" /\ phase[v] = "waiting"
    BY <1>3, <2>1, <2>2 DEF Resolve, IInv, NoStaleEntry, Open
  <2>4. QED
    BY <1>0, <2>2, <2>3, ResolvePreserves
<1>4. ASSUME NEW s \in Signals, Abort(s) PROVE IInv'
  <2> DEFINE S == {w \in Waits : listening[w] /\ SignalOf[w] = s}
  <2>1. /\ ResolveEntries(S, AutoDeny("aborted"), Interrupted(s)) /\ phase' = phase
        /\ aborted' = [aborted EXCEPT ![s] = TRUE]
    BY <1>4 DEF Abort
  <2>2. \A v \in S : phase'[v] = "waiting" /\ phase[v] = "waiting"
    BY <2>1, ArmedIsAccepted
  <2>3. \A w \in Waits \ S :
               listening[w] /\ SignalOf[w] \in Signals
                 => aborted'[SignalOf[w]] = aborted[SignalOf[w]]
    BY <1>0, <2>1
  <2>4. aborted' \in [Signals -> BOOLEAN]
    BY <1>0, <2>1
  <2>5. QED
    BY <1>0, <2>1, <2>2, <2>3, <2>4, ResolvePreserves
<1>5. ASSUME NEW r \in CancelReason, CancelAll(r) PROVE IInv'
  <2> DEFINE S == {w \in Waits : pending[IdOf[w]] = w}
  <2>1. ResolveEntries(S, AutoDeny(r), Cancelled) /\ UNCHANGED <<phase, aborted>>
    BY <1>5 DEF CancelAll
  <2>2. \A v \in S : phase'[v] = "waiting" /\ phase[v] = "waiting"
    BY <2>1, ArmedIsAccepted
  <2>3. QED
    BY <1>0, <2>1, <2>2, ResolvePreserves
<1>6. CASE UNCHANGED vars
  BY <1>6 DEF vars, IInv, TypeOK, FlagAgrees, UnacceptedIsInert, NoOrphanWait,
              NoStaleEntry, NoLeak, Open, GivenUp
<1>7. QED
  BY <1>1, <1>2, <1>3, <1>4, <1>5, <1>6 DEF Next

LEMMA SpecIInv == Spec => []IInv
BY InitIInv, NextIInv, PTL DEF Spec

(* The variables always hold values of their declared shape.               *)
THEOREM TypeCorrect == Spec => []TypeOK
BY SpecIInv, PTL DEF IInv

(* No unresolved promise is ever unreachable: bus.ts register() and the    *)
(* three ways it can end.                                                  *)
THEOREM NoOrphan == Spec => []NoOrphanWait
BY SpecIInv, PTL DEF IInv

(* A decision that POST /approve reports as recorded always reached an     *)
(* unresolved promise.                                                     *)
THEOREM NoStale == Spec => []NoStaleEntry
BY SpecIInv, PTL DEF IInv

(* A resolved promise leaves no timer or listener behind.                  *)
THEOREM NothingLeaks == Spec => []NoLeak
BY SpecIInv, PTL DEF IInv

(* Two promises are never open under one id.                               *)
THEOREM UniquePerId == Spec => []OneWaitPerId
<1>1. IInv => OneWaitPerId
  BY DEF IInv, NoOrphanWait, OneWaitPerId
<1>2. QED
  BY <1>1, SpecIInv, PTL

(* The registry keeps all of its promises about waits, entries, timers and *)
(* listeners at once (bus.ts register(), resolve(), cancelAll()).          *)
THEOREM RegistryIsTidy == Spec => []RegistryTidy
<1>1. TypeOK /\ NoOrphanWait /\ NoStaleEntry /\ NoLeak /\ OneWaitPerId => RegistryTidy
  BY DEF RegistryTidy
<1>2. QED
  BY <1>1, TypeCorrect, NoOrphan, NoStale, NothingLeaks, UniquePerId, PTL

-----------------------------------------------------------------------------
(* What entry.resolve on a set of waits delivers: each promise of the set  *)
(* that is unresolved resolves, and no other does.                         *)
LEMMA Delivered ==
    ASSUME IInv, NEW S \in SUBSET Waits, NEW o \in Outcome, NEW event,
           ResolveEntries(S, o, event)
    PROVE  /\ outcome' = [w \in Waits |->
                  IF w \in S /\ outcome[w] = NoOutcome THEN o ELSE outcome[w]]
           /\ \A w \in S : ~timer'[w]
BY DEF ResolveEntries, IInv, FlagAgrees, NoLeak

LEMMA DeliveredBy ==
    ASSUME IInv, NEW S \in SUBSET Waits, NEW o, NEW event, ResolveEntries(S, o, event),
           NEW w \in Waits
    PROVE  /\ w \in S /\ outcome[w] = NoOutcome => outcome'[w] = o /\ cause'[w] = event
           /\ w \notin S => outcome'[w] = outcome[w]
BY DEF ResolveEntries, IInv, FlagAgrees

(* An answer and a timer resolve the promise of one wait.                  *)
LEMMA DeliveredAlone ==
    ASSUME IInv, NEW v \in Waits, NEW o \in Outcome, NEW event, ResolveEntries({v}, o, event),
           phase' = phase, NEW w \in Waits, outcome[w] = NoOutcome, outcome'[w] # NoOutcome
    PROVE  w = v /\ outcome'[w] = o /\ cause'[w] = event /\ EndsAlone(w)
<1> DEFINE S == {v}
<1>1. S \in SUBSET Waits /\ ResolveEntries(S, o, event)
  OBVIOUS
<1>2. w = v /\ outcome'[w] = o /\ cause'[w] = event
  <2>1. w \in S
    <3> HIDE DEF S
    <3>1. QED
      BY <1>1, DeliveredBy
  <2>2. outcome'[w] = o /\ cause'[w] = event
    <3> HIDE DEF S
    <3>1. QED
      BY <1>1, <2>1, DeliveredBy
  <2>3. QED
    BY <2>1, <2>2
<1>3. \A x \in Waits \ {w} : outcome'[x] = outcome[x] /\ phase'[x] = phase[x]
  <2>1. \A x \in Waits : x \notin S => outcome'[x] = outcome[x]
    <3> HIDE DEF S
    <3>1. QED
      BY <1>1, DeliveredBy
  <2>2. QED
    BY <1>2, <2>1
<1>4. QED
  BY <1>2, <1>3 DEF EndsAlone, Open

(* Which event ended a wait, and with what.                                *)
Ender(w) ==
    \/ /\ cause'[w] = Answered(IdOf[w]) /\ EndsAlone(w)
       /\ outcome'[w] \in {UserSaid(d) : d \in Decision}
    \/ /\ cause'[w] = Expired(w) /\ EndsAlone(w)
       /\ outcome'[w] = AutoDeny("timeout")
    \/ /\ cause'[w] = Interrupted(SignalOf[w]) /\ GivenUp(w)'
       /\ outcome'[w] = AutoDeny("aborted")
    \/ /\ cause'[w] = Cancelled /\ \A v \in Waits : ~Open(v)'
       /\ outcome'[w] \in {AutoDeny(r) : r \in CancelReason}

LEMMA NextEnds ==
    ASSUME IInv, [Next]_vars, NEW w \in Waits, outcome[w] = NoOutcome, outcome'[w] # NoOutcome
    PROVE  Ender(w)
<1> USE OutcomeValues
<1>1. ASSUME NEW v \in Waits, Register(v) PROVE Ender(w)
  <2>1. RegisterGivenUp(v)
    BY <1>1 DEF Register, RegisterDuplicate, RegisterWaiting
  <2>2. /\ ResolveEntries({v}, AutoDeny("aborted"), Interrupted(SignalOf[v]))
        /\ aborted' = aborted /\ GivenUp(v)
    BY <2>1 DEF RegisterGivenUp
  <2> DEFINE S == {v}
             o == AutoDeny("aborted")
             event == Interrupted(SignalOf[v])
  <2>3. S \in SUBSET Waits /\ ResolveEntries(S, o, event)
    BY <2>2
  <2>4. w = v /\ outcome'[w] = AutoDeny("aborted") /\ cause'[w] = Interrupted(SignalOf[w])
    <3>1. w \in S /\ outcome'[w] = o /\ cause'[w] = event
      <4> HIDE DEF S, o, event
      <4>1. QED
        BY <2>3, DeliveredBy
    <3>2. QED
      BY <3>1
  <2>5. GivenUp(w)'
    BY <2>2, <2>4 DEF GivenUp
  <2>6. QED
    BY <2>4, <2>5 DEF Ender
<1>2. ASSUME NEW v \in Waits, Timeout(v) PROVE Ender(w)
  <2>1. ResolveEntries({v}, AutoDeny("timeout"), Expired(v)) /\ phase' = phase
    BY <1>2 DEF Timeout
  <2>2. w = v /\ outcome'[w] = AutoDeny("timeout") /\ cause'[w] = Expired(w) /\ EndsAlone(w)
    BY <2>1, DeliveredAlone
  <2>3. QED
    BY <2>2 DEF Ender
<1>3. ASSUME NEW i \in Ids, NEW d \in Decision, Resolve(i, d) PROVE Ender(w)
  <2>1. PICK v \in Waits : pending[i] = v
    BY <1>3 DEF Resolve, IInv, TypeOK
  <2>2. ResolveEntries({v}, UserSaid(d), Answered(i)) /\ phase' = phase /\ IdOf[v] = i
    BY <1>3, <2>1 DEF Resolve, IInv, NoStaleEntry
  <2>3. w = v /\ outcome'[w] = UserSaid(d) /\ cause'[w] = Answered(i) /\ EndsAlone(w)
    BY <2>2, DeliveredAlone
  <2>4. QED
    BY <2>2, <2>3 DEF Ender
<1>4. ASSUME NEW s \in Signals, Abort(s) PROVE Ender(w)
  <2> DEFINE S == {v \in Waits : listening[v] /\ SignalOf[v] = s}
  <2>1. /\ ResolveEntries(S, AutoDeny("aborted"), Interrupted(s))
        /\ aborted' = [aborted EXCEPT ![s] = TRUE]
    BY <1>4 DEF Abort
  <2>2. S \in SUBSET Waits
    OBVIOUS
  <2>3. w \in S /\ outcome'[w] = AutoDeny("aborted") /\ cause'[w] = Interrupted(s)
    <3> HIDE DEF S
    <3>1. QED
      BY <2>1, <2>2, DeliveredBy
  <2>4. GivenUp(w)'
    BY <2>1, <2>3 DEF GivenUp, IInv, TypeOK
  <2>5. QED
    BY <2>3, <2>4 DEF Ender
<1>5. ASSUME NEW r \in CancelReason, CancelAll(r) PROVE Ender(w)
  <2> DEFINE S == {v \in Waits : pending[IdOf[v]] = v}
  <2>1. ResolveEntries(S, AutoDeny(r), Cancelled) /\ UNCHANGED <<phase, aborted>>
    BY <1>5 DEF CancelAll
  <2>2. S \in SUBSET Waits
    OBVIOUS
  <2>3. \A v \in Waits : Open(v) => v \in S
    BY DEF IInv, NoOrphanWait
  <2>4. \A v \in Waits : ~Open(v)'
    <3> SUFFICES ASSUME NEW v \in Waits, Open(v)' PROVE FALSE
      OBVIOUS
    <3>1. AutoDeny(r) # NoOutcome
      BY OutcomeAssumption
    <3>2. Open(v) /\ v \notin S
      <4> HIDE DEF S
      <4>1. outcome'[v] = NoOutcome /\ phase[v] = "waiting"
        BY <2>1 DEF Open
      <4>2. v \notin S \/ outcome[v] # NoOutcome
        BY <2>1, <2>2, <3>1, <4>1, DeliveredBy
      <4>3. outcome[v] = NoOutcome
        BY <2>1, <4>1 DEF ResolveEntries
      <4>4. QED
        BY <4>1, <4>2, <4>3 DEF Open
    <3>3. QED
      BY <2>3, <3>2
  <2>5. outcome'[w] = AutoDeny(r) /\ cause'[w] = Cancelled
    <3> HIDE DEF S
    <3>1. QED
      BY <2>1, <2>2, DeliveredBy
  <2>6. QED
    BY <2>4, <2>5 DEF Ender
<1>6. CASE UNCHANGED vars
  BY <1>6 DEF vars
<1>7. QED
  BY <1>1, <1>2, <1>3, <1>4, <1>5, <1>6 DEF Next

(* A late timer, abort or answer of one wait never ends another: what ends *)
(* a wait is an answer to its id, its own timer, its own signal or the     *)
(* cancellation of everything, with the outcome that event has (bus.ts     *)
(* register(), resolve(), cancelAll()).                                    *)
THEOREM EndsAreItsOwn == Spec => EndedByItsOwn
<1> DEFINE A == \A w \in Waits : outcome[w] = NoOutcome /\ outcome'[w] # NoOutcome => Ender(w)
<1>1. IInv /\ [Next]_vars => A
  BY NextEnds
<1>2. A => [\A w \in Waits : outcome[w] = NoOutcome /\ outcome'[w] # NoOutcome =>
              \/ /\ cause'[w] = Answered(IdOf[w]) /\ EndsAlone(w)
                 /\ outcome'[w] \in {UserSaid(d) : d \in Decision}
              \/ /\ cause'[w] = Expired(w) /\ EndsAlone(w)
                 /\ outcome'[w] = AutoDeny("timeout")
              \/ /\ cause'[w] = Interrupted(SignalOf[w]) /\ GivenUp(w)'
                 /\ outcome'[w] = AutoDeny("aborted")
              \/ /\ cause'[w] = Cancelled /\ \A v \in Waits : ~Open(v)'
                 /\ outcome'[w] \in {AutoDeny(r) : r \in CancelReason}]_vars
  BY DEF Ender
<1>3. QED
  BY <1>1, <1>2, SpecIInv, PTL DEF Spec, EndedByItsOwn

-----------------------------------------------------------------------------
(* The refinement: what is asked for and answered, seen without the map,   *)
(* the timers and the listeners.                                           *)
LEMMA InitSimulates == Init => Promise!Init
BY DEF Init, Promise!Init

LEMMA ResolveSimulates ==
    ASSUME IInv, NEW S \in SUBSET Waits, NEW o \in Outcome,
           NEW event, ResolveEntries(S, o, event), UNCHANGED phase,
           \A w \in S : phase[w] = "waiting"
    PROVE  Promise!Next
<1> DEFINE live == {w \in S : outcome[w] = NoOutcome}
<1>1. outcome' = [w \in Waits |-> IF w \in live THEN o ELSE outcome[w]]
  BY Delivered
<1>2. live \subseteq {w \in {v \in Waits : phase[v] = "waiting"} : outcome[w] = NoOutcome}
  OBVIOUS
<1>3. Promise!Deliver(live, o)
  BY <1>1, <1>2 DEF Promise!Deliver
<1>4. QED
  BY <1>3 DEF Promise!Next

(* A register() that throws refuses the wait, one that returns a promise   *)
(* asks for it, answered at once if the caller has given up; everything    *)
(* else delivers one outcome to some open waits.                           *)
LEMMA NextSimulates ==
    ASSUME IInv, [Next]_vars
    PROVE  Promise!Next \/ UNCHANGED Promise!vars
<1> USE OutcomeValues, CauseValues
<1>1. ASSUME NEW w \in Waits, RegisterDuplicate(w) PROVE Promise!Refuse(w)
  BY <1>1 DEF RegisterDuplicate, Promise!Refuse, Promise!Fresh, IInv, TypeOK
<1>2. ASSUME NEW w \in Waits, RegisterGivenUp(w)
      PROVE  Promise!AskAnswered(w, AutoDeny("aborted"))
  <2>1. outcome[w] = NoOutcome
    BY <1>2 DEF RegisterGivenUp, IInv, FlagAgrees, UnacceptedIsInert
  <2> DEFINE o == AutoDeny("aborted")
  <2>2. outcome' = [v \in Waits |-> IF v \in {w} /\ outcome[v] = NoOutcome THEN o ELSE outcome[v]]
    <3>1. ResolveEntries({w}, o, Interrupted(SignalOf[w])) /\ {w} \in SUBSET Waits /\ o \in Outcome
      BY <1>2 DEF RegisterGivenUp
    <3> HIDE DEF o
    <3>2. QED
      BY <3>1, Delivered
  <2>3. outcome' = [outcome EXCEPT ![w] = o]
    <3> HIDE DEF o
    <3>1. QED
      BY <2>1, <2>2 DEF IInv, TypeOK
  <2>4. QED
    BY <1>2, <2>3
    DEF RegisterGivenUp, Promise!AskAnswered, Promise!Fresh, IInv, TypeOK
<1>3. ASSUME NEW w \in Waits, RegisterWaiting(w) PROVE Promise!Ask(w)
  BY <1>3 DEF RegisterWaiting, Promise!Ask, Promise!Fresh, IInv, TypeOK
<1>4. ASSUME NEW w \in Waits, Timeout(w) PROVE Promise!Next
  <2>1. \A v \in {w} : phase[v] = "waiting"
    BY <1>4, ArmedIsAccepted DEF Timeout
  <2>2. QED
    BY <1>4, <2>1, ResolveSimulates DEF Timeout
<1>5. ASSUME NEW i \in Ids, NEW d \in Decision, Resolve(i, d) PROVE Promise!Next
  <2>1. PICK w \in Waits : pending[i] = w
    BY <1>5 DEF Resolve, IInv, TypeOK
  <2>2. phase[w] = "waiting"
    BY <1>5, <2>1 DEF Resolve, IInv, NoStaleEntry, Open
  <2>3. ResolveEntries({w}, UserSaid(d), Answered(i)) /\ UNCHANGED phase
    BY <1>5, <2>1 DEF Resolve
  <2>4. QED
    BY <2>2, <2>3, ResolveSimulates
<1>6. ASSUME NEW s \in Signals, Abort(s) PROVE Promise!Next
  <2> DEFINE S == {w \in Waits : listening[w] /\ SignalOf[w] = s}
  <2>1. ResolveEntries(S, AutoDeny("aborted"), Interrupted(s)) /\ UNCHANGED phase
    BY <1>6 DEF Abort
  <2>2. \A v \in S : phase[v] = "waiting"
    BY ArmedIsAccepted
  <2>3. QED
    BY <2>1, <2>2, ResolveSimulates
<1>7. ASSUME NEW r \in CancelReason, CancelAll(r) PROVE Promise!Next
  <2> DEFINE S == {w \in Waits : pending[IdOf[w]] = w}
  <2>1. ResolveEntries(S, AutoDeny(r), Cancelled) /\ UNCHANGED phase
    BY <1>7 DEF CancelAll
  <2>2. \A v \in S : phase[v] = "waiting"
    BY ArmedIsAccepted
  <2>3. QED
    BY <2>1, <2>2, ResolveSimulates
<1>8. CASE UNCHANGED vars
  BY <1>8 DEF vars, Promise!vars
<1>9. QED
  BY <1>1, <1>2, <1>3, <1>4, <1>5, <1>6, <1>7, <1>8 DEF Next, Register, Promise!Next

(* The map, the timers and the listeners deliver exactly one outcome to    *)
(* each wait that register() accepts, and none to one that it refuses.     *)
THEOREM RegistryImplements == Spec => ImplementsPromise
<1>1. IInv /\ [Next]_vars => [Promise!Next]_(Promise!vars)
  BY NextSimulates
<1>2. QED
  BY <1>1, InitSimulates, SpecIInv, PTL DEF Spec, ImplementsPromise, Promise!Spec

-----------------------------------------------------------------------------
\* Console: the terminal client's streams and the runs of the server they follow.

\* The shapes that the steps rely on.
Chats == UNION {[D -> ChatMessage] : D \in SUBSET ChatId}
Queues == {q \in Seq(EventType) : Len(q) <= MaxQueue}
RunShape == [at : {"none", "arriving", "refused", "running", "over"}, prompting : BOOLEAN,
             open : BOOLEAN, subscribed : BOOLEAN, aborted : BOOLEAN, queue : Queues]
StreamShape == [pc : {"unused", "posting", "reading", "sleeping", "failed", "closing", "done"},
                attempt : 0..MaxAttempts, aborted : BOOLEAN, made : Nat]

ConsoleShapes ==
  /\ boot \in [status : {"checking_server", "rechecking", "creating", "ready", "error"},
               checks : 0..MaxHealthChecks]
  /\ store \in [streaming : BOOLEAN, prompt : BOOLEAN, chat : Chats]
  /\ shown \in BOOLEAN /\ modal \in BOOLEAN /\ session \in BOOLEAN
  /\ ref \in ChatId \cup {NoMessage} /\ controllerRef \in Streams \cup {NoStream}
  /\ streams \in [Streams -> StreamShape] /\ runs \in [Runs -> RunShape]
  /\ spent \in [faults : 0..MaxFaults, tokens : 0..MaxTokens, events : 0..MaxEvents]

\* A stream has posted `attempt` times, and none before it is sent.
Attempts ==
  \A s \in Streams :
    /\ streams[s].pc = "unused" =>
         streams[s].attempt = 0 /\ ~streams[s].aborted /\ controllerRef # s
    /\ streams[s].pc # "unused" => streams[s].attempt >= 1
    /\ streams[s].pc = "sleeping" => streams[s].attempt < MaxAttempts
    /\ \A n \in 1..MaxAttempts : n > streams[s].attempt => runs[<<s, n>>].at = "none"

\* A run is on the bus from when it starts until it ends or its client is lost.
RunTrue(q) ==
  /\ q.subscribed <=> q.at = "running" /\ ~q.aborted
  /\ q.at \in {"none", "arriving", "refused"} => ~q.aborted

\* Streams that are heard at once have been noted to be.
Together(s, t) == s = t \/ {s, t} \in overlapped
HeardTogether == \A s, t \in Heard : Together(s, t)

\* The current message is of a stream that overlapped all that are heard.
RefTrue == ref # NoMessage => \A s \in Heard : Together(s, ref[1])

CInv ==
  /\ ConsoleShapes /\ Attempts
  /\ \A r \in Runs : RunTrue(runs[r])
  /\ HeardTogether /\ RefTrue /\ TokensStayHome

-----------------------------------------------------------------------------
LEMMA ChatIs ==
  ASSUME NEW chat
  PROVE  chat \in Chats <=> chat \in [DOMAIN chat -> ChatMessage] /\ DOMAIN chat \subseteq ChatId
<1>1. ASSUME chat \in Chats PROVE chat \in [DOMAIN chat -> ChatMessage] /\ DOMAIN chat \subseteq ChatId
  <2>1. PICK D \in SUBSET ChatId : chat \in [D -> ChatMessage]
    BY <1>1 DEF Chats
  <2> QED  BY <2>1
<1>2. ASSUME chat \in [DOMAIN chat -> ChatMessage], DOMAIN chat \subseteq ChatId PROVE chat \in Chats
  BY <1>2 DEF Chats
<1> QED  BY <1>1, <1>2

\* The messages of a chat have text of streams that were open together.
Home(chat) == \A id \in DOMAIN chat : \A s \in chat[id].tokens : Together(s, id[1])

LEMMA HomeIs == TokensStayHome <=> Home(store.chat)
  BY DEF TokensStayHome, Home, Together

LEMMA NoChat == << >> \in Chats /\ Home(<< >>)
<1>1. DOMAIN << >> = {} /\ << >> \in [{} -> ChatMessage]
  OBVIOUS
<1> QED  BY <1>1, ChatIs DEF Home

\* finalizeMessage closes a message and leaves its text.
LEMMA FinalisedHome ==
  ASSUME CInv, NEW id
  PROVE  Finalised(id) \in Chats /\ Home(Finalised(id))
<1>1. store.chat \in Chats /\ Home(store.chat)
  BY HomeIs DEF CInv, ConsoleShapes
<1>2. CASE id \notin DOMAIN store.chat
  BY <1>1, <1>2 DEF Finalised
<1>3. CASE id \in DOMAIN store.chat
  <2> DEFINE chat == store.chat
             msg == [chat[id] EXCEPT !.open = FALSE]
  <2>1. chat \in [DOMAIN chat -> ChatMessage] /\ DOMAIN chat \subseteq ChatId
    BY <1>1, ChatIs
  <2>2. msg \in ChatMessage /\ msg.tokens = chat[id].tokens
    BY <1>3, <2>1 DEF ChatMessage
  <2>3. Finalised(id) = [chat EXCEPT ![id] = msg]
    BY <1>3 DEF Finalised
  <2> HIDE DEF msg, chat
  <2>4. /\ Finalised(id) \in [DOMAIN chat -> ChatMessage] /\ DOMAIN Finalised(id) = DOMAIN chat
        /\ \A i \in DOMAIN chat : Finalised(id)[i].tokens = chat[i].tokens
    BY <2>1, <2>2, <2>3
  <2> QED  BY <1>1, <2>1, <2>4, ChatIs DEF Home, chat
<1> QED  BY <1>2, <1>3

LEMMA WithHome ==
  ASSUME CInv, NEW id \in ChatId, NEW msg \in ChatMessage, msg.tokens \subseteq {id[1]}
  PROVE  With(id, msg) \in Chats /\ Home(With(id, msg))
<1> DEFINE chat == store.chat
<1>1. chat \in Chats /\ Home(chat)
  BY HomeIs DEF CInv, ConsoleShapes
<1>2. chat \in [DOMAIN chat -> ChatMessage] /\ DOMAIN chat \subseteq ChatId
  BY <1>1, ChatIs
<1>3. With(id, msg) = [i \in DOMAIN chat \cup {id} |-> IF i = id THEN msg ELSE chat[i]]
  BY DEF With
<1> HIDE DEF chat
<1>4. /\ DOMAIN With(id, msg) = DOMAIN chat \cup {id}
      /\ With(id, msg) \in [DOMAIN chat \cup {id} -> ChatMessage]
      /\ \A i \in DOMAIN chat \cup {id} : With(id, msg)[i] = IF i = id THEN msg ELSE chat[i]
  BY <1>2, <1>3
<1>5. Home(With(id, msg))
  BY <1>1, <1>4 DEF Home, Together
<1>6. With(id, msg) \in Chats
  BY <1>2, <1>4, ChatIs
<1> QED  BY <1>5, <1>6

\* Text of a stream that overlapped the one the message is of.
LEMMA SaidHome ==
  ASSUME CInv, NEW s \in Heard, ref # NoMessage, ref \in DOMAIN store.chat
  PROVE  LET said == [store.chat EXCEPT ![ref].tokens = @ \cup {s}]
         IN  said \in Chats /\ Home(said)
<1> DEFINE chat == store.chat
           msg == [chat[ref] EXCEPT !.tokens = @ \cup {s}]
           said == [chat EXCEPT ![ref] = msg]
<1>1. chat \in Chats /\ Home(chat) /\ Together(s, ref[1]) /\ s \in Streams
  BY HomeIs DEF CInv, ConsoleShapes, RefTrue, Heard, Live
<1>2. chat \in [DOMAIN chat -> ChatMessage] /\ DOMAIN chat \subseteq ChatId
  BY <1>1, ChatIs
<1>3. msg \in ChatMessage /\ msg.tokens = chat[ref].tokens \cup {s}
  BY <1>1, <1>2 DEF ChatMessage
<1>4. [store.chat EXCEPT ![ref].tokens = @ \cup {s}] = said
  OBVIOUS
<1>a. ref \in DOMAIN chat
  OBVIOUS
<1> HIDE DEF chat, msg
<1>5. /\ DOMAIN said = DOMAIN chat /\ said \in [DOMAIN chat -> ChatMessage]
      /\ \A i \in DOMAIN chat : said[i] = IF i = ref THEN msg ELSE chat[i]
  BY <1>2, <1>3
<1> HIDE DEF said
<1>6. Home(said)
  BY <1>1, <1>3, <1>5, <1>a DEF Home
<1>7. said \in Chats
  BY <1>2, <1>5, ChatIs
<1> QED  BY <1>4, <1>6, <1>7

-----------------------------------------------------------------------------
LEMMA StreamIs ==
  ASSUME CInv, NEW s \in Streams
  PROVE  streams[s] \in StreamShape
  BY DEF CInv, ConsoleShapes

LEMMA ConnIsRun ==
  ASSUME CInv, NEW s \in Streams, streams[s].pc # "unused"
  PROVE  Conn(s) \in Runs /\ streams[s].attempt \in 1..MaxAttempts
<1>1. streams[s] \in StreamShape /\ streams[s].attempt >= 1
  BY StreamIs DEF CInv, Attempts
<1>2. streams[s].attempt \in 1..MaxAttempts
  BY <1>1, ConsoleAssumption DEF StreamShape
<1> QED  BY <1>2 DEF Conn, Runs

\* One stream goes on to q, and only runs of it may begin.
LEMMA StreamMoves ==
  ASSUME CInv, NEW s \in Streams, NEW q \in StreamShape, streams' = [streams EXCEPT ![s] = q],
         streams[s].pc # "unused", streams[s].pc # "done", q.pc # "unused",
         q.aborted = streams[s].aborted, q.attempt >= streams[s].attempt,
         q.pc = "sleeping" => q.attempt < MaxAttempts,
         controllerRef' \in {controllerRef, NoStream}, overlapped' = overlapped,
         \A r \in Runs : runs[r].at = "none" =>
            runs'[r].at = "none" \/ \E n \in 1..q.attempt : r = <<s, n>>
  PROVE  /\ streams' \in [Streams -> StreamShape] /\ controllerRef' \in Streams \cup {NoStream}
         /\ Attempts' /\ HeardTogether' /\ Heard' \subseteq Heard
<1>1. streams \in [Streams -> StreamShape] /\ controllerRef \in Streams \cup {NoStream}
  BY DEF CInv, ConsoleShapes
<1>2. /\ streams' \in [Streams -> StreamShape]
      /\ \A t \in Streams : streams'[t] = IF t = s THEN q ELSE streams[t]
  BY <1>1
<1>3. NoStream \notin Streams
  BY ConsoleAssumption DEF NoStream, Streams
<1>4. streams[s].attempt \in 1..MaxAttempts /\ q.attempt \in 0..MaxAttempts /\ q.attempt >= 1
  BY ConnIsRun, ConsoleAssumption DEF StreamShape
<1>5. Attempts'
  <2> SUFFICES ASSUME NEW t \in Streams
               PROVE  /\ streams'[t].pc = "unused" =>
                           streams'[t].attempt = 0 /\ ~streams'[t].aborted /\ controllerRef' # t
                      /\ streams'[t].pc # "unused" => streams'[t].attempt >= 1
                      /\ streams'[t].pc = "sleeping" => streams'[t].attempt < MaxAttempts
                      /\ \A n \in 1..MaxAttempts : n > streams'[t].attempt => runs'[<<t, n>>].at = "none"
    BY DEF Attempts
  <2>1. /\ streams[t].pc = "unused" =>
             streams[t].attempt = 0 /\ ~streams[t].aborted /\ controllerRef # t
        /\ streams[t].pc # "unused" => streams[t].attempt >= 1
        /\ streams[t].pc = "sleeping" => streams[t].attempt < MaxAttempts
        /\ \A n \in 1..MaxAttempts : n > streams[t].attempt => runs[<<t, n>>].at = "none"
    BY DEF CInv, Attempts
  <2>2. \A n \in 1..MaxAttempts : <<t, n>> \in Runs
    BY DEF Runs
  <2>3. CASE t # s
    <3>1. \A n \in 1..MaxAttempts : ~ \E m \in 1..q.attempt : <<t, n>> = <<s, m>>
      BY <2>3
    <3> QED  BY <1>2, <1>3, <2>1, <2>2, <2>3, <3>1
  <2>4. CASE t = s
    <3>1. \A n \in 1..MaxAttempts : n > q.attempt => n > streams[s].attempt
      BY <1>4
    <3>2. \A n \in 1..MaxAttempts : n > q.attempt => ~ \E m \in 1..q.attempt : <<s, n>> = <<s, m>>
      BY <1>4
    <3> QED  BY <1>2, <1>4, <2>1, <2>2, <2>4, <3>1, <3>2
  <2> QED  BY <2>3, <2>4
<1>6. Heard' \subseteq Heard
  BY <1>2 DEF Heard, Live
<1>7. HeardTogether'
  BY <1>6 DEF CInv, HeardTogether, Together
<1> QED  BY <1>1, <1>2, <1>5, <1>6, <1>7

LEMMA RefStays ==
  ASSUME CInv, Heard' \subseteq Heard, overlapped' = overlapped, ref' \in {ref, NoMessage}
  PROVE  RefTrue'
  BY DEF CInv, RefTrue, Together

LEMMA ChatStays ==
  ASSUME CInv, store'.chat = store.chat, overlapped' = overlapped
  PROVE  TokensStayHome'
  BY DEF CInv, TokensStayHome

\* A run goes on to q.
LEMMA RunMoves ==
  ASSUME CInv, NEW r \in Runs, NEW q \in RunShape, RunTrue(q), runs' = [runs EXCEPT ![r] = q]
  PROVE  /\ runs' \in [Runs -> RunShape] /\ \A p \in Runs : RunTrue(runs'[p])
         /\ \A p \in Runs : runs'[p] = IF p = r THEN q ELSE runs[p]
<1>1. runs \in [Runs -> RunShape] /\ \A p \in Runs : RunTrue(runs[p])
  BY DEF CInv, ConsoleShapes
<1>2. runs' \in [Runs -> RunShape] /\ \A p \in Runs : runs'[p] = IF p = r THEN q ELSE runs[p]
  BY <1>1
<1> QED  BY <1>1, <1>2

\* What a step of a stream leaves.
StreamKept ==
  /\ UNCHANGED <<boot, shown, modal, session, spent, overlapped>>
  /\ controllerRef' \in {controllerRef, NoStream}

LEMMA StreamStep ==
  ASSUME CInv, NEW s \in Streams, NEW q \in StreamShape, streams' = [streams EXCEPT ![s] = q],
         streams[s].pc # "unused", streams[s].pc # "done", q.pc # "unused",
         q.aborted = streams[s].aborted, q.attempt >= streams[s].attempt,
         q.pc = "sleeping" => q.attempt < MaxAttempts,
         StreamKept, store' = store, ref' \in {ref, NoMessage},
         runs' \in [Runs -> RunShape], \A r \in Runs : RunTrue(runs'[r]),
         \A r \in Runs : runs[r].at = "none" =>
            runs'[r].at = "none" \/ \E n \in 1..q.attempt : r = <<s, n>>
  PROVE  CInv'
<1>1. /\ streams' \in [Streams -> StreamShape] /\ controllerRef' \in Streams \cup {NoStream}
      /\ Attempts' /\ HeardTogether' /\ Heard' \subseteq Heard
  BY StreamMoves DEF StreamKept
<1>2. ConsoleShapes'
  BY <1>1 DEF CInv, ConsoleShapes, StreamKept
<1>3. RefTrue' /\ TokensStayHome'
  BY <1>1, RefStays, ChatStays DEF StreamKept
<1> QED  BY <1>1, <1>2, <1>3 DEF CInv

LEMMA HandshakeInv == ASSUME CInv, NEW s \in Streams, Handshake(s) PROVE CInv'
<1> DEFINE q == [streams[s] EXCEPT !.pc = "reading"]
<1>1. streams[s] \in StreamShape /\ streams[s].pc = "posting"
  BY StreamIs DEF Handshake
<1>2. q \in StreamShape /\ q.pc = "reading" /\ q.aborted = streams[s].aborted
      /\ q.attempt = streams[s].attempt /\ q.attempt >= streams[s].attempt
  BY <1>1 DEF StreamShape
<1>3. /\ streams' = [streams EXCEPT ![s] = q] /\ runs' = runs /\ store' = store /\ ref' = ref
      /\ StreamKept
  BY DEF Handshake, Kept, StreamKept
<1>4. runs' \in [Runs -> RunShape] /\ \A r \in Runs : RunTrue(runs'[r])
  BY <1>3 DEF CInv, ConsoleShapes
<1> HIDE DEF q
<1> QED  BY <1>1, <1>2, <1>3, <1>4, StreamStep

LEMMA AttemptOverInv ==
  ASSUME CInv, NEW s \in Streams, NEW failed \in BOOLEAN, AttemptOver(s, failed),
         streams[s].pc \in {"posting", "reading"},
         runs' \in [Runs -> RunShape], \A r \in Runs : RunTrue(runs'[r]),
         \A r \in Runs : runs[r].at = "none" => runs'[r].at = "none"
  PROVE  CInv'
<1> DEFINE next == IF streams[s].attempt < MaxAttempts THEN "sleeping"
                   ELSE IF failed THEN "failed" ELSE "closing"
           q == [streams[s] EXCEPT !.pc = next]
<1>1. streams[s] \in StreamShape
  BY StreamIs
<1>2. q \in StreamShape /\ q.pc = next /\ q.aborted = streams[s].aborted
      /\ q.attempt = streams[s].attempt /\ q.attempt >= streams[s].attempt
  BY <1>1 DEF StreamShape
<1>3. next # "unused" /\ (next = "sleeping" => q.attempt < MaxAttempts)
  BY <1>2
<1>4. streams' = [streams EXCEPT ![s] = q] /\ store' = store /\ ref' = ref /\ StreamKept
  BY DEF AttemptOver, Kept, StreamKept
<1> HIDE DEF q, next
<1> QED  BY <1>1, <1>2, <1>3, <1>4, StreamStep

LEMMA PostFailsInv == ASSUME CInv, NEW s \in Streams, PostFails(s) PROVE CInv'
<1>1. runs' = runs /\ AttemptOver(s, TRUE) /\ streams[s].pc = "posting"
  BY DEF PostFails
<1>2. runs' \in [Runs -> RunShape] /\ \A r \in Runs : RunTrue(runs'[r])
  BY <1>1 DEF CInv, ConsoleShapes
<1> QED  BY <1>1, <1>2, AttemptOverInv

LEMMA BodyEndsInv == ASSUME CInv, NEW s \in Streams, BodyEnds(s) PROVE CInv'
<1> DEFINE q == [runs[Conn(s)] EXCEPT !.open = FALSE]
<1>1. AttemptOver(s, ~runs[Conn(s)].open) /\ streams[s].pc = "reading"
      /\ runs' = [runs EXCEPT ![Conn(s)] = q]
  BY DEF BodyEnds
<1>2. Conn(s) \in Runs
  BY <1>1, ConnIsRun
<1>3. runs[Conn(s)] \in RunShape /\ RunTrue(runs[Conn(s)])
  BY <1>2 DEF CInv, ConsoleShapes
<1>4. q \in RunShape /\ q.at = runs[Conn(s)].at /\ q.subscribed = runs[Conn(s)].subscribed
      /\ q.aborted = runs[Conn(s)].aborted
  BY <1>3 DEF RunShape
<1>5. (~runs[Conn(s)].open) \in BOOLEAN
  OBVIOUS
<1> HIDE DEF q
<1>6. RunTrue(q)
  BY <1>3, <1>4 DEF RunTrue
<1>7. /\ runs' \in [Runs -> RunShape] /\ \A p \in Runs : RunTrue(runs'[p])
      /\ \A p \in Runs : runs'[p].at = runs[p].at
  BY <1>1, <1>2, <1>4, <1>6, RunMoves
<1> QED  BY <1>1, <1>5, <1>7, AttemptOverInv

\* A message is posted by an attempt that has not been made before.
LEMMA PostedRuns ==
  ASSUME CInv, NEW s \in Streams, NEW n \in 1..MaxAttempts, n > streams[s].attempt, runs' = Posted(s, n)
  PROVE  /\ runs' \in [Runs -> RunShape] /\ \A p \in Runs : RunTrue(runs'[p])
         /\ \A p \in Runs : p # <<s, n>> => runs'[p] = runs[p]
<1> DEFINE q == [runs[<<s, n>>] EXCEPT !.at = "arriving", !.open = TRUE]
<1>1. <<s, n>> \in Runs /\ runs[<<s, n>>].at = "none"
  BY DEF CInv, Attempts, Runs
<1>2. runs[<<s, n>>] \in RunShape /\ RunTrue(runs[<<s, n>>])
  BY <1>1 DEF CInv, ConsoleShapes
<1>3. q \in RunShape /\ q.at = "arriving" /\ q.subscribed = runs[<<s, n>>].subscribed
      /\ q.aborted = runs[<<s, n>>].aborted
  BY <1>2 DEF RunShape
<1>4. runs' = [runs EXCEPT ![<<s, n>>] = q]
  BY DEF Posted
<1> HIDE DEF q
<1>5. RunTrue(q)
  BY <1>1, <1>2, <1>3 DEF RunTrue, RunShape
<1> QED  BY <1>1, <1>3, <1>4, <1>5, RunMoves

LEMMA WakeInv == ASSUME CInv, NEW s \in Streams, Wake(s) PROVE CInv'
<1> DEFINE n == streams[s].attempt + 1
           q == [streams[s] EXCEPT !.pc = "posting", !.attempt = n]
<1>1. streams[s] \in StreamShape /\ streams[s].pc = "sleeping" /\ streams[s].attempt < MaxAttempts
  BY StreamIs DEF Wake, CInv, Attempts
<1>2. /\ n \in 1..MaxAttempts /\ n \in 0..MaxAttempts /\ n \in 1..n
      /\ n > streams[s].attempt /\ n >= streams[s].attempt
  BY <1>1, ConsoleAssumption DEF StreamShape
<1>4. streams' = [streams EXCEPT ![s] = q] /\ store' = store /\ ref' = ref /\ StreamKept
  BY DEF Wake, Kept, StreamKept
<1>5. runs' = Posted(s, n)
  BY DEF Wake
<1> HIDE DEF n
<1>3. q \in StreamShape /\ q.pc = "posting" /\ q.aborted = streams[s].aborted /\ q.attempt = n
  BY <1>1, <1>2 DEF StreamShape
<1> HIDE DEF q
<1>6. /\ runs' \in [Runs -> RunShape] /\ \A p \in Runs : RunTrue(runs'[p])
      /\ \A p \in Runs : p # <<s, n>> => runs'[p] = runs[p]
  BY <1>2, <1>5, PostedRuns
<1>7. n \in 1..q.attempt /\ q.attempt >= streams[s].attempt
  BY <1>2, <1>3
<1>8. \A r \in Runs : runs[r].at = "none" => runs'[r].at = "none" \/ \E m \in 1..q.attempt : r = <<s, m>>
  BY <1>6, <1>7
<1> QED  BY <1>1, <1>3, <1>4, <1>6, <1>7, <1>8, StreamStep

-----------------------------------------------------------------------------
\* What an event of stream s may do: open a message of s, add to the current
\* one, or close it.
LEMMA DispatchDoes ==
  ASSUME CInv, NEW s \in Heard, streams[s].pc = "reading", NEW e \in EventType, Dispatch(s, e)
  PROVE  /\ store' \in [streaming : BOOLEAN, prompt : BOOLEAN, chat : Chats]
         /\ Home(store'.chat)
         /\ ref' \in {ref, NoMessage} \/ (ref' \in ChatId /\ ref'[1] = s)
         /\ \E q \in StreamShape :
               /\ streams' = [streams EXCEPT ![s] = q]
               /\ q.pc \in {"reading", "closing"} /\ q.aborted = streams[s].aborted
               /\ q.attempt = streams[s].attempt
<1>1. /\ store \in [streaming : BOOLEAN, prompt : BOOLEAN, chat : Chats] /\ Home(store.chat)
      /\ s \in Streams /\ streams \in [Streams -> StreamShape]
  BY HomeIs DEF CInv, ConsoleShapes, Heard, Live
<1>2. streams[s] \in StreamShape
  BY <1>1
<1>3. /\ streams = [streams EXCEPT ![s] = streams[s]]
      /\ streams[s].pc \in {"reading", "closing"}
  BY <1>1
<1>4. ASSUME NEW tokens \in {{}, {s}}, Opens(s, tokens)
      PROVE  /\ store' \in [streaming : BOOLEAN, prompt : BOOLEAN, chat : Chats]
             /\ Home(store'.chat) /\ ref' \in ChatId /\ ref'[1] = s
             /\ \E q \in StreamShape :
                   /\ streams' = [streams EXCEPT ![s] = q]
                   /\ q.pc \in {"reading", "closing"} /\ q.aborted = streams[s].aborted
                   /\ q.attempt = streams[s].attempt
  <2> DEFINE id == <<s, streams[s].made + 1>>
             msg == [open |-> TRUE, tokens |-> tokens]
             q == [streams[s] EXCEPT !.made = @ + 1]
  <2>1. id \in ChatId /\ id[1] = s
    BY <1>1, <1>2 DEF ChatId, StreamShape
  <2>2. msg \in ChatMessage /\ msg.tokens \subseteq {s}
    BY <1>1, <1>4 DEF ChatMessage
  <2>3. /\ store' = [store EXCEPT !.chat = With(id, msg), !.streaming = TRUE]
        /\ ref' = id /\ streams' = [streams EXCEPT ![s] = q]
    BY <1>4 DEF Opens
  <2>4. q \in StreamShape /\ q.pc = streams[s].pc /\ q.aborted = streams[s].aborted
        /\ q.attempt = streams[s].attempt
    BY <1>2 DEF StreamShape
  <2> HIDE DEF q, msg, id
  <2>5. With(id, msg) \in Chats /\ Home(With(id, msg))
    BY <2>1, <2>2, WithHome
  <2>6. store'.chat = With(id, msg)
    BY <1>1, <2>3
  <2>7. store' \in [streaming : BOOLEAN, prompt : BOOLEAN, chat : Chats]
    BY <1>1, <2>3, <2>5
  <2> QED  BY <1>3, <2>1, <2>3, <2>4, <2>5, <2>6, <2>7
<1>5. ASSUME NEW ended \in BOOLEAN, Settles(s, ended)
      PROVE  /\ store' \in [streaming : BOOLEAN, prompt : BOOLEAN, chat : Chats]
             /\ Home(store'.chat) /\ ref' = NoMessage
             /\ \E q \in StreamShape :
                   /\ streams' = [streams EXCEPT ![s] = q]
                   /\ q.pc \in {"reading", "closing"} /\ q.aborted = streams[s].aborted
                   /\ q.attempt = streams[s].attempt
  <2> DEFINE chat == Finalised(ref)
             q == [streams[s] EXCEPT !.pc = "closing"]
             prompt == IF ended THEN FALSE ELSE store.prompt
  <2>1. chat \in Chats /\ Home(chat)
    BY FinalisedHome
  <2>2. store' = [store EXCEPT !.chat = chat, !.prompt = prompt] /\ ref' = NoMessage
    BY <1>5 DEF Settles
  <2>3. prompt \in BOOLEAN
    BY <1>1
  <2>4. q \in StreamShape /\ q.pc = "closing" /\ q.aborted = streams[s].aborted
        /\ q.attempt = streams[s].attempt
    BY <1>2 DEF StreamShape
  <2>5. streams' = [streams EXCEPT ![s] = q] \/ streams' = streams
    BY <1>5 DEF Settles
  <2> HIDE DEF q, chat, prompt
  <2>6. store'.chat = chat /\ store' \in [streaming : BOOLEAN, prompt : BOOLEAN, chat : Chats]
    BY <1>1, <2>1, <2>2, <2>3
  <2> QED  BY <1>2, <1>3, <2>1, <2>2, <2>4, <2>5, <2>6
<1>6. ASSUME ref # NoMessage, Says(s)
      PROVE  /\ store' \in [streaming : BOOLEAN, prompt : BOOLEAN, chat : Chats]
             /\ Home(store'.chat) /\ ref' = ref /\ streams' = streams
  <2>1. CASE ref \notin DOMAIN store.chat
    BY <1>1, <1>6, <2>1 DEF Says
  <2>2. CASE ref \in DOMAIN store.chat
    <3> DEFINE said == [store.chat EXCEPT ![ref].tokens = @ \cup {s}]
    <3>1. said \in Chats /\ Home(said)
      BY <1>6, <2>2, SaidHome
    <3>2. store' = [store EXCEPT !.chat = said]
      BY <1>6, <2>2 DEF Says
    <3> HIDE DEF said
    <3>3. store'.chat = said /\ store' \in [streaming : BOOLEAN, prompt : BOOLEAN, chat : Chats]
      BY <1>1, <3>1, <3>2
    <3> QED  BY <1>6, <3>1, <3>3 DEF Says
  <2> QED  BY <2>1, <2>2
<1>7. ASSUME store' = [store EXCEPT !.prompt = (e = "approval_request")], UNCHANGED <<ref, streams>>
      PROVE  /\ store' \in [streaming : BOOLEAN, prompt : BOOLEAN, chat : Chats]
             /\ Home(store'.chat) /\ ref' = ref /\ streams' = streams
  BY <1>1, <1>7
<1>8. \/ Opens(s, {}) \/ Opens(s, {s}) \/ Settles(s, FALSE) \/ Settles(s, TRUE)
      \/ ref # NoMessage /\ Says(s)
      \/ store' = [store EXCEPT !.prompt = (e = "approval_request")] /\ UNCHANGED <<ref, streams>>
  BY DEF Dispatch
<1>9. CASE Opens(s, {}) \/ Opens(s, {s})
  BY <1>4, <1>9
<1>10. CASE Settles(s, FALSE) \/ Settles(s, TRUE)
  BY <1>5, <1>10
<1>11. CASE streams' = streams /\ ref' = ref /\ Home(store'.chat)
            /\ store' \in [streaming : BOOLEAN, prompt : BOOLEAN, chat : Chats]
  BY <1>2, <1>3, <1>11
<1> QED  BY <1>6, <1>7, <1>8, <1>9, <1>10, <1>11

LEMMA ReadRuns ==
  ASSUME CInv, NEW s \in Streams, streams[s].pc = "reading", runs[Conn(s)].queue # <<>>, runs' = Taken(s)
  PROVE  /\ runs' \in [Runs -> RunShape] /\ \A p \in Runs : RunTrue(runs'[p])
         /\ \A p \in Runs : runs'[p].at = runs[p].at
         /\ \A p \in Runs : p # Conn(s) => runs'[p] = runs[p]
<1> DEFINE run == runs[Conn(s)]
           open == run.open /\ Head(run.queue) # "session_end"
           q == [run EXCEPT !.queue = Tail(@), !.open = open]
<1>1. Conn(s) \in Runs
  BY ConnIsRun
<1>2. run \in RunShape /\ RunTrue(run)
  BY <1>1 DEF CInv, ConsoleShapes
<1>3. runs' = [runs EXCEPT ![Conn(s)] = q]
  BY DEF Taken
<1>4. Tail(run.queue) \in Queues
  <2>1. run.queue \in Seq(EventType) /\ Len(run.queue) <= MaxQueue /\ run.queue # <<>>
    BY <1>2 DEF RunShape, Queues
  <2> HIDE DEF run
  <2>2. Tail(run.queue) \in Seq(EventType) /\ Len(Tail(run.queue)) = Len(run.queue) - 1
    BY <2>1
  <2>3. Len(run.queue) \in Nat
    BY <2>1
  <2> QED  BY <2>1, <2>2, <2>3, ConsoleAssumption DEF Queues
<1>5. open \in BOOLEAN
  BY <1>2 DEF RunShape
<1> HIDE DEF open
<1>6. q \in RunShape /\ q.at = run.at /\ q.subscribed = run.subscribed /\ q.aborted = run.aborted
  BY <1>2, <1>4, <1>5 DEF RunShape
<1> HIDE DEF q
<1>7. RunTrue(q)
  BY <1>2, <1>6 DEF RunTrue
<1> QED  BY <1>1, <1>3, <1>6, <1>7, RunMoves

LEMMA ReadInv == ASSUME CInv, NEW s \in Streams, Read(s) PROVE CInv'
<1>1. /\ streams[s].pc = "reading" /\ ~streams[s].aborted /\ runs[Conn(s)].queue # <<>>
      /\ Dispatch(s, Head(runs[Conn(s)].queue)) /\ runs' = Taken(s)
      /\ controllerRef' = controllerRef /\ Kept
  BY DEF Read
<1>2. s \in Heard
  BY <1>1 DEF Heard, Live
<1>3. Head(runs[Conn(s)].queue) \in EventType
  <2>1. runs[Conn(s)] \in RunShape
    BY <1>1, ConnIsRun DEF CInv, ConsoleShapes
  <2>2. runs[Conn(s)].queue \in Seq(EventType)
    BY <2>1 DEF RunShape, Queues
  <2> QED  BY <1>1, <2>2
<1>4. /\ store' \in [streaming : BOOLEAN, prompt : BOOLEAN, chat : Chats]
      /\ Home(store'.chat)
      /\ ref' \in {ref, NoMessage} \/ (ref' \in ChatId /\ ref'[1] = s)
      /\ \E q \in StreamShape :
            /\ streams' = [streams EXCEPT ![s] = q]
            /\ q.pc \in {"reading", "closing"} /\ q.aborted = streams[s].aborted
            /\ q.attempt = streams[s].attempt
  BY <1>1, <1>2, <1>3, DispatchDoes
<1>5. PICK q \in StreamShape :
            /\ streams' = [streams EXCEPT ![s] = q]
            /\ q.pc \in {"reading", "closing"} /\ q.aborted = streams[s].aborted
            /\ q.attempt = streams[s].attempt
  BY <1>4
<1>6. /\ runs' \in [Runs -> RunShape] /\ \A p \in Runs : RunTrue(runs'[p])
      /\ \A p \in Runs : runs'[p].at = runs[p].at
  BY <1>1, ReadRuns
<1>7. q.attempt >= streams[s].attempt
  BY <1>5 DEF StreamShape
<1>8. /\ streams' \in [Streams -> StreamShape] /\ controllerRef' \in Streams \cup {NoStream}
      /\ Attempts' /\ HeardTogether' /\ Heard' \subseteq Heard
  BY <1>1, <1>5, <1>6, <1>7, StreamMoves DEF Kept
<1>9. ConsoleShapes'
  BY <1>1, <1>4, <1>6, <1>8 DEF CInv, ConsoleShapes, Kept
<1>10. TokensStayHome'
  BY <1>1, <1>4 DEF TokensStayHome, Home, Together, Kept
<1>11. RefTrue'
  <2>1. CASE ref' \in {ref, NoMessage}
    BY <1>1, <1>8, <2>1, RefStays DEF Kept
  <2>2. CASE ref'[1] = s
    BY <1>1, <1>2, <1>8, <2>2 DEF RefTrue, CInv, HeardTogether, Together, Kept
  <2> QED  BY <1>4, <2>1, <2>2
<1> QED  BY <1>6, <1>8, <1>9, <1>10, <1>11 DEF CInv

LEMMA FinishInv == ASSUME CInv, NEW s \in Streams, Finish(s) PROVE CInv'
<1> DEFINE q == [streams[s] EXCEPT !.pc = "done"]
           z == [runs[Conn(s)] EXCEPT !.queue = <<>>]
<1>1. streams[s] \in StreamShape /\ streams[s].pc \notin {"unused", "done"}
  BY StreamIs DEF Finish, CInv, Attempts
<1>2. q \in StreamShape /\ q.pc = "done" /\ q.aborted = streams[s].aborted
      /\ q.attempt = streams[s].attempt /\ q.attempt >= streams[s].attempt
  BY <1>1 DEF StreamShape
<1>3. streams' = [streams EXCEPT ![s] = q] /\ runs' = [runs EXCEPT ![Conn(s)] = z]
      /\ ref' = NoMessage /\ Kept /\ controllerRef' \in {controllerRef, NoStream}
  BY DEF Finish
<1>4. Conn(s) \in Runs
  BY <1>1, ConnIsRun
<1>5. runs[Conn(s)] \in RunShape /\ RunTrue(runs[Conn(s)])
  BY <1>4 DEF CInv, ConsoleShapes
<1>6. z \in RunShape /\ z.at = runs[Conn(s)].at /\ z.subscribed = runs[Conn(s)].subscribed
      /\ z.aborted = runs[Conn(s)].aborted
  <2>1. <<>> \in Queues
    BY ConsoleAssumption DEF Queues
  <2> QED  BY <1>5, <2>1 DEF RunShape
<1> HIDE DEF q, z
<1>7. RunTrue(z)
  BY <1>5, <1>6 DEF RunTrue
<1>8. /\ runs' \in [Runs -> RunShape] /\ \A p \in Runs : RunTrue(runs'[p])
      /\ \A p \in Runs : runs'[p].at = runs[p].at
  BY <1>3, <1>4, <1>6, <1>7, RunMoves
<1>9. /\ streams' \in [Streams -> StreamShape] /\ controllerRef' \in Streams \cup {NoStream}
      /\ Attempts' /\ HeardTogether' /\ Heard' \subseteq Heard
  BY <1>1, <1>2, <1>3, <1>8, StreamMoves DEF Kept
<1>10. store' \in [streaming : BOOLEAN, prompt : BOOLEAN, chat : Chats] /\ Home(store'.chat)
  <2> DEFINE chat == IF streams[s].pc = "failed" /\ ~streams[s].aborted THEN Finalised(ref) ELSE store.chat
  <2>1. store \in [streaming : BOOLEAN, prompt : BOOLEAN, chat : Chats] /\ Home(store.chat)
    BY HomeIs DEF CInv, ConsoleShapes
  <2>2. chat \in Chats /\ Home(chat)
    BY <2>1, FinalisedHome
  <2>3. store' = [store EXCEPT !.chat = chat, !.streaming = FALSE]
    BY DEF Finish
  <2> HIDE DEF chat
  <2>4. store'.chat = chat
    BY <2>1, <2>3
  <2> QED  BY <2>1, <2>2, <2>3, <2>4
<1>11. ConsoleShapes'
  BY <1>3, <1>8, <1>9, <1>10 DEF CInv, ConsoleShapes, Kept
<1>12. TokensStayHome' /\ RefTrue'
  BY <1>3, <1>9, <1>10, RefStays DEF TokensStayHome, Home, Together, Kept
<1> QED  BY <1>8, <1>9, <1>11, <1>12 DEF CInv

-----------------------------------------------------------------------------
\* A stream that is sent overlaps those that are heard.
LEMMA SendInv == ASSUME CInv, NEW s \in Streams, Send(s) PROVE CInv'
<1> DEFINE q == [streams[s] EXCEPT !.pc = "posting", !.attempt = 1]
<1>1. /\ streams \in [Streams -> StreamShape] /\ streams[s] \in StreamShape /\ streams[s].pc = "unused"
      /\ streams[s].attempt = 0 /\ ~streams[s].aborted
  BY StreamIs DEF Send, CInv, ConsoleShapes, Attempts
<1>2. 1 \in 1..MaxAttempts /\ 1 \in 0..MaxAttempts /\ 1 > streams[s].attempt
  BY <1>1, ConsoleAssumption
<1>3. q \in StreamShape /\ q.pc = "posting" /\ q.aborted = streams[s].aborted /\ q.attempt = 1
  BY <1>1, <1>2 DEF StreamShape
<1>4. streams' = [streams EXCEPT ![s] = q] /\ runs' = Posted(s, 1)
      /\ ref' = NoMessage /\ controllerRef' = s
      /\ store' = [store EXCEPT !.streaming = TRUE]
      /\ overlapped' = overlapped \cup {{s, t} : t \in Heard}
      /\ UNCHANGED <<boot, shown, modal, session, spent>>
  BY DEF Send
<1> HIDE DEF q
<1>5. /\ runs' \in [Runs -> RunShape] /\ \A p \in Runs : RunTrue(runs'[p])
      /\ \A p \in Runs : p # <<s, 1>> => runs'[p] = runs[p]
  BY <1>2, <1>4, PostedRuns
<1>6. /\ streams' \in [Streams -> StreamShape]
      /\ \A t \in Streams : streams'[t] = IF t = s THEN q ELSE streams[t]
  BY <1>1, <1>3, <1>4
<1>7. Attempts'
  <2> SUFFICES ASSUME NEW t \in Streams
               PROVE  /\ streams'[t].pc = "unused" =>
                           streams'[t].attempt = 0 /\ ~streams'[t].aborted /\ controllerRef' # t
                      /\ streams'[t].pc # "unused" => streams'[t].attempt >= 1
                      /\ streams'[t].pc = "sleeping" => streams'[t].attempt < MaxAttempts
                      /\ \A n \in 1..MaxAttempts : n > streams'[t].attempt => runs'[<<t, n>>].at = "none"
    BY DEF Attempts
  <2>1. /\ streams[t].pc = "unused" =>
             streams[t].attempt = 0 /\ ~streams[t].aborted /\ controllerRef # t
        /\ streams[t].pc # "unused" => streams[t].attempt >= 1
        /\ streams[t].pc = "sleeping" => streams[t].attempt < MaxAttempts
        /\ \A n \in 1..MaxAttempts : n > streams[t].attempt => runs[<<t, n>>].at = "none"
    BY DEF CInv, Attempts
  <2>2. \A n \in 1..MaxAttempts : <<t, n>> \in Runs
    BY DEF Runs
  <2>3. CASE t # s
    <3>1. \A n \in 1..MaxAttempts : <<t, n>> # <<s, 1>>
      BY <2>3
    <3> QED  BY <1>4, <1>5, <1>6, <2>1, <2>2, <2>3, <3>1
  <2>4. CASE t = s
    <3>1. \A n \in 1..MaxAttempts : n > 1 => n > streams[s].attempt /\ <<s, n>> # <<s, 1>>
      BY <1>1
    <3> QED  BY <1>3, <1>5, <1>6, <2>1, <2>2, <2>4, <3>1
  <2> QED  BY <2>3, <2>4
<1>8. \A t \in Heard' : t = s \/ t \in Heard
  BY <1>6 DEF Heard, Live
<1>9. HeardTogether'
  <2> SUFFICES ASSUME NEW t \in Heard', NEW u \in Heard', t # u PROVE {t, u} \in overlapped'
    BY DEF HeardTogether, Together
  <2>1. CASE t \in Heard /\ u \in Heard
    BY <1>4, <2>1 DEF CInv, HeardTogether, Together
  <2>2. CASE t = s
    BY <1>4, <1>8, <2>2
  <2>3. CASE u = s
    <3>1. {t, u} = {s, t}
      BY <2>3
    <3> QED  BY <1>4, <1>8, <2>3, <3>1
  <2> QED  BY <1>8, <2>1, <2>2, <2>3
<1>10. store' \in [streaming : BOOLEAN, prompt : BOOLEAN, chat : Chats] /\ store'.chat = store.chat
  BY <1>4 DEF CInv, ConsoleShapes
<1>11. ConsoleShapes'
  BY <1>4, <1>5, <1>6, <1>10 DEF CInv, ConsoleShapes
<1>12. TokensStayHome' /\ RefTrue'
  BY <1>4, <1>10 DEF CInv, TokensStayHome, RefTrue
<1> QED  BY <1>5, <1>7, <1>9, <1>11, <1>12 DEF CInv

LEMMA InterruptInv == ASSUME CInv, Interrupt PROVE CInv'
<1>1. streams \in [Streams -> StreamShape] /\ runs \in [Runs -> RunShape]
  BY DEF CInv, ConsoleShapes
<1>2. /\ streams' \in [Streams -> StreamShape]
      /\ \A t \in Streams : /\ streams'[t].pc = streams[t].pc /\ streams'[t].attempt = streams[t].attempt
                            /\ streams'[t].aborted = (streams[t].aborted \/ t = controllerRef)
  BY <1>1 DEF Interrupt, StreamShape
<1>3. /\ runs' \in [Runs -> RunShape]
      /\ \A r \in Runs : /\ runs'[r].at = runs[r].at /\ runs'[r].aborted = runs[r].aborted
                         /\ runs'[r].subscribed = runs[r].subscribed
  BY <1>1 DEF Interrupt, RunShape
<1>4. /\ controllerRef' = NoStream /\ ref' = NoMessage /\ overlapped' = overlapped
      /\ store' = [store EXCEPT !.streaming = FALSE]
      /\ UNCHANGED <<boot, shown, modal, session, spent>>
  BY DEF Interrupt
<1>5. \A r \in Runs : RunTrue(runs'[r])
  BY <1>3 DEF CInv, RunTrue
<1>6. Attempts'
  <2>1. \A t \in Streams : t # NoStream
    BY ConsoleAssumption DEF NoStream, Streams
  <2>2. \A t \in Streams, n \in 1..MaxAttempts : <<t, n>> \in Runs
    BY DEF Runs
  <2>3. ASSUME NEW t \in Streams
        PROVE  /\ streams'[t].pc = "unused" =>
                    streams'[t].attempt = 0 /\ ~streams'[t].aborted /\ controllerRef' # t
               /\ streams'[t].pc # "unused" => streams'[t].attempt >= 1
               /\ streams'[t].pc = "sleeping" => streams'[t].attempt < MaxAttempts
               /\ \A n \in 1..MaxAttempts : n > streams'[t].attempt => runs'[<<t, n>>].at = "none"
    <3>1. /\ streams[t].pc = "unused" =>
               streams[t].attempt = 0 /\ ~streams[t].aborted /\ controllerRef # t
          /\ streams[t].pc # "unused" => streams[t].attempt >= 1
          /\ streams[t].pc = "sleeping" => streams[t].attempt < MaxAttempts
          /\ \A n \in 1..MaxAttempts : n > streams[t].attempt => runs[<<t, n>>].at = "none"
      BY DEF CInv, Attempts
    <3> QED  BY <1>2, <1>3, <1>4, <2>1, <2>2, <3>1
  <2> QED  BY <2>3 DEF Attempts
<1>7. Heard' \subseteq Heard
  BY <1>2 DEF Heard, Live
<1>8. HeardTogether' /\ RefTrue'
  BY <1>4, <1>7 DEF CInv, HeardTogether, RefTrue, Together
<1>9. store' \in [streaming : BOOLEAN, prompt : BOOLEAN, chat : Chats] /\ store'.chat = store.chat
  BY <1>4 DEF CInv, ConsoleShapes
<1>10. ConsoleShapes'
  BY <1>2, <1>3, <1>4, <1>9 DEF CInv, ConsoleShapes
<1>11. TokensStayHome'
  BY <1>4, <1>9, ChatStays
<1> QED  BY <1>5, <1>6, <1>8, <1>10, <1>11 DEF CInv

\* A step after which the streams are heard as before.
LEMMA ClientStays ==
  ASSUME CInv, UNCHANGED <<ref, controllerRef, streams, overlapped>>,
         store' \in [streaming : BOOLEAN, prompt : BOOLEAN, chat : Chats], Home(store'.chat),
         boot' \in [status : {"checking_server", "rechecking", "creating", "ready", "error"},
                    checks : 0..MaxHealthChecks],
         shown' \in BOOLEAN, modal' = modal, session' \in BOOLEAN,
         spent' \in [faults : 0..MaxFaults, tokens : 0..MaxTokens, events : 0..MaxEvents],
         runs' \in [Runs -> RunShape], \A r \in Runs : RunTrue(runs'[r]),
         \A r \in Runs : runs[r].at = "none" => runs'[r].at = "none"
  PROVE  CInv'
<1>1. ConsoleShapes'
  BY DEF CInv, ConsoleShapes
<1>2. Attempts'
  <2>1. \A t \in Streams, n \in 1..MaxAttempts : <<t, n>> \in Runs
    BY DEF Runs
  <2> QED  BY <2>1 DEF CInv, Attempts
<1>3. Heard' = Heard
  BY DEF Heard, Live
<1>4. HeardTogether' /\ RefTrue'
  BY <1>3 DEF CInv, HeardTogether, RefTrue, Together
<1>5. TokensStayHome'
  BY DEF TokensStayHome, Home, Together
<1> QED  BY <1>1, <1>2, <1>4, <1>5 DEF CInv

LEMMA ClearInv == ASSUME CInv, Clear PROVE CInv'
<1>1. store' \in [streaming : BOOLEAN, prompt : BOOLEAN, chat : Chats] /\ store'.chat = <<>>
  BY NoChat DEF Clear, CInv, ConsoleShapes
<1> QED  BY <1>1, NoChat, ClientStays DEF Clear, CInv, ConsoleShapes

\* What a step that leaves the store has of it.
LEMMA StoreIs ==
  CInv => store \in [streaming : BOOLEAN, prompt : BOOLEAN, chat : Chats] /\ Home(store.chat)
  BY HomeIs DEF CInv, ConsoleShapes

LEMMA BootInv == ASSUME CInv, Boot PROVE CInv'
<1>1. /\ boot \in [status : {"checking_server", "rechecking", "creating", "ready", "error"},
                   checks : 0..MaxHealthChecks]
      /\ 0 \in 0..MaxHealthChecks /\ 1 \in 0..MaxHealthChecks
  BY ConsoleAssumption DEF CInv, ConsoleShapes
<1>2. PICK status \in {"checking_server", "rechecking", "creating", "ready", "error"} :
        \E checks \in 0..MaxHealthChecks : BootTurns(status, checks)
  <2>1. CASE HealthFails
    <3> DEFINE last == boot.checks + 1
               allowed == IF boot.status = "rechecking" THEN 2 ELSE MaxHealthChecks
               checks == IF last < allowed THEN last ELSE 0
    <3>1. checks \in 0..MaxHealthChecks
      BY <1>1, ConsoleAssumption
    <3>2. \E status \in {"checking_server", "rechecking", "creating", "ready", "error"} :
             BootTurns(status, checks)
      BY <2>1 DEF HealthFails
    <3> HIDE DEF checks
    <3> QED  BY <3>1, <3>2
  <2>2. CASE HealthAnswers \/ SessionOpens \/ SessionFails
    BY <1>1, <2>2 DEF HealthAnswers, SessionOpens, SessionFails
  <2> QED  BY <2>1, <2>2 DEF Boot
<1>3. PICK checks \in 0..MaxHealthChecks : BootTurns(status, checks)
  BY <1>2
<1>4. boot' \in [status : {"checking_server", "rechecking", "creating", "ready", "error"},
                 checks : 0..MaxHealthChecks]
  BY <1>3 DEF BootTurns
<1>5. session' \in BOOLEAN
  BY DEF Boot, HealthAnswers, HealthFails, SessionOpens, SessionFails, CInv, ConsoleShapes
<1>6. UNCHANGED <<store, shown, modal, ref, controllerRef, streams, runs, spent, overlapped>>
  BY <1>3 DEF BootTurns
<1> QED  BY <1>4, <1>5, <1>6, StoreIs, ClientStays DEF CInv, ConsoleShapes

LEMMA RenderInv == ASSUME CInv, Render PROVE CInv'
<1>1. shown' \in BOOLEAN
  BY DEF Render, CInv, ConsoleShapes
<1> QED  BY <1>1, StoreIs, ClientStays DEF Render, CInv, ConsoleShapes

-----------------------------------------------------------------------------
\* A step of the server: one run goes on to q.
LEMMA ServerStep ==
  ASSUME CInv, UNCHANGED client, overlapped' = overlapped, session' = session,
         spent' \in [faults : 0..MaxFaults, tokens : 0..MaxTokens, events : 0..MaxEvents],
         NEW r \in Runs, NEW q \in RunShape, RunTrue(q), runs[r].at # "none",
         runs' = [runs EXCEPT ![r] = q]
  PROVE  CInv'
<1>1. /\ runs' \in [Runs -> RunShape] /\ \A p \in Runs : RunTrue(runs'[p])
      /\ \A p \in Runs : runs'[p] = IF p = r THEN q ELSE runs[p]
  BY RunMoves
<1>2. \A p \in Runs : runs[p].at = "none" => runs'[p].at = "none"
  BY <1>1
<1>3. session' \in BOOLEAN
  BY DEF CInv, ConsoleShapes
<1> QED  BY <1>1, <1>2, <1>3, StoreIs, ClientStays DEF CInv, ConsoleShapes, client

LEMMA RunIs ==
  ASSUME CInv, NEW r \in Runs
  PROVE  runs[r] \in RunShape /\ RunTrue(runs[r])
  BY DEF CInv, ConsoleShapes

LEMMA SpentIs ==
  ASSUME CInv
  PROVE  /\ spent \in [faults : 0..MaxFaults, tokens : 0..MaxTokens, events : 0..MaxEvents]
         /\ Fault => spent' \in [faults : 0..MaxFaults, tokens : 0..MaxTokens, events : 0..MaxEvents]
<1>1. spent \in [faults : 0..MaxFaults, tokens : 0..MaxTokens, events : 0..MaxEvents]
  BY DEF CInv, ConsoleShapes
<1>2. spent.faults < MaxFaults => spent.faults + 1 \in 0..MaxFaults
  BY <1>1, ConsoleAssumption
<1> QED  BY <1>1, <1>2 DEF Fault

LEMMA QueuedIs ==
  ASSUME CInv, NEW r \in Runs, NEW e \in EventType, HasRoom(r)
  PROVE  /\ Queued(r, e) \in RunShape /\ Queued(r, e).at = runs[r].at
         /\ Queued(r, e).subscribed = runs[r].subscribed /\ Queued(r, e).aborted = runs[r].aborted
         /\ Queued(r, e).prompting = runs[r].prompting
         /\ runs[r].open => Append(runs[r].queue, e) \in Queues
<1>1. runs[r] \in RunShape
  BY RunIs
<1>2. CASE ~runs[r].open
  BY <1>1, <1>2 DEF Queued
<1>3. CASE runs[r].open
  <2>1. runs[r].queue \in Seq(EventType) /\ Len(runs[r].queue) < MaxQueue
    BY <1>1, <1>3 DEF HasRoom, RunShape, Queues
  <2>2. Append(runs[r].queue, e) \in Queues
    <3> DEFINE queue == runs[r].queue
    <3>0. queue \in Seq(EventType) /\ Len(queue) < MaxQueue
      BY <2>1
    <3> HIDE DEF queue
    <3>1. Append(queue, e) \in Seq(EventType) /\ Len(Append(queue, e)) = Len(queue) + 1
      BY <3>0
    <3>2. Len(Append(queue, e)) <= MaxQueue
      BY <3>0, <3>1, ConsoleAssumption
    <3>3. Append(queue, e) \in Queues
      BY <3>1, <3>2 DEF Queues
    <3> QED  BY <3>3 DEF queue
  <2>3. Queued(r, e) = [runs[r] EXCEPT !.queue = Append(@, e)]
    BY <1>3 DEF Queued
  <2> QED  BY <1>1, <2>2, <2>3 DEF RunShape
<1> QED  BY <1>2, <1>3

LEMMA RefuseInv == ASSUME CInv, NEW r \in Runs, Refuse(r) PROVE CInv'
<1> DEFINE q == [runs[r] EXCEPT !.at = "refused"]
<1>1. runs[r] \in RunShape /\ RunTrue(runs[r]) /\ runs[r].at = "arriving"
  BY RunIs DEF Refuse
<1>2. q \in RunShape /\ q.at = "refused" /\ q.subscribed = runs[r].subscribed /\ q.aborted = runs[r].aborted
  BY <1>1 DEF RunShape
<1>3. runs' = [runs EXCEPT ![r] = q] /\ UNCHANGED <<client, overlapped, session, spent>>
  BY DEF Refuse, ServerKept
<1> HIDE DEF q
<1>4. RunTrue(q)
  BY <1>1, <1>2 DEF RunTrue
<1> QED  BY <1>1, <1>2, <1>3, <1>4, ServerStep, SpentIs

LEMMA SubscribeInv == ASSUME CInv, NEW r \in Runs, Subscribe(r) PROVE CInv'
<1> DEFINE q == [runs[r] EXCEPT !.at = "running", !.subscribed = TRUE]
<1>1. runs[r] \in RunShape /\ RunTrue(runs[r]) /\ runs[r].at = "arriving"
  BY RunIs DEF Subscribe
<1>2. q \in RunShape /\ q.at = "running" /\ q.subscribed = TRUE /\ q.aborted = runs[r].aborted
  BY <1>1 DEF RunShape
<1>3. runs' = [runs EXCEPT ![r] = q] /\ UNCHANGED <<client, overlapped, session, spent>>
  BY DEF Subscribe, ServerKept
<1> HIDE DEF q
<1>4. RunTrue(q)
  BY <1>1, <1>2 DEF RunTrue
<1> QED  BY <1>1, <1>2, <1>3, <1>4, ServerStep, SpentIs

LEMMA NoRunIs == NoRun \in RunShape /\ RunTrue(NoRun) /\ NoRun.at = "none" /\ NoRun.subscribed = FALSE
<1>1. <<>> \in Queues
  BY ConsoleAssumption DEF Queues
<1> QED  BY <1>1 DEF NoRun, RunShape, RunTrue

LEMMA EndedIs ==
  ASSUME NEW run \in RunShape
  PROVE  Ended(run) \in RunShape /\ RunTrue(Ended(run))
<1> DEFINE q == [NoRun EXCEPT !.at = "over", !.open = run.open, !.queue = run.queue]
<1>1. q \in RunShape /\ q.at = "over" /\ q.subscribed = FALSE
  BY NoRunIs DEF RunShape
<1>2. Ended(run) = q
  BY DEF Ended
<1> HIDE DEF q
<1> QED  BY <1>1, <1>2 DEF RunTrue

LEMMA LoopEndsInv == ASSUME CInv, NEW r \in Runs, LoopEnds(r) PROVE CInv'
<1>1. "session_end" \in EventType /\ HasRoom(r)
  BY DEF LoopEnds, EventType
<1>2. Queued(r, "session_end") \in RunShape
  BY <1>1, QueuedIs
<1>3. runs' = [runs EXCEPT ![r] = Ended(Queued(r, "session_end"))] /\ runs[r].at # "none"
      /\ UNCHANGED <<client, overlapped, session, spent>>
  BY DEF LoopEnds, ServerKept
<1> QED  BY <1>2, <1>3, EndedIs, ServerStep, SpentIs

LEMMA LoopThrowsInv == ASSUME CInv, NEW r \in Runs, LoopThrows(r) PROVE CInv'
<1>1. runs[r] \in RunShape
  BY RunIs
<1>2. runs' = [runs EXCEPT ![r] = Ended(runs[r])] /\ runs[r].at # "none" /\ Fault
      /\ UNCHANGED <<client, overlapped, session>>
  BY DEF LoopThrows
<1> QED  BY <1>1, <1>2, EndedIs, ServerStep, SpentIs

LEMMA ClientGoneInv == ASSUME CInv, NEW r \in Runs, ClientGone(r) PROVE CInv'
<1> DEFINE q == [runs[r] EXCEPT !.subscribed = FALSE, !.aborted = TRUE, !.prompting = FALSE]
<1>1. runs[r] \in RunShape /\ RunTrue(runs[r]) /\ runs[r].at = "running"
  BY RunIs DEF ClientGone
<1>2. q \in RunShape /\ q.at = "running" /\ q.subscribed = FALSE /\ q.aborted = TRUE
  BY <1>1 DEF RunShape
<1>3. runs' = [runs EXCEPT ![r] = q] /\ UNCHANGED <<client, overlapped, session, spent>>
  BY DEF ClientGone, ServerKept
<1> HIDE DEF q
<1>4. RunTrue(q)
  BY <1>2 DEF RunTrue
<1> QED  BY <1>1, <1>2, <1>3, <1>4, ServerStep, SpentIs

LEMMA BreakInv == ASSUME CInv, NEW r \in Runs, Break(r) PROVE CInv'
<1> DEFINE q == [runs[r] EXCEPT !.open = FALSE, !.queue = <<>>]
<1>1. runs[r] \in RunShape /\ RunTrue(runs[r]) /\ runs[r].at # "none"
  BY RunIs DEF Break
<1>2. q \in RunShape /\ q.at = runs[r].at /\ q.subscribed = runs[r].subscribed /\ q.aborted = runs[r].aborted
  <2>1. <<>> \in Queues
    BY ConsoleAssumption DEF Queues
  <2> QED  BY <1>1, <2>1 DEF RunShape
<1>3. runs' = [runs EXCEPT ![r] = q] /\ UNCHANGED <<client, overlapped, session>> /\ Fault
  BY DEF Break
<1> HIDE DEF q
<1>4. RunTrue(q)
  BY <1>1, <1>2 DEF RunTrue
<1> QED  BY <1>1, <1>2, <1>3, <1>4, ServerStep, SpentIs

LEMMA EmitInv == ASSUME CInv, NEW r \in Runs, NEW e \in EventType, Emit(r, e) PROVE CInv'
<1> DEFINE q == [runs[r] EXCEPT !.queue = Append(@, e), !.prompting = FALSE]
<1>1. runs[r] \in RunShape /\ RunTrue(runs[r]) /\ runs[r].at = "running"
  BY RunIs DEF Emit
<1>2. Append(runs[r].queue, e) \in Queues
  BY QueuedIs DEF Emit
<1>3. q \in RunShape /\ q.at = runs[r].at /\ q.subscribed = runs[r].subscribed /\ q.aborted = runs[r].aborted
  BY <1>1, <1>2 DEF RunShape
<1>4. runs' = [runs EXCEPT ![r] = q] /\ UNCHANGED <<client, overlapped, session>>
  BY DEF Emit
<1>5. spent' \in [faults : 0..MaxFaults, tokens : 0..MaxTokens, events : 0..MaxEvents]
  <2>1. spent \in [faults : 0..MaxFaults, tokens : 0..MaxTokens, events : 0..MaxEvents]
    BY SpentIs
  <2>2. CASE e = "token"
    <3>1. spent' = [spent EXCEPT !["tokens"] = @ + 1] /\ spent["tokens"] < MaxTokens
      BY <2>2 DEF Emit, Bound
    <3> QED  BY <2>1, <3>1, ConsoleAssumption
  <2>3. CASE e # "token"
    <3>1. spent' = [spent EXCEPT !["events"] = @ + 1] /\ spent["events"] < MaxEvents
      BY <2>3 DEF Emit, Bound
    <3> QED  BY <2>1, <3>1, ConsoleAssumption
  <2> QED  BY <2>2, <2>3
<1> HIDE DEF q
<1>6. RunTrue(q)
  BY <1>1, <1>3 DEF RunTrue
<1> QED  BY <1>1, <1>3, <1>4, <1>5, <1>6, ServerStep

\* A step of the server over all runs that leaves how far they are.
LEMMA AllRuns ==
  ASSUME CInv, UNCHANGED client, overlapped' = overlapped, session' \in BOOLEAN,
         spent' \in [faults : 0..MaxFaults, tokens : 0..MaxTokens, events : 0..MaxEvents],
         runs' \in [Runs -> RunShape],
         \A r \in Runs : /\ runs'[r].at = runs[r].at /\ runs'[r].subscribed = runs[r].subscribed
                         /\ runs'[r].aborted = runs[r].aborted
  PROVE  CInv'
<1>1. \A r \in Runs : RunTrue(runs'[r])
  BY DEF CInv, RunTrue
<1> QED  BY <1>1, StoreIs, ClientStays DEF CInv, ConsoleShapes, client

\* Every connection of the session is sent the event.
LEMMA PublishedIs ==
  ASSUME CInv, NEW e \in EventType, BusHasRoom, NEW p \in Runs
  PROVE  /\ Published(e)[p] \in RunShape /\ Published(e)[p].at = runs[p].at
         /\ Published(e)[p].subscribed = runs[p].subscribed
         /\ Published(e)[p].aborted = runs[p].aborted
<1>1. Published(e)[p] = IF runs[p].subscribed THEN Queued(p, e) ELSE runs[p]
  BY DEF Published
<1>2. runs[p] \in RunShape
  BY RunIs
<1>3. CASE runs[p].subscribed
  <2>1. HasRoom(p)
    BY <1>3 DEF BusHasRoom
  <2> QED  BY <1>1, <1>3, <2>1, QueuedIs
<1>4. CASE ~runs[p].subscribed
  BY <1>1, <1>2, <1>4
<1> QED  BY <1>3, <1>4

LEMMA AskInv == ASSUME CInv, NEW r \in Runs, Ask(r) PROVE CInv'
<1> DEFINE told(p) == Published("approval_request")[p]
           asks == ~runs[r].aborted
           q(p) == IF p = r THEN [told(r) EXCEPT !.prompting = asks] ELSE told(p)
<1>1. "approval_request" \in EventType /\ BusHasRoom /\ asks \in BOOLEAN
  BY DEF Ask, EventType
<1>2. runs' = [p \in Runs |-> q(p)] /\ UNCHANGED <<client, overlapped, session>>
  BY DEF Ask
<1>3. ASSUME NEW p \in Runs
      PROVE  /\ q(p) \in RunShape /\ q(p).at = runs[p].at /\ q(p).subscribed = runs[p].subscribed
             /\ q(p).aborted = runs[p].aborted
  <2>1. /\ told(p) \in RunShape /\ told(p).at = runs[p].at /\ told(p).subscribed = runs[p].subscribed
        /\ told(p).aborted = runs[p].aborted
    BY <1>1, PublishedIs
  <2> HIDE DEF told, asks
  <2>2. [told(p) EXCEPT !.prompting = asks] \in RunShape
    BY <1>1, <2>1 DEF RunShape
  <2>3. /\ [told(p) EXCEPT !.prompting = asks].at = told(p).at
        /\ [told(p) EXCEPT !.prompting = asks].subscribed = told(p).subscribed
        /\ [told(p) EXCEPT !.prompting = asks].aborted = told(p).aborted
    BY <2>1 DEF RunShape
  <2> QED  BY <2>1, <2>2, <2>3
<1> HIDE DEF q
<1>4. session' \in BOOLEAN
  BY <1>2 DEF CInv, ConsoleShapes
<1>5. spent' \in [faults : 0..MaxFaults, tokens : 0..MaxTokens, events : 0..MaxEvents]
  <2>1. spent \in [faults : 0..MaxFaults, tokens : 0..MaxTokens, events : 0..MaxEvents]
    BY SpentIs
  <2>2. spent' = [spent EXCEPT !.events = @ + 1] /\ spent.events < MaxEvents
    BY DEF Ask
  <2> QED  BY <2>1, <2>2, ConsoleAssumption
<1> QED  BY <1>2, <1>3, <1>4, <1>5, AllRuns

LEMMA ApproveInv == ASSUME CInv, NEW r \in Runs, Approve(r) PROVE CInv'
<1> DEFINE told(p) == Published("approval_response")[p]
           q(p) == [told(p) EXCEPT !.prompting = runs[p].prompting /\ p # r]
<1>1. "approval_response" \in EventType /\ BusHasRoom
  BY DEF Approve, EventType
<1>2. runs' = [p \in Runs |-> q(p)] /\ UNCHANGED <<client, overlapped, session, spent>>
  BY DEF Approve, ServerKept
<1>3. ASSUME NEW p \in Runs
      PROVE  /\ q(p) \in RunShape /\ q(p).at = runs[p].at /\ q(p).subscribed = runs[p].subscribed
             /\ q(p).aborted = runs[p].aborted
  <2>1. /\ told(p) \in RunShape /\ told(p).at = runs[p].at /\ told(p).subscribed = runs[p].subscribed
        /\ told(p).aborted = runs[p].aborted
    BY <1>1, PublishedIs
  <2> HIDE DEF told
  <2> QED  BY <2>1 DEF RunShape
<1> HIDE DEF q
<1>4. session' \in BOOLEAN
  BY <1>2 DEF CInv, ConsoleShapes
<1> QED  BY <1>2, <1>3, <1>4, AllRuns, SpentIs

LEMMA DeleteInv == ASSUME CInv, Delete PROVE CInv'
<1> DEFINE q(p) == [runs[p] EXCEPT !.prompting = FALSE]
<1>1. runs' = [p \in Runs |-> q(p)] /\ UNCHANGED <<client, overlapped>> /\ Fault /\ session' = FALSE
  BY DEF Delete
<1>2. ASSUME NEW p \in Runs
      PROVE  /\ q(p) \in RunShape /\ q(p).at = runs[p].at /\ q(p).subscribed = runs[p].subscribed
             /\ q(p).aborted = runs[p].aborted
  BY RunIs DEF RunShape
<1> HIDE DEF q
<1> QED  BY <1>1, <1>2, AllRuns, SpentIs

-----------------------------------------------------------------------------
LEMMA CInit == ConsoleInit => CInv
<1> SUFFICES ASSUME ConsoleInit PROVE CInv
  OBVIOUS
<1>1. store \in [streaming : BOOLEAN, prompt : BOOLEAN, chat : Chats] /\ Home(store.chat)
  BY NoChat DEF ConsoleInit
<1>2. Idle \in StreamShape
  BY ConsoleAssumption DEF Idle, StreamShape
<1>3. NoRun \in RunShape /\ RunTrue(NoRun)
  BY NoRunIs
<1>4. ConsoleShapes
  <2>1. /\ boot \in [status : {"checking_server", "rechecking", "creating", "ready", "error"},
                     checks : 0..MaxHealthChecks]
        /\ spent \in [faults : 0..MaxFaults, tokens : 0..MaxTokens, events : 0..MaxEvents]
    BY ConsoleAssumption DEF ConsoleInit
  <2>2. streams \in [Streams -> StreamShape] /\ runs \in [Runs -> RunShape]
    BY <1>2, <1>3 DEF ConsoleInit
  <2> QED  BY <1>1, <2>1, <2>2 DEF ConsoleInit, ConsoleShapes
<1>5. NoStream \notin Streams
  BY ConsoleAssumption DEF NoStream, Streams
<1>6. Attempts
  <2>1. \A t \in Streams, n \in 1..MaxAttempts : <<t, n>> \in Runs
    BY DEF Runs
  <2> QED  BY <1>5, <2>1 DEF ConsoleInit, Attempts, Idle, NoRun
<1>7. Heard = {}
  BY DEF ConsoleInit, Heard, Live, Idle
<1>8. HeardTogether /\ RefTrue
  BY <1>7 DEF HeardTogether, RefTrue
<1>9. TokensStayHome
  BY <1>1, HomeIs
<1> QED  BY <1>3, <1>4, <1>6, <1>8, <1>9 DEF CInv, ConsoleInit

LEMMA CStutter == CInv /\ UNCHANGED consoleVars => CInv'
<1> SUFFICES ASSUME CInv, UNCHANGED consoleVars PROVE CInv'
  OBVIOUS
<1> QED  BY StoreIs, ClientStays DEF consoleVars, CInv, ConsoleShapes

LEMMA CStep == CInv /\ [ConsoleNext]_consoleVars => CInv'
<1> SUFFICES ASSUME CInv, [ConsoleNext]_consoleVars PROVE CInv'
  OBVIOUS
<1>1. CASE UNCHANGED consoleVars
  BY <1>1, CStutter
<1>2. CASE Boot \/ Render \/ Interrupt \/ Clear
  BY <1>2, BootInv, RenderInv, InterruptInv, ClearInv
<1>3. ASSUME NEW s \in Streams, Send(s) \/ Stream(s) PROVE CInv'
  BY <1>3, SendInv, HandshakeInv, PostFailsInv, ReadInv, BodyEndsInv, WakeInv, FinishInv DEF Stream
<1>4. ASSUME NEW r \in Runs, Loop(r) \/ ClientGone(r) \/ Break(r) \/ Ask(r) \/ Approve(r) PROVE CInv'
  BY <1>4, RefuseInv, SubscribeInv, LoopEndsInv, LoopThrowsInv, ClientGoneInv, BreakInv, AskInv, ApproveInv DEF Loop
<1>5. ASSUME NEW r \in Runs, NEW e \in EventType, Emit(r, e) PROVE CInv'
  BY <1>5, EmitInv
<1>6. CASE Delete
  BY <1>6, DeleteInv
<1> QED  BY <1>1, <1>2, <1>3, <1>4, <1>5, <1>6 DEF ConsoleNext

LEMMA ConsoleInvariant == ConsoleSpec => []CInv
<1>1. ConsoleInit => CInv
  BY CInit
<1>2. CInv /\ [ConsoleNext]_consoleVars => CInv'
  BY CStep
<1> QED  BY <1>1, <1>2, PTL DEF ConsoleSpec

\* The connections on the bus are those of the runs that go on.
THEOREM StreamsAreInStep == ConsoleSpec => []StreamsInStep
<1>1. CInv => StreamsInStep
  <2> SUFFICES ASSUME CInv PROVE StreamsInStep
    OBVIOUS
  <2>1. SubscribersAreLive
    BY DEF CInv, RunTrue, SubscribersAreLive
  <2>2. DOMAIN store.chat \subseteq ChatId /\ \A id \in DOMAIN store.chat : store.chat[id] \in ChatMessage
    <3>1. store.chat \in [DOMAIN store.chat -> ChatMessage] /\ DOMAIN store.chat \subseteq ChatId
      BY ChatIs DEF CInv, ConsoleShapes
    <3> QED  BY <3>1
  <2>3. \A r \in Runs :
         /\ runs[r].at \in {"none", "arriving", "refused", "running", "over"}
         /\ runs[r].queue \in Seq(EventType) /\ Len(runs[r].queue) <= MaxQueue
         /\ {runs[r].prompting, runs[r].open, runs[r].subscribed, runs[r].aborted} \subseteq BOOLEAN
    BY RunIs DEF RunShape, Queues
  <2>4. ConsoleTypeOK
    BY <2>2, <2>3 DEF CInv, ConsoleShapes, ConsoleTypeOK, StreamShape
  <2> QED  BY <2>1, <2>4 DEF StreamsInStep
<1> QED  BY <1>1, ConsoleInvariant, PTL

\* A message of the chat has text of streams that were open together only.
THEOREM TokensAreHome == ConsoleSpec => []TokensStayHome
<1>1. CInv => TokensStayHome
  BY DEF CInv
<1> QED  BY <1>1, ConsoleInvariant, PTL

\* The other streams, and their connections, do not notice a step of t.
LEMMA OthersUntouched ==
  ASSUME CInv, NEW s \in Streams, NEW t \in Streams, s # t,
         streams[s].pc # "unused", NEW q, NEW z,
         streams' = [streams EXCEPT ![t] = q], runs' = [runs EXCEPT ![Conn(t)] = z]
  PROVE  streams'[s] = streams[s] /\ Conn(s)' = Conn(s) /\ runs'[Conn(s)] = runs[Conn(s)]
<1>1. streams'[s] = streams[s]
  BY DEF CInv, ConsoleShapes
<1>2. Conn(s) \in Runs /\ Conn(s) # Conn(t)
  BY ConnIsRun DEF Conn
<1> QED  BY <1>1, <1>2 DEF CInv, ConsoleShapes, Conn

\* Nothing that arrives on a stream that was interrupted changes the chat.
THEOREM AbortedStaysSilent == ConsoleSpec => AbortedIsSilent
<1>1. ASSUME CInv, [ConsoleNext]_consoleVars, NEW s \in Streams, streams[s].aborted,
             store'.chat # store.chat
      PROVE  <<streams[s], runs[Conn(s)]>>' = <<streams[s], runs[Conn(s)]>>
  <2>0. store \in [streaming : BOOLEAN, prompt : BOOLEAN, chat : Chats] /\ streams[s].pc # "unused"
    BY <1>1 DEF CInv, ConsoleShapes, Attempts
  <2>1. CASE Clear
    BY <2>1 DEF Clear, Conn
  <2>2. ASSUME NEW t \in Streams, Read(t)
        PROVE  <<streams[s], runs[Conn(s)]>>' = <<streams[s], runs[Conn(s)]>>
    <3>1. s # t /\ t \in Heard
      BY <1>1, <2>2 DEF Read, Heard, Live
    <3>2. Head(runs[Conn(t)].queue) \in EventType
      <4>1. runs[Conn(t)] \in RunShape /\ runs[Conn(t)].queue # <<>>
        BY <1>1, <2>2, ConnIsRun, RunIs DEF Read
      <4>2. runs[Conn(t)].queue \in Seq(EventType)
        BY <4>1 DEF RunShape, Queues
      <4> QED  BY <4>1, <4>2
    <3>3. PICK q : streams' = [streams EXCEPT ![t] = q]
      BY <1>1, <2>2, <3>1, <3>2, DispatchDoes DEF Read
    <3>4. PICK z : runs' = [runs EXCEPT ![Conn(t)] = z]
      BY <2>2 DEF Read, Taken
    <3>5. streams'[s] = streams[s] /\ Conn(s)' = Conn(s) /\ runs'[Conn(s)] = runs[Conn(s)]
      BY <1>1, <2>0, <3>1, <3>3, <3>4, OthersUntouched
    <3> QED  BY <3>5
  <2>3. ASSUME NEW t \in Streams, Finish(t)
        PROVE  <<streams[s], runs[Conn(s)]>>' = <<streams[s], runs[Conn(s)]>>
    <3>1. s # t
      BY <1>1, <2>0, <2>3 DEF Finish
    <3>2. PICK q : streams' = [streams EXCEPT ![t] = q]
      BY <2>3 DEF Finish
    <3>3. PICK z : runs' = [runs EXCEPT ![Conn(t)] = z]
      BY <2>3 DEF Finish
    <3>4. streams'[s] = streams[s] /\ Conn(s)' = Conn(s) /\ runs'[Conn(s)] = runs[Conn(s)]
      BY <1>1, <2>0, <3>1, <3>2, <3>3, OthersUntouched
    <3> QED  BY <3>4
  <2>4. CASE store' = store
    BY <1>1, <2>4
  <2>5. CASE Boot \/ Render \/ Delete \/ UNCHANGED consoleVars
    BY <2>4, <2>5 DEF Boot, BootTurns, HealthAnswers, HealthFails, SessionOpens, SessionFails, Render,
                      Delete, client, consoleVars
  <2>6. CASE Interrupt
    BY <1>1, <2>0, <2>6 DEF Interrupt
  <2>7. ASSUME NEW t \in Streams, Send(t) PROVE FALSE
    BY <1>1, <2>0, <2>7 DEF Send
  <2>8. ASSUME NEW t \in Streams, Handshake(t) \/ PostFails(t) \/ BodyEnds(t) \/ Wake(t)
        PROVE  store' = store
    BY <2>8 DEF Handshake, PostFails, BodyEnds, Wake, AttemptOver
  <2>9. ASSUME NEW r \in Runs, Loop(r) \/ ClientGone(r) \/ Break(r) \/ Ask(r) \/ Approve(r)
        PROVE  store' = store
    BY <2>9 DEF Loop, Refuse, Subscribe, LoopEnds, LoopThrows, ClientGone, Break, Ask, Approve, ServerKept,
                client
  <2>10. ASSUME NEW r \in Runs, NEW e \in EventType, Emit(r, e) PROVE store' = store
    BY <2>10 DEF Emit, client
  <2> QED  BY <1>1, <2>1, <2>2, <2>3, <2>4, <2>5, <2>6, <2>7, <2>8, <2>9, <2>10 DEF ConsoleNext, Stream
<1>2. CInv /\ [ConsoleNext]_consoleVars =>
        [\A s \in Streams :
           (streams[s].aborted /\ <<streams[s], runs[Conn(s)]>>' # <<streams[s], runs[Conn(s)]>>)
              => store'.chat = store.chat]_consoleVars
  BY <1>1
<1> QED  BY <1>2, ConsoleInvariant, PTL DEF ConsoleSpec, AbortedIsSilent
=============================================================================
