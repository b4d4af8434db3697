----------------------- MODULE PermissionEngineProofs -----------------------
(***************************************************************************)
(* Proofs about the permission gate, for any number of calls, runs,        *)
(* sessions and tools, any modes and permission levels, and files that may *)
(* fail or not.                                                            *)
(***************************************************************************)
EXTENDS PermissionEngine, TLAPS

(* A call that has not been accepted by the registry has nothing there.    *)
Inert ==
    /\ \A c \in Calls : phase[c] # "waiting" =>
           outcome[c] = NoOutcome /\ ~timer[c] /\ ~listening[c]
    /\ \A i \in ApprovalIds : pending[i] # NoCall => phase[pending[i]] = "waiting"

RegistryOK == Approvals!TypeOK /\ Inert

(* A promise keeps its first outcome, and register() its answer.           *)
Stable ==
    \A c \in Calls :
        /\ outcome[c] # NoOutcome => outcome'[c] = outcome[c]
        /\ phase[c] # "idle" => phase'[c] = phase[c]

-----------------------------------------------------------------------------
(* The registry.                                                           *)

LEMMA OutcomeValues ==
    /\ \A d \in Approvals!Decision : Approvals!UserSaid(d) \in Approvals!Outcome
    /\ \A r \in Approvals!CancelReason : Approvals!AutoDeny(r) \in Approvals!Outcome
    /\ "aborted" \in Approvals!CancelReason /\ "timeout" \in Approvals!CancelReason
BY DEF Approvals!Outcome, Approvals!CancelReason

LEMMA CauseValues ==
    /\ \A c \in Calls : /\ Approvals!Expired(c) \in Approvals!Cause
                       /\ Approvals!Interrupted(RunOf[c]) \in Approvals!Cause
    /\ \A i \in ApprovalIds : Approvals!Answered(i) \in Approvals!Cause
    /\ \A r \in Runs : Approvals!Interrupted(r) \in Approvals!Cause
    /\ Approvals!Cancelled \in Approvals!Cause
BY CallAssumption DEF Approvals!Cause

LEMMA ResolveKeeps ==
    ASSUME RegistryOK, NEW S \in SUBSET Calls, NEW o \in Approvals!Outcome,
           NEW event \in Approvals!Cause, Approvals!ResolveEntries(S, o, event),
           phase' \in [Calls -> {"idle", "threw", "waiting"}],
           aborted' \in [Runs -> BOOLEAN],
           \A c \in S : phase'[c] = "waiting",
           \A c \in Calls : phase[c] # "idle" => phase'[c] = phase[c]
    PROVE  RegistryOK' /\ Stable
<1> DEFINE live == {c \in S : ~settled[c]}
<1>1. /\ settled' = [c \in Calls |-> settled[c] \/ c \in live]
      /\ pending' = [i \in ApprovalIds |->
                        IF \E c \in live : ApprovalIdOf[c] = i THEN NoCall ELSE pending[i]]
      /\ timer' = [c \in Calls |-> timer[c] /\ c \notin live]
      /\ listening' = [c \in Calls |-> listening[c] /\ c \notin live]
      /\ outcome' = [c \in Calls |->
                        IF c \in live /\ outcome[c] = NoOutcome THEN o ELSE outcome[c]]
      /\ cause' = [c \in Calls |->
                        IF c \in live /\ outcome[c] = NoOutcome THEN event ELSE cause[c]]
  BY DEF Approvals!ResolveEntries
<1>2. live \subseteq S
  OBVIOUS
<1> HIDE DEF live
<1>3. Approvals!TypeOK'
  BY <1>1 DEF RegistryOK, Approvals!TypeOK
<1>4. ASSUME NEW c \in Calls, phase'[c] # "waiting"
      PROVE  outcome'[c] = NoOutcome /\ ~timer'[c] /\ ~listening'[c]
  <2>1. phase[c] # "waiting" /\ c \notin live
    BY <1>2, <1>4
  <2>2. QED
    BY <1>1, <2>1 DEF RegistryOK, Inert
<1>5. ASSUME NEW i \in ApprovalIds, pending'[i] # NoCall
      PROVE  phase'[pending'[i]] = "waiting"
  <2>1. pending'[i] = pending[i] /\ pending[i] # NoCall
    BY <1>1, <1>5
  <2>2. pending[i] \in Calls
    BY <2>1 DEF RegistryOK, Approvals!TypeOK
  <2>3. QED
    BY <2>1, <2>2 DEF RegistryOK, Inert
<1>6. Stable
  BY <1>1 DEF Stable
<1>7. QED
  BY <1>3, <1>4, <1>5, <1>6 DEF RegistryOK, Inert

LEMMA RegisterKeeps ==
    ASSUME RegistryOK, NEW c \in Calls,
           \/ Approvals!RegisterDuplicate(c)
           \/ Approvals!RegisterGivenUp(c) \/ Approvals!RegisterWaiting(c)
    PROVE  /\ RegistryOK' /\ Stable
           /\ \A d \in Calls : d # c => phase'[d] = phase[d]
           /\ Approvals!RegisterDuplicate(c) => phase'[c] = "threw"
           /\ Approvals!RegisterGivenUp(c) \/ Approvals!RegisterWaiting(c)
                => phase'[c] = "waiting"
<1>1. CASE Approvals!RegisterDuplicate(c)
  <2>1. RegistryOK'
    BY <1>1 DEF Approvals!RegisterDuplicate, RegistryOK, Approvals!TypeOK, Inert
  <2>2. QED
    BY <1>1, <2>1 DEF Approvals!RegisterDuplicate, RegistryOK, Approvals!TypeOK, Stable,
       Approvals!RegisterGivenUp, Approvals!RegisterWaiting
<1>2. CASE Approvals!RegisterGivenUp(c)
  <2>1. /\ phase[c] = "idle" /\ phase' = [phase EXCEPT ![c] = "waiting"]
        /\ Approvals!ResolveEntries({c}, Approvals!AutoDeny("aborted"),
                                   Approvals!Interrupted(RunOf[c]))
        /\ aborted' = aborted
    BY <1>2 DEF Approvals!RegisterGivenUp
  <2>2. /\ phase' \in [Calls -> {"idle", "threw", "waiting"}]
        /\ aborted' \in [Runs -> BOOLEAN]
        /\ phase'[c] = "waiting" /\ \A d \in Calls : d # c => phase'[d] = phase[d]
    BY <2>1 DEF RegistryOK, Approvals!TypeOK
  <2>3. RegistryOK' /\ Stable
    BY <2>1, <2>2, OutcomeValues, CauseValues, ResolveKeeps
  <2>4. QED
    BY <1>2, <2>2, <2>3 DEF Approvals!RegisterDuplicate, Approvals!RegisterGivenUp
<1>3. CASE Approvals!RegisterWaiting(c)
  <2>1. ApprovalIdOf[c] \in ApprovalIds
    BY CallAssumption
  <2>2. RegistryOK'
    BY <1>3, <2>1 DEF Approvals!RegisterWaiting, RegistryOK, Approvals!TypeOK, Inert
  <2>3. QED
    BY <1>3, <2>2 DEF Approvals!RegisterWaiting, Approvals!RegisterDuplicate,
       RegistryOK, Approvals!TypeOK, Stable
<1>4. QED
  BY <1>1, <1>2, <1>3

LEMMA EndingKeeps ==
    ASSUME RegistryOK,
           \/ \E c \in Calls : Approvals!Timeout(c)
           \/ \E i \in ApprovalIds, d \in Approvals!Decision : Approvals!Resolve(i, d)
           \/ \E r \in Runs : Approvals!Abort(r)
           \/ Approvals!CancelAll("aborted")
           \/ UNCHANGED registry
    PROVE  RegistryOK' /\ Stable /\ UNCHANGED phase
<1> USE OutcomeValues, CauseValues
<1>0. phase \in [Calls -> {"idle", "threw", "waiting"}] /\ aborted \in [Runs -> BOOLEAN]
  BY DEF RegistryOK, Approvals!TypeOK
<1>1. ASSUME NEW c \in Calls, Approvals!Timeout(c)
      PROVE  RegistryOK' /\ Stable /\ UNCHANGED phase
  <2>1. /\ Approvals!ResolveEntries({c}, Approvals!AutoDeny("timeout"), Approvals!Expired(c))
        /\ UNCHANGED <<phase, aborted>> /\ timer[c]
    BY <1>1 DEF Approvals!Timeout
  <2>2. phase[c] = "waiting"
    BY <2>1 DEF RegistryOK, Inert
  <2>3. QED
    BY <1>0, <2>1, <2>2, ResolveKeeps
<1>2. ASSUME NEW i \in ApprovalIds, NEW d \in Approvals!Decision, Approvals!Resolve(i, d)
      PROVE  RegistryOK' /\ Stable /\ UNCHANGED phase
  <2>1. PICK c \in Calls : pending[i] = c
    BY <1>2 DEF Approvals!Resolve, RegistryOK, Approvals!TypeOK
  <2>2. /\ Approvals!ResolveEntries({c}, Approvals!UserSaid(d), Approvals!Answered(i))
        /\ UNCHANGED <<phase, aborted>> /\ phase[c] = "waiting"
    BY <1>2, <2>1 DEF Approvals!Resolve, RegistryOK, Inert
  <2>3. QED
    BY <1>0, <2>2, ResolveKeeps
<1>3. ASSUME NEW r \in Runs, Approvals!Abort(r)
      PROVE  RegistryOK' /\ Stable /\ UNCHANGED phase
  <2> DEFINE S == {c \in Calls : listening[c] /\ RunOf[c] = r}
  <2>1. /\ Approvals!ResolveEntries(S, Approvals!AutoDeny("aborted"), Approvals!Interrupted(r))
        /\ phase' = phase /\ aborted' = [aborted EXCEPT ![r] = TRUE]
    BY <1>3 DEF Approvals!Abort
  <2>2. \A c \in S : phase[c] = "waiting"
    BY DEF RegistryOK, Inert
  <2>3. aborted' \in [Runs -> BOOLEAN]
    BY <1>0, <2>1
  <2>4. QED
    BY <1>0, <2>1, <2>2, <2>3, ResolveKeeps
<1>4. CASE Approvals!CancelAll("aborted")
  <2> DEFINE S == {c \in Calls : pending[ApprovalIdOf[c]] = c}
  <2>1. /\ Approvals!ResolveEntries(S, Approvals!AutoDeny("aborted"), Approvals!Cancelled)
        /\ UNCHANGED <<phase, aborted>>
    BY <1>4 DEF Approvals!CancelAll
  <2>2. \A c \in S : phase[c] = "waiting"
    BY CallAssumption, NoneAssumption DEF RegistryOK, Inert
  <2>3. QED
    BY <1>0, <2>1, <2>2, ResolveKeeps
<1>5. CASE UNCHANGED registry
  BY <1>5 DEF registry, RegistryOK, Approvals!TypeOK, Inert, Stable
<1>6. QED
  BY <1>1, <1>2, <1>3, <1>4, <1>5

-----------------------------------------------------------------------------
(* The inductive invariant.                                                *)

InFlight(c) == stage[c] \notin {"idle", "done"}

(* A run makes its calls one after another.                                *)
OneAtATime ==
    \A c, d \in Calls : RunOf[c] = RunOf[d] /\ InFlight(c) /\ InFlight(d) => c = d

(* What each stage of checkPermission knows.                               *)
StageTrue(c) ==
    /\ stage[c] \in {"idle", "project", "global"} => phase[c] = "idle"
    /\ stage[c] \in {"prompt", "saving"} => phase[c] = "waiting"
    /\ stage[c] = "saving" => outcome[c] # NoOutcome /\ ForGood(outcome[c])
    /\ stage[c] # "done" => verdict[c] = NoVerdict
    /\ InFlight(c) => ~ModeDenies(c)
    /\ stage[c] = "global" =>
           /\ store[RunOf[c]]["project"].loaded
           /\ ~Matches(store[RunOf[c]]["project"].entries, ToolOf[c])

(* Where a verdict comes from. An allowlist match is never one: an entry   *)
(* that names the tool has denied the call before.                         *)
VerdictTrue(c) ==
    stage[c] = "done" =>
        /\ phase[c] = "waiting" =>
               outcome[c] # NoOutcome /\ verdict[c] = ReasonFor(outcome[c])
        /\ phase[c] # "waiting" =>
               \/ verdict[c] \in {"mode_denied", "denylist_match", "tool_always_deny"}
               \/ verdict[c] = "tool_auto_approve" /\ AutoApproves(c)
        /\ ModeDenies(c) => verdict[c] = "mode_denied"

(* The run's own store has what is remembered, before it is written.       *)
Always == {"user_approved_always", "user_denied_always"}

Stored(c) ==
    LET m == Remembered(outcome[c], ToolOf[c])
    IN  store[RunOf[c]][m.scope].loaded /\ m.entry \in store[RunOf[c]][m.scope].entries

StoreTrue(c) == stage[c] = "saving" \/ verdict[c] \in Always => Stored(c)

CallsTrue == \A c \in Calls : StageTrue(c) /\ VerdictTrue(c) /\ StoreTrue(c)

Deserved(e) ==
    \E c \in Calls :
        /\ ToolOf[c] = e.tool
        /\ outcome[c] = Approvals!UserSaid(
               IF e.list = "allow" THEN "approve_always" ELSE "deny_always")

(* Every entry, cached or written, is a user's decision.                   *)
ListsTrue ==
    /\ \A r \in Runs, s \in Scope : \A e \in store[r][s].entries : Deserved(e)
    /\ \A s \in Scope : \A e \in disk[s] : Deserved(e)

NeverAgain ==
    \A c, d \in Calls :
        SameKind(c, d) /\ verdict[c] \in Always => stage[d] \notin {"prompt", "saving"}

IInv == /\ TypeOK /\ Inert
        /\ OneAtATime /\ CallsTrue /\ ListsTrue /\ NeverAgain

-----------------------------------------------------------------------------
LEMMA Outcomes ==
    ASSUME NEW o \in Approvals!Outcome
    PROVE  /\ o # NoOutcome
           /\ ReasonFor(o) \in Reason /\ ReasonFor(o) # "mode_denied"
           /\ ForGood(o) <=> ReasonFor(o) \in Always
           /\ ForGood(o) => o = Approvals!UserSaid(o.decision)
           /\ ReasonFor(o) = "user_denied_always" <=> o.decision = "deny_always"
           /\ ReasonFor(o) = "user_approved_always" <=> o.decision = "approve_always"
           /\ ReasonFor(o) \in Approving <=> o.decision \in {"approve", "approve_always"}
           /\ o.decision = "approve" => o = Approvals!UserSaid("approve")
BY NoneAssumption
DEF Approvals!Outcome, Approvals!UserSaid, Approvals!AutoDeny, Approvals!Decision,
    Approvals!CancelReason, ReasonFor, Reason, ForGood, Always, Approving

LEMMA DeservedStays ==
    ASSUME Stable, NEW e, Deserved(e)
    PROVE  Deserved(e)'
<1>1. PICK c \in Calls :
        /\ ToolOf[c] = e.tool
        /\ outcome[c] = Approvals!UserSaid(
               IF e.list = "allow" THEN "approve_always" ELSE "deny_always")
  BY DEF Deserved
<1>2. outcome[c] \in Approvals!Outcome
  BY <1>1, OutcomeValues DEF Approvals!Decision
<1>3. outcome'[c] = outcome[c]
  BY <1>2, NoneAssumption DEF Stable
<1>4. QED
  BY <1>1, <1>3 DEF Deserved

Entries(st) == \A r \in Runs, s \in Scope : \A e \in st[r][s].entries : Deserved(e)

StoreType == [Runs -> [Scope -> [loaded : BOOLEAN, entries : SUBSET Entry]]]

(* Reading a file into the store only adds to what was not loaded.         *)
LEMMA LoadKeeps ==
    ASSUME TypeOK, ListsTrue, NEW r \in Runs, NEW s \in Scope, EnsureLoaded(r, s)
    PROVE  /\ store' \in StoreType /\ Entries(store')
           /\ store'[r][s].loaded
           /\ \A q \in Runs, t \in Scope :
                  store[q][t].loaded \/ q # r \/ t # s => store'[q][t] = store[q][t]
<1>1. CASE store[r][s].loaded
  BY <1>1 DEF EnsureLoaded, TypeOK, ListsTrue, Entries, StoreType
<1>2. CASE ~store[r][s].loaded
  <2>1. PICK entries \in {disk[s]} \cup (IF FaultyIO THEN {{}} ELSE {}) :
          store' = [store EXCEPT ![r][s] = Loaded(entries)]
    BY <1>2 DEF EnsureLoaded
  <2>2. entries \subseteq disk[s] /\ entries \in SUBSET Entry
    BY <2>1 DEF TypeOK
  <2>3. /\ store' \in StoreType /\ store'[r][s] = Loaded(entries)
        /\ \A q \in Runs, t \in Scope : q # r \/ t # s => store'[q][t] = store[q][t]
    BY <2>1, <2>2 DEF TypeOK, StoreType, Loaded
  <2>4. Entries(store')
    BY <2>2, <2>3 DEF ListsTrue, Entries, Loaded
  <2>5. QED
    BY <1>2, <2>3, <2>4 DEF Loaded
<1>3. QED
  BY <1>1, <1>2

(* A step of checkPermission for the call c, which is the only one of its  *)
(* run, keeps the invariant if it leaves c as the invariant says, and the  *)
(* store has grown by deserved entries.                                    *)
LEMMA CheckKeeps ==
    ASSUME IInv, NEW c \in Calls, TypeOK', Inert', Stable, ListsTrue',
           \A d \in Calls : d # c => /\ stage'[d] = stage[d] /\ verdict'[d] = verdict[d]
                                     /\ phase'[d] = phase[d]
           , \A d \in Calls : d # c /\ RunOf[d] = RunOf[c] => ~InFlight(d)
           , \A r \in Runs, s \in Scope :
               /\ store[r][s].loaded => /\ store'[r][s].loaded
                                        /\ store[r][s].entries \subseteq store'[r][s].entries
               /\ r # RunOf[c] => store'[r][s] = store[r][s]
           , StageTrue(c)', VerdictTrue(c)', StoreTrue(c)'
           , stage'[c] \in {"prompt", "saving"} =>
               \A d \in Calls : SameKind(d, c) => verdict[d] \notin Always
    PROVE  IInv'
<1>1. ASSUME NEW d \in Calls, d # c
      PROVE  StageTrue(d)' /\ VerdictTrue(d)' /\ StoreTrue(d)'
  <2>1. StageTrue(d) /\ VerdictTrue(d) /\ StoreTrue(d)
    BY DEF IInv, CallsTrue
  <2>2. stage'[d] = stage[d] /\ verdict'[d] = verdict[d] /\ phase'[d] = phase[d]
    BY <1>1
  <2>3. outcome[d] # NoOutcome => outcome'[d] = outcome[d]
    BY DEF Stable
  <2>4. RunOf[d] \in Runs /\ "project" \in Scope /\ "global" \in Scope
    BY CallAssumption DEF Scope
  <2>5. stage[d] = "global" => store'[RunOf[d]] ["project"] = store[RunOf[d]]["project"]
    BY <1>1, <2>4 DEF InFlight
  <2>6. StageTrue(d)'
    BY <2>1, <2>2, <2>3, <2>5 DEF StageTrue, InFlight, ModeDenies, ForGood, Matches
  <2>7. VerdictTrue(d)'
    BY <2>1, <2>2, <2>3 DEF VerdictTrue, ModeDenies, AutoApproves, ReasonFor
  <2>8. stage[d] = "saving" \/ verdict[d] \in Always => outcome[d] # NoOutcome
    <3>1. CASE stage[d] = "saving"
      BY <2>1, <3>1 DEF StageTrue
    <3>2. CASE verdict[d] \in Always
      <4>1. stage[d] = "done"
        BY <2>1, <3>2, VerdictAssumption DEF StageTrue, Always, Reason
      <4>2. QED
        BY <2>1, <3>2, <4>1 DEF VerdictTrue, Always
    <3>3. QED
      BY <3>1, <3>2
  <2>9. StoreTrue(d)'
    <3> SUFFICES ASSUME stage[d] = "saving" \/ verdict[d] \in Always PROVE Stored(d)'
      BY <2>2 DEF StoreTrue
    <3> DEFINE m == Remembered(outcome[d], ToolOf[d])
    <3>1. Stored(d) /\ outcome'[d] = outcome[d]
      BY <2>1, <2>3, <2>8 DEF StoreTrue
    <3>2. m.scope \in Scope
      BY DEF Remembered, Scope
    <3>3. store[RunOf[d]][m.scope].loaded /\ m.entry \in store[RunOf[d]][m.scope].entries
      BY <3>1 DEF Stored
    <3>4. store'[RunOf[d]][m.scope].loaded /\ m.entry \in store'[RunOf[d]][m.scope].entries
      BY <2>4, <3>2, <3>3
    <3>5. QED
      BY <3>1, <3>4 DEF Stored, Remembered
  <2>10. QED
    BY <2>6, <2>7, <2>9
<1>2. CallsTrue'
  BY <1>1 DEF CallsTrue
<1>3. OneAtATime'
  BY DEF IInv, OneAtATime, InFlight
<1>4. NeverAgain'
  <2> SUFFICES ASSUME NEW a \in Calls, NEW d \in Calls, SameKind(a, d), verdict'[a] \in Always,
                      stage'[d] \in {"prompt", "saving"}
               PROVE  FALSE
    BY DEF NeverAgain, SameKind
  <2>1. CASE d = c
    BY <2>1 DEF SameKind
  <2>2. CASE d # c /\ a = c
    BY <2>2 DEF SameKind, InFlight
  <2>3. CASE d # c /\ a # c
    BY <2>3 DEF IInv, NeverAgain
  <2>4. QED
    BY <2>1, <2>2, <2>3
<1>5. QED
  BY <1>2, <1>3, <1>4 DEF IInv

-----------------------------------------------------------------------------
(* The steps.                                                              *)

LEMMA InitIInv == Init => IInv
<1> SUFFICES ASSUME Init PROVE IInv
  OBVIOUS
<1>1. Approvals!TypeOK /\ Inert
  BY CallAssumption DEF Init, Approvals!Init, Approvals!TypeOK, Inert
<1>2. TypeOK
  BY <1>1, CallAssumption DEF Init, TypeOK, NotLoaded
<1>3. OneAtATime /\ NeverAgain
  BY VerdictAssumption DEF Init, OneAtATime, InFlight, NeverAgain, Always, Reason
<1>4. ListsTrue
  BY DEF Init, ListsTrue, NotLoaded
<1>5. CallsTrue
  BY VerdictAssumption
  DEF Init, Approvals!Init, CallsTrue, StageTrue, VerdictTrue, StoreTrue, InFlight, Always, Reason
<1>6. QED
  BY <1>1, <1>2, <1>3, <1>4, <1>5 DEF IInv

(* What ends a wait from outside moves no call in the gate.                *)
LEMMA OutsideKeeps ==
    ASSUME IInv, UNCHANGED <<stage, verdict, store, disk, over>>, sessions' \subseteq Sessions,
           answering' \in 0..MaxAnswers,
           \/ \E c \in Calls : Approvals!Timeout(c)
           \/ \E i \in ApprovalIds, d \in Approvals!Decision : Approvals!Resolve(i, d)
           \/ \E r \in Runs : Approvals!Abort(r)
           \/ Approvals!CancelAll("aborted")
           \/ UNCHANGED registry
    PROVE  IInv'
<1>1. RegistryOK' /\ Stable /\ phase' = phase
  BY EndingKeeps DEF IInv, TypeOK, RegistryOK
<1>2. TypeOK' /\ Inert'
  BY <1>1 DEF IInv, TypeOK, RegistryOK
<1>3. OneAtATime' /\ NeverAgain'
  BY DEF IInv, OneAtATime, NeverAgain, InFlight
<1>4. ListsTrue'
  BY <1>1, DeservedStays DEF IInv, ListsTrue
<1>5. ASSUME NEW c \in Calls
      PROVE  StageTrue(c)' /\ VerdictTrue(c)' /\ StoreTrue(c)'
  <2>1. StageTrue(c) /\ VerdictTrue(c) /\ StoreTrue(c)
    BY DEF IInv, CallsTrue
  <2>2. outcome[c] # NoOutcome => outcome'[c] = outcome[c]
    BY <1>1 DEF Stable
  <2>3. StageTrue(c)'
    BY <1>1, <2>1, <2>2 DEF StageTrue, InFlight, ModeDenies, ForGood, Matches
  <2>4. VerdictTrue(c)'
    BY <1>1, <2>1, <2>2 DEF VerdictTrue, ModeDenies, AutoApproves, ReasonFor
  <2>5. stage[c] = "saving" \/ verdict[c] \in Always => outcome[c] # NoOutcome
    BY <2>1, VerdictAssumption DEF StageTrue, VerdictTrue, Always, Reason
  <2>6. StoreTrue(c)'
    BY <2>1, <2>2, <2>5 DEF StoreTrue, Stored, Remembered
  <2>7. QED
    BY <2>3, <2>4, <2>6
<1>6. QED
  BY <1>2, <1>3, <1>4, <1>5 DEF IInv, CallsTrue

Moves(c, where, what) ==
    /\ stage' \in [Calls -> {"idle", "project", "global", "prompt", "saving", "done"}]
    /\ verdict' \in [Calls -> Reason \cup {NoVerdict}]
    /\ over' \in [Runs -> BOOLEAN]
    /\ stage'[c] = where /\ verdict'[c] = what
    /\ \A d \in Calls : d # c => stage'[d] = stage[d] /\ verdict'[d] = verdict[d]

LEMMA ConcludeMoves ==
    ASSUME TypeOK, NEW c \in Calls, NEW reason \in Reason, Conclude(c, reason)
    PROVE  Moves(c, "done", reason)
BY CallAssumption DEF TypeOK, Conclude, Moves

LEMMA ProceedMoves ==
    ASSUME TypeOK, NEW c \in Calls, NEW next \in {"project", "global", "prompt", "saving"},
           Proceed(c, next)
    PROVE  Moves(c, next, verdict[c])
BY DEF TypeOK, Proceed, Moves

(* The other calls of the run are idle or done.                            *)
LEMMA OthersRest ==
    ASSUME IInv, NEW c \in Calls, InFlight(c)
    PROVE  \A d \in Calls : d # c /\ RunOf[d] = RunOf[c] => ~InFlight(d)
BY DEF IInv, OneAtATime

LEMMA BeginKeeps ==
    ASSUME IInv, NEW c \in Calls, Begin(c)
    PROVE  IInv'
<1>1. /\ stage[c] = "idle" /\ UNCHANGED <<store, disk, sessions, answering>>
      /\ \A d \in Calls : RunOf[d] = RunOf[c] => ~InFlight(d)
      /\ IF ModeDenies(c) THEN Conclude(c, "mode_denied") ELSE Proceed(c, "project")
  BY DEF Begin, InFlight
<1>2. RegistryOK' /\ Stable /\ phase' = phase
  BY EndingKeeps DEF Begin, IInv, TypeOK, RegistryOK
<1>3. StageTrue(c) /\ TypeOK /\ ListsTrue
  BY DEF IInv, CallsTrue
<1>4. \/ ModeDenies(c) /\ Moves(c, "done", "mode_denied")
      \/ ~ModeDenies(c) /\ Moves(c, "project", verdict[c])
  BY <1>1, <1>3, ConcludeMoves, ProceedMoves DEF Reason
<1>5. TypeOK' /\ Inert'
  BY <1>1, <1>2, <1>3, <1>4 DEF TypeOK, RegistryOK, Moves
<1>6. ListsTrue'
  BY <1>1, <1>2, <1>3, DeservedStays DEF ListsTrue
<1>7. StageTrue(c)' /\ VerdictTrue(c)' /\ StoreTrue(c)'
  BY <1>1, <1>2, <1>3, <1>4, VerdictAssumption
  DEF StageTrue, VerdictTrue, StoreTrue, Moves, InFlight, ModeDenies, Always, Reason
<1>8. \A d \in Calls : d # c => /\ stage'[d] = stage[d] /\ verdict'[d] = verdict[d]
                                /\ phase'[d] = phase[d]
  BY <1>2, <1>4 DEF Moves
<1>9. stage'[c] \notin {"prompt", "saving"}
  BY <1>4 DEF Moves
<1>10. QED
  BY <1>1, <1>2, <1>5, <1>6, <1>7, <1>8, <1>9, CheckKeeps

LEMMA LookUpProjectKeeps ==
    ASSUME IInv, NEW c \in Calls, LookUpProject(c)
    PROVE  IInv'
<1> DEFINE r == RunOf[c]
           hit == Matches(store'[r]["project"].entries, ToolOf[c])
<1>0. r \in Runs /\ "project" \in Scope
  BY CallAssumption DEF Scope
<1>1. /\ stage[c] = "project" /\ UNCHANGED <<disk, sessions, answering>> /\ EnsureLoaded(r, "project")
      /\ IF hit THEN Conclude(c, "denylist_match") ELSE Proceed(c, "global")
  BY DEF LookUpProject
<1>2. RegistryOK' /\ Stable /\ phase' = phase
  BY EndingKeeps DEF LookUpProject, IInv, TypeOK, RegistryOK
<1>3. StageTrue(c) /\ TypeOK /\ ListsTrue
  BY DEF IInv, CallsTrue
<1>4. \/ hit /\ Moves(c, "done", "denylist_match")
      \/ ~hit /\ Moves(c, "global", verdict[c])
  BY <1>1, <1>3, ConcludeMoves, ProceedMoves DEF Reason
<1>5. /\ store' \in StoreType /\ Entries(store') /\ store'[r]["project"].loaded
      /\ \A q \in Runs, t \in Scope :
             store[q][t].loaded \/ q # r \/ t # "project" => store'[q][t] = store[q][t]
  BY <1>0, <1>1, <1>3, LoadKeeps
<1>6. TypeOK' /\ Inert'
  BY <1>1, <1>2, <1>3, <1>4, <1>5 DEF TypeOK, RegistryOK, Moves, StoreType
<1>7. ListsTrue'
  BY <1>1, <1>2, <1>3, <1>5, DeservedStays DEF ListsTrue, Entries
<1>8. StageTrue(c)' /\ VerdictTrue(c)' /\ StoreTrue(c)'
  BY <1>1, <1>2, <1>3, <1>4, <1>5, VerdictAssumption
  DEF StageTrue, VerdictTrue, StoreTrue, Moves, InFlight, ModeDenies, Always, Reason
<1>9. \A d \in Calls : d # c => /\ stage'[d] = stage[d] /\ verdict'[d] = verdict[d]
                                /\ phase'[d] = phase[d]
  BY <1>2, <1>4 DEF Moves
<1>10. stage'[c] \notin {"prompt", "saving"}
  BY <1>4 DEF Moves
<1>11. \A d \in Calls : d # c /\ RunOf[d] = RunOf[c] => ~InFlight(d)
  BY <1>1, OthersRest DEF InFlight
<1>12. ASSUME NEW q \in Runs, NEW t \in Scope
       PROVE  /\ store[q][t].loaded => /\ store'[q][t].loaded
                                       /\ store[q][t].entries \subseteq store'[q][t].entries
              /\ q # r => store'[q][t] = store[q][t]
  BY <1>5
<1>13. QED
  BY <1>2, <1>6, <1>7, <1>8, <1>9, <1>10, <1>11, <1>12, CheckKeeps

(* The tool of a call whose run remembers a decision on it for good is     *)
(* named by a file that the run has loaded.                                *)
LEMMA RememberedMatches ==
    ASSUME IInv, NEW c \in Calls, NEW d \in Calls, SameKind(d, c), verdict[d] \in Always
    PROVE  \E s \in Scope : /\ store[RunOf[c]][s].loaded
                            /\ Matches(store[RunOf[c]][s].entries, ToolOf[c])
<1> DEFINE m == Remembered(outcome[d], ToolOf[d])
<1>1. Stored(d) /\ RunOf[d] = RunOf[c] /\ ToolOf[d] = ToolOf[c]
  BY DEF IInv, CallsTrue, StoreTrue, SameKind
<1>2. m.scope \in Scope /\ m.entry.tool = ToolOf[d]
  BY DEF Remembered, Scope
<1>3. store[RunOf[c]][m.scope].loaded /\ m.entry \in store[RunOf[c]][m.scope].entries
  BY <1>1 DEF Stored
<1>4. QED
  BY <1>1, <1>2, <1>3 DEF Matches

LEMMA LookUpGlobalKeeps ==
    ASSUME IInv, NEW c \in Calls, LookUpGlobal(c)
    PROVE  IInv'
<1> DEFINE r == RunOf[c]
           rest == UNCHANGED <<disk, sessions, answering>>
           stop(reason) == Conclude(c, reason) /\ UNCHANGED registry
<1>0. r \in Runs /\ "project" \in Scope /\ "global" \in Scope /\ Scope = {"project", "global"}
  BY CallAssumption DEF Scope
<1>1. stage[c] = "global" /\ rest /\ EnsureLoaded(r, "global")
  BY DEF LookUpGlobal
<1>2. StageTrue(c) /\ TypeOK /\ ListsTrue /\ RegistryOK
  BY DEF IInv, CallsTrue, TypeOK, RegistryOK
<1>3. /\ store' \in StoreType /\ Entries(store') /\ store'[r]["global"].loaded
      /\ \A q \in Runs, t \in Scope :
             store[q][t].loaded \/ q # r \/ t # "global" => store'[q][t] = store[q][t]
  BY <1>0, <1>1, <1>2, LoadKeeps
<1>4. ~DeniedGlobally(c) => ~IsAllowed(c)
  <2>1. ~Matches(store'[r]["project"].entries, ToolOf[c])
    BY <1>0, <1>1, <1>2, <1>3 DEF StageTrue
  <2>2. QED
    BY <2>1 DEF IsAllowed, DeniedGlobally, Matches
<1>5. \/ stop("denylist_match") \/ stop("tool_always_deny")
      \/ stop("tool_auto_approve") /\ AutoApproves(c)
      \/ ~DeniedGlobally(c) /\ Ask(c)
  BY <1>4 DEF LookUpGlobal
<1>6. \/ /\ UNCHANGED registry
         /\ \/ Moves(c, "done", "denylist_match") \/ Moves(c, "done", "tool_always_deny")
            \/ Moves(c, "done", "tool_auto_approve") /\ AutoApproves(c)
      \/ Approvals!RegisterDuplicate(c) /\ Moves(c, "done", "denylist_match")
      \/ /\ ~DeniedGlobally(c)
         /\ Approvals!RegisterGivenUp(c) \/ Approvals!RegisterWaiting(c)
         /\ Moves(c, "prompt", verdict[c])
  BY <1>2, <1>5, ConcludeMoves, ProceedMoves DEF Ask, Reason
<1>7. /\ RegistryOK' /\ Stable
      /\ \A d \in Calls : d # c => phase'[d] = phase[d]
      /\ UNCHANGED registry => phase' = phase
      /\ Approvals!RegisterDuplicate(c) => phase'[c] = "threw"
      /\ Approvals!RegisterGivenUp(c) \/ Approvals!RegisterWaiting(c) => phase'[c] = "waiting"
  <2>1. CASE UNCHANGED registry
    <3>1. RegistryOK' /\ Stable /\ phase' = phase
      BY <1>2, <2>1, EndingKeeps
    <3>2. phase[c] = "idle"
      BY <1>1, <1>2 DEF StageTrue
    <3>3. /\ ~Approvals!RegisterDuplicate(c)
          /\ ~Approvals!RegisterGivenUp(c) /\ ~Approvals!RegisterWaiting(c)
      BY <1>2, <3>1, <3>2 DEF RegistryOK, Approvals!TypeOK,
         Approvals!RegisterDuplicate, Approvals!RegisterGivenUp, Approvals!RegisterWaiting
    <3>4. QED
      BY <3>1, <3>3
  <2>2. CASE \/ Approvals!RegisterDuplicate(c)
             \/ Approvals!RegisterGivenUp(c) \/ Approvals!RegisterWaiting(c)
    <3>1. phase'[c] # phase[c]
      BY <1>1, <1>2, <2>2, RegisterKeeps DEF StageTrue
    <3>2. QED
      BY <1>2, <2>2, <3>1, RegisterKeeps DEF registry
  <2>3. QED
    BY <1>6, <2>1, <2>2
<1>8. TypeOK' /\ Inert'
  <2>1. \E where, what : Moves(c, where, what)
    BY <1>6
  <2>2. QED
    BY <1>1, <1>2, <1>3, <1>7, <2>1 DEF TypeOK, RegistryOK, Moves, StoreType
<1>9. ListsTrue'
  BY <1>1, <1>2, <1>3, <1>7, DeservedStays DEF ListsTrue, Entries
<1>10. \A d \in Calls : d # c => /\ stage'[d] = stage[d] /\ verdict'[d] = verdict[d]
                                 /\ phase'[d] = phase[d]
  BY <1>6, <1>7 DEF Moves
<1>11. StageTrue(c)' /\ VerdictTrue(c)' /\ StoreTrue(c)'
  <2>1. stage[c] = "global" /\ phase[c] = "idle" /\ ~ModeDenies(c) /\ verdict[c] = NoVerdict
    BY <1>1, <1>2 DEF StageTrue, InFlight
  <2>2. \/ /\ stage'[c] = "done" /\ phase'[c] # "waiting"
           /\ \/ verdict'[c] \in {"denylist_match", "tool_always_deny"}
              \/ verdict'[c] = "tool_auto_approve" /\ AutoApproves(c)
        \/ stage'[c] = "prompt" /\ phase'[c] = "waiting" /\ verdict'[c] = NoVerdict
    BY <1>6, <1>7, <2>1 DEF Moves
  <2>3. QED
    BY <2>1, <2>2, VerdictAssumption
    DEF StageTrue, VerdictTrue, StoreTrue, InFlight, ModeDenies, AutoApproves, Always, Reason
<1>12. ASSUME stage'[c] \in {"prompt", "saving"}, NEW d \in Calls, SameKind(d, c)
       PROVE  verdict[d] \notin Always
  <2>1. ~Matches(store[r]["project"].entries, ToolOf[c])
    BY <1>1, <1>2 DEF StageTrue
  <2>2. ~Matches(store'[r]["global"].entries, ToolOf[c])
    BY <1>6, <1>12 DEF DeniedGlobally, Moves
  <2>3. store[r]["global"].loaded => store'[r]["global"] = store[r]["global"]
    BY <1>0, <1>3
  <2>4. QED
    BY <1>0, <1>12, <2>1, <2>2, <2>3, RememberedMatches
<1>13. \A d \in Calls : d # c /\ RunOf[d] = RunOf[c] => ~InFlight(d)
  BY <1>1, OthersRest DEF InFlight
<1>14. ASSUME NEW q \in Runs, NEW t \in Scope
       PROVE  /\ store[q][t].loaded => /\ store'[q][t].loaded
                                       /\ store[q][t].entries \subseteq store'[q][t].entries
              /\ q # r => store'[q][t] = store[q][t]
  BY <1>3
<1>15. QED
  BY <1>7, <1>8, <1>9, <1>10, <1>11, <1>12, <1>13, <1>14, CheckKeeps

LEMMA WakeKeeps ==
    ASSUME IInv, NEW c \in Calls, Wake(c)
    PROVE  IInv'
<1> DEFINE r == RunOf[c]
           o == outcome[c]
           m == Remembered(o, ToolOf[c])
<1>0. r \in Runs /\ ToolOf[c] \in Tools
  BY CallAssumption
<1>1. stage[c] = "prompt" /\ o # NoOutcome /\ UNCHANGED <<registry, disk, sessions, answering>>
  BY DEF Wake
<1>2. /\ StageTrue(c) /\ VerdictTrue(c) /\ StoreTrue(c)
      /\ TypeOK /\ ListsTrue /\ RegistryOK /\ NeverAgain
  BY DEF IInv, CallsTrue, TypeOK, RegistryOK
<1>3. RegistryOK' /\ Stable /\ phase' = phase /\ outcome' = outcome
  BY <1>1, <1>2, EndingKeeps DEF registry
<1>4. o \in Approvals!Outcome
  BY <1>1, <1>2 DEF RegistryOK, Approvals!TypeOK
<1>5. \A d \in Calls : d # c /\ RunOf[d] = RunOf[c] => ~InFlight(d)
  BY <1>1, OthersRest DEF InFlight
<1>6. \A d \in Calls : SameKind(d, c) => verdict[d] \notin Always
  BY <1>1, <1>2 DEF NeverAgain
<1>7. CASE ForGood(o)
  <2>1. /\ store' = [store EXCEPT ![r][m.scope] = Loaded(@.entries \cup {m.entry})]
        /\ Moves(c, "saving", verdict[c])
    BY <1>2, <1>7, ProceedMoves DEF Wake
  <2>2. m.scope \in Scope /\ m.entry \in Entry
    BY <1>0 DEF Remembered, Scope, Entry
  <2>3. Deserved(m.entry)
    <3>1. o = Approvals!UserSaid(o.decision) /\ o.decision \in {"approve_always", "deny_always"}
      BY <1>4, <1>7, Outcomes DEF ForGood
    <3>2. /\ m.entry.tool = ToolOf[c]
          /\ o.decision = IF m.entry.list = "allow" THEN "approve_always" ELSE "deny_always"
      BY <3>1 DEF Remembered
    <3>3. QED
      BY <3>1, <3>2 DEF Deserved
  <2>4. /\ store' \in StoreType
        /\ store'[r][m.scope] = Loaded(store[r][m.scope].entries \cup {m.entry})
        /\ \A q \in Runs, t \in Scope : q # r \/ t # m.scope => store'[q][t] = store[q][t]
    <3> HIDE DEF m
    <3>1. store \in StoreType
      BY <1>2 DEF TypeOK, StoreType
    <3>2. Loaded(store[r][m.scope].entries \cup {m.entry}) \in
            [loaded : BOOLEAN, entries : SUBSET Entry]
      BY <1>0, <2>2, <3>1 DEF StoreType, Loaded
    <3>3. QED
      BY <1>0, <2>1, <2>2, <3>1, <3>2 DEF StoreType
  <2>5. ASSUME NEW q \in Runs, NEW t \in Scope
        PROVE  /\ store[q][t].loaded => store'[q][t].loaded
               /\ store[q][t].entries \subseteq store'[q][t].entries
               /\ store'[q][t].entries \subseteq store[q][t].entries \cup {m.entry}
               /\ q # r => store'[q][t] = store[q][t]
    BY <2>4 DEF Loaded
  <2>6. TypeOK' /\ Inert'
    BY <1>1, <1>2, <1>3, <2>1, <2>4 DEF TypeOK, RegistryOK, Moves, StoreType
  <2>7. ListsTrue'
    <3>1. \A e : Deserved(e) => Deserved(e)'
      BY <1>3, DeservedStays
    <3>2. QED
      BY <1>1, <1>2, <2>3, <2>5, <3>1 DEF ListsTrue
  <2>8. StoreTrue(c)'
    BY <1>3, <2>4 DEF StoreTrue, Stored, Loaded
  <2>9. StageTrue(c)' /\ VerdictTrue(c)'
    BY <1>1, <1>2, <1>3, <1>7, <2>1
    DEF StageTrue, VerdictTrue, Moves, InFlight, ModeDenies
  <2>10. \A d \in Calls : d # c => /\ stage'[d] = stage[d] /\ verdict'[d] = verdict[d]
                                   /\ phase'[d] = phase[d]
    BY <1>3, <2>1 DEF Moves
  <2>11. QED
    BY <1>3, <1>5, <1>6, <2>5, <2>6, <2>7, <2>8, <2>9, <2>10, CheckKeeps
<1>8. CASE ~ForGood(o)
  <2>1. ReasonFor(o) \in Reason /\ ReasonFor(o) # "mode_denied" /\ ReasonFor(o) \notin Always
    BY <1>4, <1>8, Outcomes
  <2>2. UNCHANGED store /\ Moves(c, "done", ReasonFor(o))
    BY <1>2, <1>8, <2>1, ConcludeMoves DEF Wake
  <2>3. TypeOK' /\ Inert'
    BY <1>1, <1>2, <1>3, <2>2 DEF TypeOK, RegistryOK, Moves
  <2>4. ListsTrue'
    BY <1>1, <1>2, <1>3, <2>2, DeservedStays DEF ListsTrue
  <2>5. StageTrue(c)' /\ VerdictTrue(c)' /\ StoreTrue(c)'
    BY <1>1, <1>2, <1>3, <2>1, <2>2
    DEF StageTrue, VerdictTrue, StoreTrue, Moves, InFlight, ModeDenies
  <2>6. \A d \in Calls : d # c => /\ stage'[d] = stage[d] /\ verdict'[d] = verdict[d]
                                  /\ phase'[d] = phase[d]
    BY <1>3, <2>2 DEF Moves
  <2>7. QED
    BY <1>3, <1>5, <1>6, <2>2, <2>3, <2>4, <2>5, <2>6, CheckKeeps
<1>9. QED
  BY <1>7, <1>8

LEMMA SaveKeeps ==
    ASSUME IInv, NEW c \in Calls, Save(c)
    PROVE  IInv'
<1> DEFINE r == RunOf[c]
           o == outcome[c]
           s == Remembered(o, ToolOf[c]).scope
<1>0. r \in Runs /\ s \in Scope
  BY CallAssumption DEF Remembered, Scope
<1>1. /\ stage[c] = "saving" /\ UNCHANGED <<registry, store, sessions, answering>>
      /\ disk' = [disk EXCEPT ![s] = store[r][s].entries] \/ UNCHANGED disk
      /\ Conclude(c, ReasonFor(o))
  BY DEF Save
<1>2. /\ StageTrue(c) /\ VerdictTrue(c) /\ StoreTrue(c)
      /\ TypeOK /\ ListsTrue /\ RegistryOK
  BY DEF IInv, CallsTrue, TypeOK, RegistryOK
<1>3. RegistryOK' /\ Stable /\ phase' = phase /\ outcome' = outcome
  BY <1>1, <1>2, EndingKeeps DEF registry
<1>4. o # NoOutcome /\ o \in Approvals!Outcome /\ Stored(c) /\ phase[c] = "waiting"
  BY <1>1, <1>2 DEF RegistryOK, Approvals!TypeOK, StageTrue, StoreTrue
<1>5. ReasonFor(o) \in Reason /\ ReasonFor(o) # "mode_denied"
  BY <1>4, Outcomes
<1>6. Moves(c, "done", ReasonFor(o))
  BY <1>1, <1>2, <1>5, ConcludeMoves
<1>7. disk' \in [Scope -> SUBSET Entry] /\ ListsTrue'
  <2>1. store[r][s].entries \in SUBSET Entry
    BY <1>0, <1>2 DEF TypeOK
  <2>2. /\ disk' \in [Scope -> SUBSET Entry]
        /\ \A t \in Scope : disk'[t] = disk[t] \/ disk'[t] = store[r][s].entries
    BY <1>0, <1>1, <1>2, <2>1 DEF TypeOK
  <2>3. \A t \in Scope : \A e \in disk'[t] : Deserved(e)
    BY <1>0, <1>2, <2>2 DEF ListsTrue
  <2>4. QED
    BY <1>1, <1>2, <1>3, <2>2, <2>3, DeservedStays DEF ListsTrue
<1>8. TypeOK' /\ Inert'
  BY <1>1, <1>2, <1>3, <1>6, <1>7 DEF TypeOK, RegistryOK, Moves
<1>9. StageTrue(c)' /\ VerdictTrue(c)'
  BY <1>1, <1>2, <1>3, <1>4, <1>6
  DEF StageTrue, VerdictTrue, Moves, InFlight, ModeDenies
<1>10. StoreTrue(c)'
  BY <1>1, <1>3, <1>4 DEF StoreTrue, Stored
<1>11. \A d \in Calls : d # c => /\ stage'[d] = stage[d] /\ verdict'[d] = verdict[d]
                                 /\ phase'[d] = phase[d]
  BY <1>3, <1>6 DEF Moves
<1>12. stage'[c] \notin {"prompt", "saving"}
  BY <1>6 DEF Moves
<1>13. \A d \in Calls : d # c /\ RunOf[d] = RunOf[c] => ~InFlight(d)
  BY <1>1, OthersRest DEF InFlight
<1>14. QED
  BY <1>1, <1>3, <1>8, <1>7, <1>9, <1>10, <1>11, <1>12, <1>13, CheckKeeps

LEMMA NextIInv == IInv /\ [Next]_vars => IInv'
<1> SUFFICES ASSUME IInv, [Next]_vars PROVE IInv'
  OBVIOUS
<1> USE DEF registry
<1>0. /\ sessions \subseteq Sessions /\ answering \in 0..MaxAnswers
      /\ answering > 0 => answering - 1 \in 0..MaxAnswers
      /\ answering < MaxAnswers => answering + 1 \in 0..MaxAnswers
  BY CallAssumption DEF IInv, TypeOK
<1>1. ASSUME NEW c \in Calls, Begin(c) PROVE IInv'
  BY <1>1, BeginKeeps
<1>2. ASSUME NEW c \in Calls, Check(c) PROVE IInv'
  BY <1>2, LookUpProjectKeeps, LookUpGlobalKeeps, WakeKeeps, SaveKeeps DEF Check
<1>3. ASSUME NEW c \in Calls, Expire(c) PROVE IInv'
  BY <1>0, <1>3, OutsideKeeps DEF Expire
<1>4. ASSUME NEW i \in ApprovalIds, NEW d \in Approvals!Decision, Answer(i, d) PROVE IInv'
  BY <1>0, <1>4, OutsideKeeps DEF Answer
<1>8. CASE PostAnswer \/ RefuseAnswer
  BY <1>0, <1>8, OutsideKeeps DEF PostAnswer, RefuseAnswer
<1>5. ASSUME NEW r \in Runs, Disconnect(r) PROVE IInv'
  BY <1>0, <1>5, OutsideKeeps DEF Disconnect
<1>6. ASSUME NEW s \in Sessions, DeleteSession(s) PROVE IInv'
  <2>1. UNCHANGED <<stage, verdict, store, disk, over>> /\ sessions' \subseteq Sessions
        /\ answering' = answering
    BY <1>0, <1>6 DEF DeleteSession
  <2>2. Approvals!CancelAll("aborted") \/ UNCHANGED registry
    BY <1>6 DEF DeleteSession
  <2>3. QED
    BY <1>0, <2>1, <2>2, OutsideKeeps
<1>7. CASE UNCHANGED vars
  BY <1>0, <1>7, OutsideKeeps DEF vars
<1>9. QED
  BY <1>1, <1>2, <1>3, <1>4, <1>8, <1>5, <1>6, <1>7 DEF Next

LEMMA SpecIInv == Spec => []IInv
BY InitIInv, NextIInv, PTL DEF Spec

(* A verdict is given once.                                                *)
LEMMA VerdictStays ==
    ASSUME IInv, [Next]_vars, NEW c \in Calls, verdict[c] # NoVerdict
    PROVE  verdict'[c] = verdict[c]
<1>1. stage[c] = "done"
  BY DEF IInv, CallsTrue, StageTrue
<1>2. verdict \in [Calls -> Reason \cup {NoVerdict}]
  BY DEF IInv, TypeOK
<1>3. ASSUME NEW d \in Calls, stage[d] # "done",
             (\E reason : Conclude(d, reason)) \/ (\E next : Proceed(d, next))
      PROVE  verdict'[c] = verdict[c]
  BY <1>1, <1>2, <1>3 DEF Conclude, Proceed
<1>4. ASSUME NEW d \in Calls, Begin(d) \/ Check(d) PROVE verdict'[c] = verdict[c]
  <2>1. stage[d] # "done"
    BY <1>4 DEF Begin, Check, LookUpProject, LookUpGlobal, Wake, Save
  <2>2. (\E reason : Conclude(d, reason)) \/ (\E next : Proceed(d, next))
    <3>1. CASE Begin(d)
      BY <3>1 DEF Begin
    <3>2. CASE LookUpProject(d)
      BY <3>2 DEF LookUpProject
    <3>3. CASE LookUpGlobal(d)
      BY <3>3 DEF LookUpGlobal, Ask
    <3>4. CASE Wake(d)
      BY <3>4 DEF Wake
    <3>5. CASE Save(d)
      BY <3>5 DEF Save
    <3>6. QED
      BY <1>4, <3>1, <3>2, <3>3, <3>4, <3>5 DEF Check
  <2>3. QED
    BY <1>3, <2>1, <2>2
<1>5. QED
  BY <1>4 DEF Next, vars, Expire, PostAnswer, Answer, RefuseAnswer, Disconnect, DeleteSession

-----------------------------------------------------------------------------
(* Every variable keeps its type: a promise holds an outcome, a store what *)
(* an allowlist file may hold, a verdict a reason.                         *)
THEOREM TypeCorrect == Spec => []TypeOK
<1>1. IInv => TypeOK
  BY DEF IInv
<1>2. QED
  BY <1>1, SpecIInv, PTL

LEMMA IInvLicensed == IInv => Licensed
<1> SUFFICES ASSUME IInv, NEW c \in Calls, verdict[c] \in Approving
             PROVE  /\ ModeOf[RunOf[c]] \in {"plan", "read-only"} => ToolOf[c] \in ReadOnlyTools
                    /\ \/ outcome[c] = Approvals!UserSaid("approve")
                       \/ outcome[c] = Approvals!UserSaid("approve_always")
                       \/ /\ outcome[c] = NoOutcome
                          /\ LevelOf[ToolOf[c]] = "auto_approve"
                          /\ c \notin Critical /\ ModeOf[RunOf[c]] # "auto"
  BY DEF Licensed
<1>1. stage[c] = "done"
  BY VerdictAssumption DEF IInv, CallsTrue, StageTrue, Approving, Reason
<1>2. VerdictTrue(c)
  BY DEF IInv, CallsTrue
<1>3. ~ModeDenies(c)
  BY <1>1, <1>2 DEF VerdictTrue, Approving
<1>4. CASE phase[c] = "waiting"
  <2>1. outcome[c] # NoOutcome /\ verdict[c] = ReasonFor(outcome[c])
    BY <1>1, <1>2, <1>4 DEF VerdictTrue
  <2>2. outcome[c] \in Approvals!Outcome
    BY <2>1 DEF IInv, TypeOK, Approvals!TypeOK
  <2>3. outcome[c].decision \in {"approve", "approve_always"}
    BY <2>1, <2>2, Outcomes
  <2>4. QED
    BY <1>3, <2>2, <2>3, Outcomes DEF ModeDenies, ForGood
<1>5. CASE phase[c] # "waiting"
  <2>1. outcome[c] = NoOutcome /\ AutoApproves(c)
    BY <1>1, <1>2, <1>5 DEF IInv, Inert, VerdictTrue, Approving
  <2>2. QED
    BY <1>3, <2>1 DEF ModeDenies, AutoApproves
<1>6. QED
  BY <1>4, <1>5

LEMMA IInvAnswer == IInv => AnswerHonoured
<1> SUFFICES ASSUME IInv, NEW c \in Calls, stage[c] = "done", outcome[c] # NoOutcome
             PROVE  Denied(c) <=> outcome[c].decision \in {"deny", "deny_always"}
  BY DEF AnswerHonoured
<1>1. outcome[c] \in Approvals!Outcome
  BY DEF IInv, TypeOK, Approvals!TypeOK
<1>2. verdict[c] = ReasonFor(outcome[c])
  BY DEF IInv, Inert, CallsTrue, VerdictTrue
<1>3. outcome[c].decision \in Approvals!Decision
  BY <1>1 DEF Approvals!Outcome, Approvals!UserSaid, Approvals!AutoDeny, Approvals!Decision
<1>4. QED
  BY <1>1, <1>2, <1>3, Outcomes DEF Denied, Approvals!Decision

LEMMA IInvLists == IInv => OnlyUsersWriteLists
BY DEF IInv, ListsTrue, OnlyUsersWriteLists, Deserved

(* The gate is honest, for any number of runs that share the files: what   *)
(* it lets through has a licence of its own, what the user was told is     *)
(* recorded is obeyed, and the files hold only what a user decided for     *)
(* good.                                                                   *)
THEOREM GateIsHonest == Spec => []GateHonest
<1>1. IInv => GateHonest
  BY IInvLicensed, IInvAnswer, IInvLists DEF GateHonest, IInv
<1>2. QED
  BY <1>1, SpecIInv, PTL

(* After "always" the run never prompts for the tool again: the entry is   *)
(* in the run's store before the call has its verdict.                     *)
THEOREM AlwaysIsRemembered == Spec => AlwaysNeverAsksAgain
<1> DEFINE A == \A c, d \in Calls :
                   /\ SameKind(c, d)
                   /\ verdict[c] \in {"user_approved_always", "user_denied_always"}
                   /\ stage[d] # "prompt"
                   => stage'[d] # "prompt"
<1>1. IInv /\ IInv' /\ [Next]_vars => A
  <2> SUFFICES ASSUME IInv, IInv', [Next]_vars, NEW c \in Calls, NEW d \in Calls,
                      SameKind(c, d), verdict[c] \in Always
               PROVE  stage'[d] # "prompt"
    BY DEF Always
  <2>1. verdict'[c] = verdict[c]
    BY VerdictStays, VerdictAssumption DEF Always, Reason
  <2>2. QED
    BY <2>1 DEF IInv, NeverAgain, SameKind
<1>2. A => [A]_vars
  OBVIOUS
<1>3. QED
  BY <1>1, <1>2, SpecIInv, NextIInv, PTL DEF Spec, AlwaysNeverAsksAgain

(* After "deny always" the run's later calls of the tool are denied: what  *)
(* is remembered is met before anything that could approve.                *)
THEOREM DenyAlwaysIsObeyed == Spec => DenyAlwaysHolds
<1> DEFINE A == \A c, d \in Calls :
                   /\ SameKind(c, d) /\ verdict[c] = "user_denied_always"
                   /\ verdict[d] = NoVerdict /\ verdict'[d] # NoVerdict
                   => Denied(d)'
<1>1. IInv /\ [Next]_vars => A
  <2> SUFFICES ASSUME IInv, [Next]_vars, NEW c \in Calls, NEW d \in Calls,
                      SameKind(c, d), verdict[c] \in Always,
                      verdict[d] = NoVerdict, verdict'[d] # NoVerdict
               PROVE  Denied(d)'
    BY DEF Always
  <2>0. TypeOK /\ verdict \in [Calls -> Reason \cup {NoVerdict}]
    BY DEF IInv, TypeOK
  <2>1. stage[d] \notin {"prompt", "saving"}
    BY DEF IInv, NeverAgain
  <2>2. ASSUME NEW reason \in {"mode_denied", "denylist_match", "tool_always_deny"},
               Conclude(d, reason)
        PROVE  Denied(d)'
    BY <2>0, <2>2 DEF Conclude, Denied, Reason, Approving
  <2>3. ASSUME NEW e \in Calls, e # d, Begin(e) \/ Check(e) PROVE verdict'[d] = verdict[d]
    <3>1. (\E reason : Conclude(e, reason)) \/ (\E next : Proceed(e, next))
      <4>1. CASE Begin(e)
        BY <4>1 DEF Begin
      <4>2. CASE LookUpProject(e)
        BY <4>2 DEF LookUpProject
      <4>3. CASE LookUpGlobal(e)
        BY <4>3 DEF LookUpGlobal, Ask
      <4>4. CASE Wake(e)
        BY <4>4 DEF Wake
      <4>5. CASE Save(e)
        BY <4>5 DEF Save
      <4>6. QED
        BY <2>3, <4>1, <4>2, <4>3, <4>4, <4>5 DEF Check
    <3>2. QED
      BY <2>0, <2>3, <3>1 DEF Conclude, Proceed
  <2>4. Begin(d) \/ LookUpProject(d) \/ LookUpGlobal(d)
    BY <2>1, <2>3
    DEF Next, vars, Check, Wake, Save, Expire, PostAnswer, Answer, RefuseAnswer, Disconnect, DeleteSession
  <2>5. CASE Begin(d)
    BY <2>2, <2>5 DEF Begin, Proceed
  <2>6. CASE LookUpProject(d)
    BY <2>2, <2>6 DEF LookUpProject, Proceed
  <2>7. CASE LookUpGlobal(d)
    <3>1. stage[d] = "global" /\ RunOf[d] \in Runs /\ "global" \in Scope
      BY <2>7, CallAssumption DEF LookUpGlobal, Scope
    <3>2. ~Matches(store[RunOf[d]]["project"].entries, ToolOf[d])
      BY <3>1 DEF IInv, CallsTrue, StageTrue
    <3>3. store[RunOf[d]]["global"].loaded /\ Matches(store[RunOf[d]]["global"].entries, ToolOf[d])
      BY <3>2, RememberedMatches DEF Scope
    <3>4. DeniedGlobally(d)
      BY <2>7, <3>3 DEF LookUpGlobal, EnsureLoaded, DeniedGlobally
    <3>5. QED
      BY <2>2, <2>7, <3>4 DEF LookUpGlobal
  <2>8. QED
    BY <2>4, <2>5, <2>6, <2>7
<1>2. A => [A]_vars
  OBVIOUS
<1>3. QED
  BY <1>1, <1>2, SpecIInv, PTL DEF Spec, DenyAlwaysHolds
=============================================================================
