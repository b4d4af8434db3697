----------------------------- MODULE LoopProofs -----------------------------
(***************************************************************************)
(* Proofs about the loop and the hooks it dispatches.  QueryEngine: the    *)
(* history the model is sent stays well formed, for any number of turns,   *)
(* tools, failures and compactions, and any token budget.  Hooks, from     *)
(* Counts on: every failure is counted, a list is stale by a race only,    *)
(* and what was blocked stays so, for any number of callers and edits.     *)
(***************************************************************************)
EXTENDS QueryEngine, Hooks,
        FiniteSetTheorems, SequenceTheorems, WellFoundedInduction, TLAPS

(* Each call is followed by its result, each result preceded by its call.  *)
Paired(ms) ==
    \A j \in DOMAIN ms :
        /\ ms[j].kind = "use" =>
              j < Len(ms) /\ ms[j + 1].kind = "result" /\ ms[j + 1].id = ms[j].id
        /\ ms[j].kind = "result" =>
              j > 1 /\ ms[j - 1].kind = "use" /\ ms[j - 1].id = ms[j].id

OfTools(ms) == \A j \in DOMAIN ms : ms[j].kind \in {"use", "result"}

(* The request is in ms once, at j, and no user message comes after it.    *)
RequestAt(ms, j) ==
    /\ ms[j].kind = "request"
    /\ \A k \in DOMAIN ms :
          ms[k].kind = "request" \/ (k > j /\ ms[k].kind = "user") => k = j
HasRequest(ms) == \E j \in DOMAIN ms : RequestAt(ms, j)

Turning == phase \in {"turn", "auto", "full", "prompt", "stream", "tools"}

(* The automatic level is only tried while the breaker is closed.          *)
BreakerInv == BreakerTrips /\ (phase = "auto" => ~noAuto)

PairInv == Paired(messages) /\ Paired(working) /\ Paired(done) /\ OfTools(done)

(* Compaction looks for the last user message: it has to find the request. *)
RequestInv ==
    /\ phase = "start" => \A j \in DOMAIN messages : messages[j].kind # "request"
    /\ phase # "start" => HasRequest(messages)
    /\ Turning => HasRequest(working)

IInv == TypeOK /\ BreakerInv /\ PairInv /\ RequestInv

-----------------------------------------------------------------------------
(* Sequences                                                               *)
LEMMA ConcatParts ==
    ASSUME NEW T, NEW a \in Seq(T), NEW b \in Seq(T)
    PROVE  /\ a \o b \in Seq(T)
           /\ Len(a) \in Nat /\ Len(b) \in Nat
           /\ Len(a \o b) = Len(a) + Len(b)
           /\ DOMAIN a = 1..Len(a) /\ DOMAIN b = 1..Len(b)
           /\ DOMAIN (a \o b) = 1..(Len(a) + Len(b))
           /\ \A j \in 1..Len(a) : (a \o b)[j] = a[j]
           /\ \A j \in 1..Len(b) : (a \o b)[Len(a) + j] = b[j]
OBVIOUS

LEMMA AppendSplits ==
    ASSUME NEW T, NEW a \in Seq(T), NEW e \in T
    PROVE  Append(a, e) = a \o <<e>> /\ <<e>> \in Seq(T)
OBVIOUS

LEMMA EntryTypes ==
    /\ \A kind \in {"user", "request", "text"} : Plain(kind) \in Entry
    /\ \A long \in BOOLEAN : Summary(long) \in Entry
    /\ \A i \in CallIds : Use(i) \in Entry
    /\ \A i \in CallIds, long \in BOOLEAN : Result(i, long) \in Entry
BY DEF Entry, Plain, Summary, Use, Result

LEMMA EmitTypes ==
    /\ \A type \in {"session_start", "message_start", "message_end", "fatal",
                    "compaction_failed", "session_end"} : Emit(type) \in Seq(Event)
    /\ \A i \in CallIds : ToolEvents(i) \in Seq(Event)
<1>1. \A type \in {"session_start", "message_start", "message_end", "fatal",
                    "compaction_failed", "session_end"} : [type |-> type, id |-> NoId] \in Event
  BY DEF Event
<1>2. \A i \in CallIds : /\ [type |-> "tool_start", id |-> i] \in Event
                         /\ [type |-> "tool_end", id |-> i] \in Event
  BY DEF Event
<1>3. \A x \in Event : <<x>> \in Seq(Event)
  OBVIOUS
<1>4. \A i \in CallIds : ToolEvents(i) \in Seq(Event)
  BY <1>2, <1>3, ConcatParts DEF ToolEvents, EmitFor
<1>5. QED
  BY <1>1, <1>3, <1>4 DEF Emit

LEMMA EstimateType ==
    ASSUME NEW ms \in Seq(Entry) PROVE Estimate(ms) \in 0..Threshold
<1> DEFINE S == {j \in DOMAIN ms : ms[j].long}
<1>1. DOMAIN ms = 1..Len(ms) /\ Len(ms) \in Nat
  OBVIOUS
<1>2. IsFiniteSet(1..Len(ms))
  BY <1>1, FS_Interval
<1>3. Cardinality(S) \in Nat
  BY <1>1, <1>2, FS_Subset, FS_CardinalityType
<1> HIDE DEF S
<1>4. \A k \in Nat : LongTokens * k \in Nat
  BY LoopAssumption
<1>5. Len(ms) + LongTokens * Cardinality(S) \in Nat
  BY <1>1, <1>3, <1>4
<1>6. \A n \in Nat : Cap(n) \in 0..Threshold
  BY LoopAssumption DEF Cap
<1>7. QED
  BY <1>5, <1>6 DEF Estimate, S

LEMMA TruncatedProperties ==
    ASSUME NEW ms \in Seq(Entry)
    PROVE  /\ Truncated(ms) \in Seq(Entry)
           /\ DOMAIN Truncated(ms) = DOMAIN ms /\ Len(Truncated(ms)) = Len(ms)
           /\ \A j \in DOMAIN ms : /\ Truncated(ms)[j].kind = ms[j].kind
                                   /\ Truncated(ms)[j].id = ms[j].id
<1>1. \A j \in DOMAIN ms : ms[j] \in Entry
  OBVIOUS
<1>2. \A e \in Entry, b \in BOOLEAN :
        /\ [e EXCEPT !.long = b] \in Entry
        /\ [e EXCEPT !.long = b].kind = e.kind
        /\ [e EXCEPT !.long = b].id = e.id
  BY DEF Entry
<1>3. \A j \in DOMAIN ms : (ms[j].long /\ ms[j].kind # "result") \in BOOLEAN
  OBVIOUS
<1>4. \A j \in DOMAIN ms :
        /\ Truncated(ms)[j] \in Entry
        /\ Truncated(ms)[j].kind = ms[j].kind
        /\ Truncated(ms)[j].id = ms[j].id
  BY <1>1, <1>2, <1>3 DEF Truncated
<1>5. /\ DOMAIN Truncated(ms) = 1..Len(ms) /\ DOMAIN ms = 1..Len(ms) /\ Len(ms) \in Nat
      /\ Truncated(ms) = [j \in 1..Len(ms) |-> Truncated(ms)[j]]
  BY DEF Truncated
<1>6. Truncated(ms) \in Seq(Entry) /\ Len(Truncated(ms)) = Len(ms)
  BY <1>4, <1>5
<1>7. QED
  BY <1>4, <1>5, <1>6

(* The last user message is the request.                                   *)
LEMMA LastUserIsRequest ==
    ASSUME NEW ms \in Seq(Entry), HasRequest(ms)
    PROVE  LastUser(ms) \in DOMAIN ms /\ ms[LastUser(ms)].kind = "request"
<1>1. PICK j \in DOMAIN ms : RequestAt(ms, j)
  BY DEF HasRequest
<1>2. DOMAIN ms \subseteq Int
  OBVIOUS
<1>3. /\ ms[j].kind \in {"user", "request"}
      /\ \A k \in DOMAIN ms : ms[k].kind \in {"user", "request"} => k <= j
  BY <1>1, <1>2 DEF RequestAt
<1>4. /\ LastUser(ms) \in DOMAIN ms
      /\ ms[LastUser(ms)].kind \in {"user", "request"}
      /\ \A k \in DOMAIN ms : ms[k].kind \in {"user", "request"} => k <= LastUser(ms)
  BY <1>3 DEF LastUser
<1>5. LastUser(ms) = j
  BY <1>2, <1>3, <1>4
<1>6. QED
  BY <1>1, <1>5 DEF RequestAt

LEMMA ReplacementProperties ==
    ASSUME NEW ms \in Seq(Entry), HasRequest(ms), NEW long \in BOOLEAN
    PROVE  /\ Replacement(ms, long) \in Seq(Entry)
           /\ Paired(Replacement(ms, long))
           /\ HasRequest(Replacement(ms, long))
<1> DEFINE e == ms[LastUser(ms)]
           rs == <<Summary(long), e>>
<1>1. e \in Entry /\ e.kind = "request" /\ Summary(long) \in Entry
  BY LastUserIsRequest, EntryTypes
<1>2. Summary(long).kind = "summary"
  BY DEF Summary
<1> HIDE DEF e
<1>3. /\ rs \in Seq(Entry) /\ DOMAIN rs = 1..2 /\ rs[1].kind = "summary" /\ rs[2].kind = "request"
  BY <1>1, <1>2
<1> HIDE DEF rs
<1>4. Paired(rs)
  BY <1>3 DEF Paired
<1>5. RequestAt(rs, 2)
  BY <1>3 DEF RequestAt
<1>6. QED
  BY <1>3, <1>4, <1>5 DEF HasRequest, Replacement, e, rs

-----------------------------------------------------------------------------
(* What concatenation preserves                                            *)
LEMMA PairedConcat ==
    ASSUME NEW a \in Seq(Entry), NEW b \in Seq(Entry), Paired(a), Paired(b)
    PROVE  Paired(a \o b)
<1> DEFINE c == a \o b
<1>1. /\ Len(a) \in Nat /\ Len(b) \in Nat /\ Len(c) = Len(a) + Len(b)
      /\ DOMAIN a = 1..Len(a) /\ DOMAIN b = 1..Len(b) /\ DOMAIN c = 1..(Len(a) + Len(b))
      /\ \A j \in 1..Len(a) : c[j] = a[j]
      /\ \A j \in 1..Len(b) : c[Len(a) + j] = b[j]
  BY ConcatParts
<1> HIDE DEF c
<1>0. Len(a) \in Nat /\ Len(b) \in Nat /\ Len(c) = Len(a) + Len(b)
  BY <1>1
<1>2. ASSUME NEW j \in DOMAIN c
      PROVE  /\ c[j].kind = "use" =>
                  j < Len(c) /\ c[j + 1].kind = "result" /\ c[j + 1].id = c[j].id
             /\ c[j].kind = "result" =>
                  j > 1 /\ c[j - 1].kind = "use" /\ c[j - 1].id = c[j].id
  <2>1. CASE j <= Len(a)
    <3>1. j \in DOMAIN a /\ c[j] = a[j]
      BY <1>1, <2>1
    <3>2. ASSUME a[j].kind = "use"
          PROVE  j < Len(c) /\ c[j + 1].kind = "result" /\ c[j + 1].id = c[j].id
      <4>1. j < Len(a) /\ a[j + 1].kind = "result" /\ a[j + 1].id = a[j].id
        BY <3>1, <3>2 DEF Paired
      <4>2. c[j + 1] = a[j + 1] /\ j < Len(c)
        BY <1>1, <3>1, <4>1
      <4>3. QED
        BY <3>1, <4>1, <4>2
    <3>3. ASSUME a[j].kind = "result"
          PROVE  j > 1 /\ c[j - 1].kind = "use" /\ c[j - 1].id = c[j].id
      <4>1. j > 1 /\ a[j - 1].kind = "use" /\ a[j - 1].id = a[j].id
        BY <3>1, <3>3 DEF Paired
      <4>2. c[j - 1] = a[j - 1]
        BY <1>1, <3>1, <4>1
      <4>3. QED
        BY <3>1, <4>1, <4>2
    <3>4. QED
      BY <3>1, <3>2, <3>3
  <2>2. CASE j > Len(a)
    <3> DEFINE i == j - Len(a)
    <3>1. i \in 1..Len(b) /\ j = Len(a) + i
      BY <1>1, <2>2
    <3> HIDE DEF i
    <3>2. i \in DOMAIN b /\ c[j] = b[i]
      BY <1>1, <3>1
    <3>3. ASSUME b[i].kind = "use"
          PROVE  j < Len(c) /\ c[j + 1].kind = "result" /\ c[j + 1].id = c[j].id
      <4>1. i < Len(b) /\ b[i + 1].kind = "result" /\ b[i + 1].id = b[i].id
        BY <3>2, <3>3 DEF Paired
      <4>2. i < Len(b)
        BY <4>1
      <4>3. i + 1 \in 1..Len(b) /\ j + 1 = Len(a) + (i + 1) /\ j < Len(c)
        BY <1>0, <3>1, <4>2
      <4>4. c[j + 1] = b[i + 1]
        BY <1>1, <4>3
      <4>5. QED
        BY <3>2, <4>1, <4>3, <4>4
    <3>4. ASSUME b[i].kind = "result"
          PROVE  j > 1 /\ c[j - 1].kind = "use" /\ c[j - 1].id = c[j].id
      <4>1. i > 1 /\ b[i - 1].kind = "use" /\ b[i - 1].id = b[i].id
        BY <3>2, <3>4 DEF Paired
      <4>2. i > 1
        BY <4>1
      <4>3. i - 1 \in 1..Len(b) /\ j - 1 = Len(a) + (i - 1) /\ j > 1
        BY <1>0, <3>1, <4>2
      <4>4. c[j - 1] = b[i - 1]
        BY <1>1, <4>3
      <4>5. QED
        BY <3>2, <4>1, <4>3, <4>4
    <3>5. QED
      BY <3>2, <3>3, <3>4
  <2>3. QED
    BY <1>1, <2>1, <2>2
<1>3. Paired(c)
  BY <1>2 DEF Paired
<1>4. QED
  BY <1>3 DEF c

LEMMA PlainPaired ==
    /\ Paired(<<>>)
    /\ \A x \in Entry : x.kind \notin {"use", "result"} => Paired(<<x>>)
BY DEF Paired

(* A call with its result.                                                 *)
LEMMA CallPaired ==
    ASSUME NEW i \in CallIds, NEW long \in BOOLEAN
    PROVE  LET p == <<Use(i), Result(i, long)>>
           IN p \in Seq(Entry) /\ Paired(p) /\ OfTools(p) /\ Len(p) = 2
<1> DEFINE p == <<Use(i), Result(i, long)>>
<1>1. /\ p \in Seq(Entry) /\ DOMAIN p = 1..2 /\ Len(p) = 2
      /\ p[1].kind = "use" /\ p[1].id = i /\ p[2].kind = "result" /\ p[2].id = i
  BY EntryTypes DEF Use, Result
<1> HIDE DEF p
<1>2. Paired(p) /\ OfTools(p)
  BY <1>1 DEF Paired, OfTools
<1>3. QED
  BY <1>1, <1>2 DEF p

LEMMA OfToolsConcat ==
    ASSUME NEW a \in Seq(Entry), NEW b \in Seq(Entry), OfTools(a), OfTools(b)
    PROVE  OfTools(a \o b)
<1> DEFINE c == a \o b
<1>1. /\ Len(a) \in Nat /\ Len(b) \in Nat
      /\ DOMAIN a = 1..Len(a) /\ DOMAIN b = 1..Len(b) /\ DOMAIN c = 1..(Len(a) + Len(b))
      /\ \A j \in 1..Len(a) : c[j] = a[j]
      /\ \A j \in 1..Len(b) : c[Len(a) + j] = b[j]
  BY ConcatParts
<1> HIDE DEF c
<1>2. ASSUME NEW j \in DOMAIN c PROVE c[j].kind \in {"use", "result"}
  <2>1. CASE j <= Len(a)
    BY <1>1, <2>1 DEF OfTools
  <2>2. CASE j > Len(a)
    <3>1. j - Len(a) \in 1..Len(b) /\ c[j] = b[j - Len(a)]
      <4>1. j - Len(a) \in 1..Len(b) /\ j = Len(a) + (j - Len(a))
        BY <1>1, <2>2
      <4>2. QED
        BY <1>1, <4>1
    <3>2. QED
      BY <1>1, <3>1 DEF OfTools
  <2>3. QED
    BY <1>1, <2>1, <2>2
<1>3. QED
  BY <1>2 DEF OfTools, c

(* What is appended after the request, and is no user message, keeps it.   *)
LEMMA RequestConcat ==
    ASSUME NEW a \in Seq(Entry), NEW b \in Seq(Entry), HasRequest(a),
           \A j \in DOMAIN b : b[j].kind \notin {"user", "request"}
    PROVE  HasRequest(a \o b)
<1> DEFINE c == a \o b
<1>1. /\ Len(a) \in Nat /\ Len(b) \in Nat
      /\ DOMAIN a = 1..Len(a) /\ DOMAIN b = 1..Len(b) /\ DOMAIN c = 1..(Len(a) + Len(b))
      /\ \A j \in 1..Len(a) : c[j] = a[j]
      /\ \A j \in 1..Len(b) : c[Len(a) + j] = b[j]
  BY ConcatParts
<1> HIDE DEF c
<1>2. PICK i \in DOMAIN a : RequestAt(a, i)
  BY DEF HasRequest
<1>3. \A k \in DOMAIN c : c[k].kind \in {"user", "request"} => k \in DOMAIN a /\ c[k] = a[k]
  <2> SUFFICES ASSUME NEW k \in DOMAIN c, c[k].kind \in {"user", "request"}
               PROVE  k \in DOMAIN a /\ c[k] = a[k]
    OBVIOUS
  <2>1. CASE k <= Len(a)
    BY <1>1, <2>1
  <2>2. CASE k > Len(a)
    <3>1. k - Len(a) \in 1..Len(b) /\ k = Len(a) + (k - Len(a))
      BY <1>1, <2>2
    <3>2. c[k] = b[k - Len(a)]
      BY <1>1, <3>1
    <3>3. QED
      BY <1>1, <3>1, <3>2
  <2>3. QED
    BY <1>1, <2>1, <2>2
<1>4. i \in DOMAIN c /\ c[i] = a[i]
  BY <1>1
<1>5. RequestAt(c, i)
  BY <1>2, <1>3, <1>4 DEF RequestAt
<1>6. QED
  BY <1>4, <1>5 DEF HasRequest, c

LEMMA RequestAppended ==
    ASSUME NEW a \in Seq(Entry), \A j \in DOMAIN a : a[j].kind # "request"
    PROVE  /\ Append(a, Plain("request")) \in Seq(Entry)
           /\ HasRequest(Append(a, Plain("request")))
<1> DEFINE c == Append(a, Plain("request"))
<1>1. Plain("request") \in Entry /\ Plain("request").kind = "request"
  BY EntryTypes DEF Plain
<1>2. /\ c \in Seq(Entry) /\ Len(a) \in Nat
      /\ DOMAIN a = 1..Len(a) /\ DOMAIN c = 1..(Len(a) + 1)
      /\ \A j \in 1..Len(a) : c[j] = a[j]
      /\ c[Len(a) + 1].kind = "request"
  BY <1>1
<1> HIDE DEF c
<1>3. RequestAt(c, Len(a) + 1)
  BY <1>2 DEF RequestAt
<1>4. QED
  BY <1>2, <1>3 DEF HasRequest, c

LEMMA TruncatedKeeps ==
    ASSUME NEW ms \in Seq(Entry)
    PROVE  /\ Paired(ms) => Paired(Truncated(ms))
           /\ HasRequest(ms) => HasRequest(Truncated(ms))
<1> DEFINE ts == Truncated(ms)
<1>1. /\ DOMAIN ts = DOMAIN ms /\ Len(ts) = Len(ms) /\ DOMAIN ms = 1..Len(ms) /\ Len(ms) \in Nat
      /\ \A j \in DOMAIN ms : ts[j].kind = ms[j].kind /\ ts[j].id = ms[j].id
  BY TruncatedProperties
<1> HIDE DEF ts
<1>2. ASSUME Paired(ms) PROVE Paired(ts)
  <2> SUFFICES ASSUME NEW j \in DOMAIN ts
               PROVE  /\ ts[j].kind = "use" =>
                           j < Len(ts) /\ ts[j + 1].kind = "result" /\ ts[j + 1].id = ts[j].id
                      /\ ts[j].kind = "result" =>
                           j > 1 /\ ts[j - 1].kind = "use" /\ ts[j - 1].id = ts[j].id
    BY DEF Paired
  <2>1. /\ ms[j].kind = "use" =>
              j < Len(ms) /\ ms[j + 1].kind = "result" /\ ms[j + 1].id = ms[j].id
        /\ ms[j].kind = "result" =>
              j > 1 /\ ms[j - 1].kind = "use" /\ ms[j - 1].id = ms[j].id
    BY <1>1, <1>2 DEF Paired
  <2>2. /\ j < Len(ms) => j + 1 \in DOMAIN ms
        /\ j > 1 => j - 1 \in DOMAIN ms
    BY <1>1
  <2>3. QED
    BY <1>1, <2>1, <2>2
<1>3. ASSUME HasRequest(ms) PROVE HasRequest(ts)
  BY <1>1, <1>3 DEF HasRequest, RequestAt
<1>4. QED
  BY <1>2, <1>3 DEF ts

-----------------------------------------------------------------------------
LEMMA InitIInv == Init => IInv
<1> SUFFICES ASSUME Init PROVE IInv
  OBVIOUS
<1> USE DEF Init
<1>1. messages \in Seq(Entry) /\ Paired(messages)
      /\ \A j \in DOMAIN messages : messages[j].kind # "request"
  <2>1. CASE messages = <<>>
    BY <2>1, PlainPaired
  <2>2. CASE messages = <<Plain("user")>>
    <3>1. Plain("user") \in Entry /\ Plain("user").kind = "user"
      BY EntryTypes DEF Plain
    <3>2. messages \in Seq(Entry) /\ DOMAIN messages = 1..1 /\ messages[1].kind = "user"
      BY <2>2, <3>1
    <3>3. QED
      BY <2>2, <3>1, <3>2, PlainPaired
  <2>3. QED
    BY <2>1, <2>2
<1>2. TypeOK
  <2>1. <<>> \in Seq(Entry) /\ <<>> \in Seq(CallIds) /\ <<>> \in Seq(Event)
    OBVIOUS
  <2>2. 0 \in 0..MaxTurns /\ 0 \in 0..Threshold /\ 0 \in 0..FailureThreshold
    BY LoopAssumption
  <2>3. "start" \in Phase
    BY DEF Phase
  <2>4. QED
    BY <1>1, <2>1, <2>2, <2>3 DEF TypeOK
<1>3. BreakerInv
  BY LoopAssumption DEF BreakerInv, BreakerTrips
<1>4. PairInv
  BY <1>1, PlainPaired DEF PairInv, OfTools
<1>5. RequestInv
  BY <1>1 DEF RequestInv, Turning
<1>6. QED
  BY <1>2, <1>3, <1>4, <1>5 DEF IInv

(* The circuit breaker.                                                    *)
LEMMA BreakerStep ==
    ASSUME TypeOK, BreakerInv, [Next]_vars
    PROVE  BreakerInv' /\ failures' \in 0..FailureThreshold /\ noAuto' \in BOOLEAN
<1> USE LoopAssumption DEF TypeOK, BreakerInv, BreakerTrips
<1>1. CASE AutoFails
  <2>1. /\ phase = "auto" /\ phase' = "full" /\ failures' = failures + 1
        /\ noAuto' = (noAuto \/ failures' >= FailureThreshold)
    BY <1>1 DEF AutoFails
  <2>2. ~noAuto /\ failures < FailureThreshold /\ failures \in Nat
    BY <2>1
  <2>3. failures' \in 0..FailureThreshold
    BY <2>1, <2>2
  <2>4. noAuto' <=> failures' >= FailureThreshold
    BY <2>1, <2>2
  <2>5. noAuto' \in BOOLEAN
    BY <2>1, <2>2
  <2>6. QED
    BY <2>1, <2>3, <2>4, <2>5
<1>2. ASSUME NEW long \in BOOLEAN, AutoSummary(long)
      PROVE  BreakerInv' /\ failures' \in 0..FailureThreshold /\ noAuto' \in BOOLEAN
  BY <1>2 DEF AutoSummary
<1>3. CASE Micro
  BY <1>3 DEF Micro, compaction
<1>4. CASE UNCHANGED <<failures, noAuto>> /\ (phase' = phase \/ phase' # "auto")
  BY <1>4
<1>5. ASSUME NEW long \in BOOLEAN, Full(long) \/ RunTool(long)
      PROVE  UNCHANGED <<failures, noAuto>> /\ (phase' = phase \/ phase' # "auto")
  BY <1>5 DEF Full, RunTool, compaction
<1>6. CASE Start \/ LoopHead \/ FullFails \/ NotCalled \/ CallModel \/ StreamEnds
           \/ StreamThrows \/ Abandon \/ EndTurn \/ Chunk \/ Abort \/ ClientLost
           \/ UNCHANGED vars
  <2>1. UNCHANGED <<failures, noAuto>> /\ (phase' = phase \/ phase' # "auto")
    BY <1>6 DEF Start, LoopHead, FullFails, NotCalled, CallModel, StreamEnds, StreamThrows,
                Abandon, EndTurn, Chunk, Abort, ClientLost, End, compaction, vars
  <2>2. QED
    BY <1>4, <2>1
<1>7. QED
  BY <1>1, <1>2, <1>3, <1>4, <1>5, <1>6 DEF Next, Step

(* Every event list stays one.                                             *)
LEMMA NextCallType ==
    ASSUME TypeOK, Len(done) < 2 * Len(requests)
    PROVE  NextCall \in CallIds
<1>1. Len(done) \in Nat /\ Len(requests) \in Nat /\ requests \in Seq(CallIds)
  BY DEF TypeOK
<1>2. Len(done) \div 2 + 1 \in 1..Len(requests)
  <2> DEFINE n == Len(done)
             m == Len(requests)
  <2>1. n \in Nat /\ m \in Nat /\ n < 2 * m
    BY <1>1
  <2> HIDE DEF n, m
  <2>2. n \div 2 + 1 \in 1..m
    BY <2>1
  <2>3. QED
    BY <2>2 DEF n, m
<1>3. QED
  BY <1>1, <1>2 DEF NextCall
LEMMA EventTypes ==
    ASSUME TypeOK, [Next]_vars
    PROVE  events' \in Seq(Event) /\ out' \in Seq(Event)
<1>1. /\ \A a, b \in Seq(Event) : a \o b \in Seq(Event)
      /\ \A type \in {"session_start", "message_start", "message_end", "fatal",
                      "compaction_failed", "session_end"} : Emit(type) \in Seq(Event)
      /\ events \in Seq(Event) /\ out \in Seq(Event) /\ <<>> \in Seq(Event)
  BY EmitTypes, ConcatParts DEF TypeOK
<1>2. \A type \in {"session_start", "message_start", "message_end", "fatal",
                   "compaction_failed", "session_end"} :
         events \o Emit(type) \in Seq(Event)
  BY <1>1
<1>3. \A e \in Seq(Event) : out \o e \o Emit("session_end") \in Seq(Event)
  <2> SUFFICES ASSUME NEW e \in Seq(Event) PROVE out \o e \o Emit("session_end") \in Seq(Event)
    OBVIOUS
  <2>1. out \o e \in Seq(Event)
    BY <1>1
  <2>2. Emit("session_end") \in Seq(Event)
    BY <1>1
  <2> DEFINE s == Emit("session_end")
             o == out \o e
  <2> HIDE DEF s, o
  <2>3. o \o s \in Seq(Event)
    BY <1>1, <2>1, <2>2 DEF o, s
  <2>4. QED
    BY <2>3 DEF o, s
<1>4. CASE Start \/ LoopHead \/ Micro \/ AutoFails \/ FullFails
  <2>1. CASE Start
    <3>1. events' = events /\ out' = Emit("session_start")
      BY <2>1 DEF Start
    <3>2. QED
      BY <1>1, <3>1
  <2>2. CASE LoopHead
    <3>1. /\ events' = events \/ events' = <<>>
          /\ out' = out \/ out' = out \o <<>> \o Emit("session_end")
      BY <2>2 DEF LoopHead, End
    <3>2. QED
      BY <1>1, <1>2, <1>3, <3>1
  <2>3. CASE Micro
    <3>1. /\ events' = events \/ events' = events \o Emit("compaction_failed")
          /\ out' = out
      BY <2>3 DEF Micro, Cleared
    <3>2. QED
      BY <1>1, <3>1
  <2>4. CASE AutoFails \/ FullFails
    <3>1. /\ events' = events \/ events' = events \o Emit("compaction_failed")
          /\ out' = out
      BY <2>4 DEF AutoFails, FullFails, Cleared
    <3>2. QED
      BY <1>1, <3>1
  <2>5. QED
    BY <1>4, <2>1, <2>2, <2>3, <2>4
<1>5. CASE NotCalled \/ CallModel \/ StreamEnds \/ StreamThrows \/ Abandon \/ EndTurn
  <2>1. CASE NotCalled \/ Abandon
    <3>1. /\ events' = events
          /\ \/ out' = out \o events \o Emit("session_end")
             \/ out' = out \o <<>> \o Emit("session_end")
      BY <2>1 DEF NotCalled, Abandon, End
    <3>2. QED
      BY <1>1, <1>2, <1>3, <3>1
  <2>2. CASE CallModel \/ EndTurn
    <3>1. /\ events' = events \/ events' = events \o Emit("message_start")
          /\ out' = out \/ out' = out \o events
      BY <2>2 DEF CallModel, EndTurn
    <3>2. QED
      BY <1>1, <3>1
  <2>3. CASE StreamEnds
    <3> DEFINE all == events \o Emit("message_end")
    <3>1. all \in Seq(Event)
      BY <1>1
    <3>2. /\ events' = events \/ events' = all
          /\ out' = out \/ out' = out \o all \o Emit("session_end")
      BY <2>3 DEF StreamEnds, End
    <3> HIDE DEF all
    <3>3. QED
      BY <1>1, <1>2, <1>3, <3>1, <3>2
  <2>4. CASE StreamThrows
    <3>1. /\ events' = events
          /\ out' = out \o (events \o Emit("fatal")) \o Emit("session_end")
      BY <2>4 DEF StreamThrows, End
    <3>2. events \o Emit("fatal") \in Seq(Event)
      BY <1>1
    <3>3. QED
      BY <1>1, <3>1, <3>2
  <2>5. QED
    BY <1>5, <2>1, <2>2, <2>3, <2>4
<1>6. ASSUME NEW long \in BOOLEAN, AutoSummary(long) \/ Full(long) \/ RunTool(long)
      PROVE  events' \in Seq(Event) /\ out' \in Seq(Event)
  <2>1. CASE AutoSummary(long) \/ Full(long)
    <3>1. /\ events' = events \/ events' = events \o Emit("compaction_failed")
          /\ out' = out
      BY <2>1 DEF AutoSummary, Full, Cleared
    <3>2. QED
      BY <1>1, <3>1
  <2>2. CASE RunTool(long)
    <3>1. ToolEvents(NextCall) \in Seq(Event)
      BY <2>2, NextCallType, EmitTypes DEF RunTool
    <3>2. QED
      BY <1>1, <2>2, <3>1 DEF RunTool
  <2>3. QED
    BY <1>6, <2>1, <2>2
<1>7. CASE Chunk \/ Abort \/ ClientLost \/ UNCHANGED vars
  BY <1>1, <1>7 DEF Chunk, Abort, ClientLost, vars
<1>8. QED
  BY <1>4, <1>5, <1>6, <1>7 DEF Next, Step

(* What the model is sent, and what the next turn starts from, stay        *)
(* histories.                                                              *)
LEMMA HistoryStep ==
    ASSUME IInv, [Next]_vars
    PROVE  /\ messages' \in Seq(Entry) /\ working' \in Seq(Entry) /\ done' \in Seq(Entry)
           /\ PairInv' /\ RequestInv'
<1> DEFINE Goal == /\ messages' \in Seq(Entry) /\ working' \in Seq(Entry) /\ done' \in Seq(Entry)
                   /\ PairInv' /\ RequestInv'
<1> USE DEF IInv, PairInv, RequestInv, Turning
<1>1. messages \in Seq(Entry) /\ working \in Seq(Entry) /\ done \in Seq(Entry)
  BY DEF TypeOK
<1>2. CASE Start
  <2>1. /\ phase = "start" /\ phase' = "head" /\ messages' = Append(messages, Plain("request"))
        /\ UNCHANGED <<working, done>>
    BY <1>2 DEF Start, reply
  <2>2. messages' \in Seq(Entry) /\ HasRequest(messages')
    BY <1>1, <2>1, RequestAppended
  <2>3. Paired(messages')
    <3>1. Plain("request") \in Entry /\ Plain("request").kind = "request"
      BY EntryTypes DEF Plain
    <3>2. messages' = messages \o <<Plain("request")>> /\ <<Plain("request")>> \in Seq(Entry)
      BY <1>1, <2>1, <3>1, AppendSplits
    <3>3. QED
      BY <1>1, <3>1, <3>2, PlainPaired, PairedConcat
  <2>4. QED
    BY <1>1, <2>1, <2>2, <2>3 DEF OfTools, HasRequest, Paired
<1>3. CASE LoopHead
  BY <1>1, <1>3 DEF LoopHead, End, reply
<1>4. CASE Micro
  <2>1. /\ phase = "turn" /\ phase' \in {"prompt", "full", "auto"}
        /\ working' = working \/ working' = Truncated(working)
        /\ UNCHANGED <<messages, done>>
    BY <1>4 DEF Micro, reply
  <2>2. working' \in Seq(Entry) /\ Paired(working') /\ HasRequest(working')
    BY <1>1, <2>1, TruncatedProperties, TruncatedKeeps
  <2>3. QED
    BY <1>1, <2>1, <2>2
<1>5. ASSUME NEW long \in BOOLEAN, AutoSummary(long) \/ Full(long) PROVE Goal
  <2>1. /\ phase \in {"auto", "full"} /\ phase' \in {"prompt", "full"}
        /\ working' = Replacement(working, long)
        /\ UNCHANGED <<messages, done>>
    BY <1>5 DEF AutoSummary, Full, Summarised, reply
  <2>2. working' \in Seq(Entry) /\ Paired(working') /\ HasRequest(working')
    BY <1>1, <2>1, ReplacementProperties
  <2>3. QED
    BY <1>1, <2>1, <2>2
<1>6. ASSUME NEW long \in BOOLEAN, RunTool(long) PROVE Goal
  <2> DEFINE p == <<Use(NextCall), Result(NextCall, long)>>
  <2>1. /\ phase = "tools" /\ phase' = "tools" /\ done' = done \o p
        /\ UNCHANGED <<messages, working>> /\ NextCall \in CallIds
    BY <1>6, NextCallType DEF RunTool
  <2>2. p \in Seq(Entry) /\ Paired(p) /\ OfTools(p)
    BY <2>1, CallPaired
  <2> HIDE DEF p
  <2>3. done' \in Seq(Entry) /\ Paired(done') /\ OfTools(done')
    BY <1>1, <2>1, <2>2, PairedConcat, OfToolsConcat
  <2>4. QED
    BY <1>1, <2>1, <2>3
<1>7. CASE CallModel
  <2>1. /\ phase = "prompt" /\ phase' = "stream" /\ done' = <<>> /\ UNCHANGED <<messages, working>>
    BY <1>7 DEF CallModel
  <2>2. done' \in Seq(Entry) /\ Paired(done') /\ OfTools(done')
    BY <2>1, PlainPaired DEF OfTools
  <2>3. QED
    BY <1>1, <2>1, <2>2
<1>8. CASE EndTurn
  <2> DEFINE h == IF text THEN Append(working, Plain("text")) ELSE working
  <2>1. /\ phase = "tools" /\ phase' = "head" /\ messages' = h \o done
        /\ UNCHANGED <<working, done>>
    BY <1>8 DEF EndTurn, reply
  <2>2. h \in Seq(Entry) /\ Paired(h) /\ HasRequest(h)
    <3>1. Plain("text") \in Entry /\ Plain("text").kind = "text"
      BY EntryTypes DEF Plain
    <3>2. /\ Append(working, Plain("text")) = working \o <<Plain("text")>>
          /\ <<Plain("text")>> \in Seq(Entry)
      BY <1>1, <3>1, AppendSplits
    <3>3. Paired(working \o <<Plain("text")>>) /\ working \o <<Plain("text")>> \in Seq(Entry)
      BY <1>1, <2>1, <3>1, <3>2, PlainPaired, PairedConcat, ConcatParts
    <3>4. HasRequest(working \o <<Plain("text")>>)
      <4>1. \A j \in DOMAIN <<Plain("text")>> : <<Plain("text")>>[j].kind = "text"
        BY <3>1
      <4>2. QED
        BY <1>1, <2>1, <3>2, <4>1, RequestConcat
    <3>5. QED
      BY <1>1, <2>1, <3>2, <3>3, <3>4
  <2> HIDE DEF h
  <2>3. messages' \in Seq(Entry) /\ Paired(messages')
    BY <1>1, <2>1, <2>2, PairedConcat
  <2>4. HasRequest(messages')
    BY <1>1, <2>1, <2>2, RequestConcat DEF OfTools
  <2>5. QED
    BY <1>1, <2>1, <2>3, <2>4
<1>9. CASE AutoFails \/ FullFails \/ NotCalled \/ StreamEnds \/ StreamThrows \/ Abandon
  <2>1. /\ phase \in {"auto", "full", "prompt", "stream", "tools"} /\ phase' # "start"
        /\ UNCHANGED <<messages, working, done>>
    BY <1>9 DEF AutoFails, FullFails, NotCalled, StreamEnds, StreamThrows, Abandon, End, reply
  <2>2. QED
    BY <1>1, <2>1
<1>10. CASE Chunk \/ Abort \/ ClientLost \/ UNCHANGED vars
  <2>1. /\ phase' = phase \/ (phase \in {"head", "turn"} /\ phase' = "dropped")
        /\ UNCHANGED <<messages, working, done>>
    BY <1>10 DEF Chunk, Abort, ClientLost, reply, vars
  <2>2. QED
    BY <1>1, <2>1
<1>11. QED
  BY <1>2, <1>3, <1>4, <1>5, <1>6, <1>7, <1>8, <1>9, <1>10 DEF Next, Step
(* What is left of the types.                                              *)
LEMMA TypeStep == ASSUME IInv, [Next]_vars PROVE TypeOK'
<1>1. /\ messages' \in Seq(Entry) /\ working' \in Seq(Entry) /\ done' \in Seq(Entry)
      /\ events' \in Seq(Event) /\ out' \in Seq(Event)
      /\ failures' \in 0..FailureThreshold /\ noAuto' \in BOOLEAN
  BY HistoryStep, EventTypes, BreakerStep DEF IInv
<1>2. phase' \in Phase /\ ended' \in EndReason \cup {NoId} /\ aborted' \in BOOLEAN
  <2> USE DEF TypeOK, Phase, EndReason
  <2>1. TypeOK
    BY DEF IInv
  <2>2. CASE Start \/ LoopHead \/ Micro \/ AutoFails \/ FullFails \/ NotCalled
    BY <2>1, <2>2 DEF Start, LoopHead, Micro, AutoFails, FullFails, NotCalled, End
  <2>3. CASE CallModel \/ StreamEnds \/ StreamThrows \/ Abandon \/ EndTurn
    BY <2>1, <2>3 DEF CallModel, StreamEnds, StreamThrows, Abandon, EndTurn, End
  <2>4. ASSUME NEW long \in BOOLEAN, AutoSummary(long) \/ Full(long) \/ RunTool(long)
        PROVE  phase' \in Phase /\ ended' \in EndReason \cup {NoId} /\ aborted' \in BOOLEAN
    BY <2>1, <2>4 DEF AutoSummary, Full, RunTool
  <2>5. CASE Chunk \/ Abort \/ ClientLost \/ UNCHANGED vars
    BY <2>1, <2>5 DEF Chunk, Abort, ClientLost, vars
  <2>6. QED
    BY <2>2, <2>3, <2>4, <2>5 DEF Next, Step
<1>3. turn' \in 0..MaxTurns
  <2>1. turn \in 0..MaxTurns /\ MaxTurns \in Nat
    BY LoopAssumption DEF IInv, TypeOK
  <2>2. CASE LoopHead
    BY <2>1, <2>2 DEF LoopHead
  <2>3. turn' = turn \/ LoopHead
    BY DEF Next, Step, Start, Micro, AutoFails, FullFails, NotCalled, CallModel, StreamEnds,
           StreamThrows, Abandon, EndTurn, AutoSummary, Full, RunTool, Chunk, Abort,
           ClientLost, vars
  <2>4. QED
    BY <2>1, <2>2, <2>3
<1>4. used' \in 0..Threshold
  <2>1. used \in 0..Threshold /\ Threshold \in 0..Threshold
    BY LoopAssumption DEF IInv, TypeOK
  <2>2. used' = used \/ used' = Threshold \/ used' = Estimate(working')
    BY DEF Next, Step, Start, LoopHead, Micro, AutoFails, FullFails, NotCalled, CallModel,
           StreamEnds, StreamThrows, Abandon, EndTurn, AutoSummary, Full, Summarised, RunTool,
           Chunk, Abort, ClientLost, vars
  <2>3. Estimate(working') \in 0..Threshold
    BY <1>1, EstimateType
  <2>4. QED
    BY <2>1, <2>2, <2>3
<1>5. /\ text' \in BOOLEAN /\ fatal' \in BOOLEAN
      /\ requests' \in Seq(CallIds)
  <2>1. text \in BOOLEAN /\ fatal \in BOOLEAN /\ requests \in Seq(CallIds)
    BY DEF IInv, TypeOK
  <2>2. CASE CallModel
    <3>1. text' = FALSE /\ requests' = <<>> /\ fatal' = FALSE
      BY <2>2 DEF CallModel
    <3>2. <<>> \in Seq(CallIds)
      OBVIOUS
    <3>3. QED
      BY <3>1, <3>2
  <2>3. CASE Chunk
    <3>1. /\ text' = text \/ text' = TRUE
          /\ fatal' = fatal \/ fatal' = TRUE
      BY <2>3 DEF Chunk
    <3>2. requests' = requests \/ \E i \in CallIds : requests' = Append(requests, i)
      BY <2>3 DEF Chunk
    <3>3. \A i \in CallIds : Append(requests, i) \in Seq(CallIds)
      BY <2>1
    <3>4. requests' \in Seq(CallIds)
      BY <2>1, <3>2, <3>3
    <3>5. text' \in BOOLEAN /\ fatal' \in BOOLEAN
      BY <2>1, <3>1
    <3>6. QED
      BY <3>4, <3>5
  <2>4. UNCHANGED <<text, fatal, requests>> \/ CallModel \/ Chunk
    BY DEF Next, Step, Start, LoopHead, Micro, AutoFails, FullFails, NotCalled, StreamEnds,
           StreamThrows, Abandon, EndTurn, AutoSummary, Full, RunTool, Abort, ClientLost,
           reply, vars
  <2>5. QED
    BY <2>1, <2>2, <2>3, <2>4
<1>6. QED
  BY <1>1, <1>2, <1>3, <1>4, <1>5 DEF TypeOK

-----------------------------------------------------------------------------
THEOREM Invariance == Spec => []IInv
<1>1. IInv /\ [Next]_vars => IInv'
  <2>1. IInv /\ [Next]_vars => TypeOK'
    BY TypeStep
  <2>2. IInv /\ [Next]_vars => PairInv' /\ RequestInv'
    BY HistoryStep
  <2>3. IInv /\ [Next]_vars => BreakerInv'
    BY BreakerStep DEF IInv
  <2>4. QED
    BY <2>1, <2>2, <2>3 DEF IInv
<1>2. QED
  BY InitIInv, <1>1, PTL DEF Spec

(* The loop's state keeps its types: the turns stay below maxTurns, the    *)
(* failures at most autoCompactFailureThreshold.                           *)
THEOREM TypeCorrect == Spec => []TypeOK
<1>1. IInv => TypeOK
  BY DEF IInv
<1>2. QED
  BY <1>1, Invariance, PTL

(* runAutoLevel: the breaker is open exactly after autoCompactFailure-     *)
(* Threshold failures in a row, whatever the levels do in between.         *)
THEOREM BreakerIsExact == Spec => []BreakerTrips
<1>1. IInv => BreakerTrips
  BY DEF IInv, BreakerInv
<1>2. QED
  BY <1>1, Invariance, PTL

(* Whenever the provider is called, every tool call it is sent has its     *)
(* result right after it, through any turns, denials and compactions.      *)
THEOREM CallsStayPaired == Spec => []CallsArePaired
<1>1. IInv => CallsArePaired
  BY DEF IInv, PairInv, Paired, CallsArePaired
<1>2. QED
  BY <1>1, Invariance, PTL

(* Whenever the provider is called, the request it is to answer is in what *)
(* it is sent, once, with no other user message after it: truncation and   *)
(* both summaries keep it (buildReplacement).                              *)
THEOREM RequestStays == Spec => []RequestKept
<1>1. IInv => RequestKept
  BY DEF IInv, RequestInv, Turning, HasRequest, RequestAt, RequestKept
<1>2. QED
  BY <1>1, Invariance, PTL

(* Every prompt that query-engine.ts sends to the provider is well formed: *)
(* calls and results are paired and the request is there.                  *)
THEOREM PromptsAreWellFormed == Spec => []PromptWellFormed
<1>1. CallsArePaired /\ RequestKept => PromptWellFormed
  BY DEF PromptWellFormed
<1>2. QED
  BY <1>1, CallsStayPaired, RequestStays, PTL

-----------------------------------------------------------------------------
(* The events. Between two steps everything that has started has ended,    *)
(* but for the message that is streaming.                                  *)
Closed(es) ==
    \A j \in DOMAIN es :
        /\ es[j].type = "tool_start" =>
              j < Len(es) /\ es[j + 1] = [type |-> "tool_end", id |-> es[j].id]
        /\ es[j].type = "message_start" =>
              j < Len(es) /\ es[j + 1].type \in {"message_end", "fatal"}
        /\ es[j].type # "session_end"

ThenEmits(es, type) == \E c \in Seq(Event) : Closed(c) /\ es = c \o Emit(type)

EventInv ==
    /\ phase # "over" => Closed(out)
    /\ phase = "over" => ThenEmits(out, "session_end")
    /\ phase \in {"turn", "auto", "full", "prompt", "tools"} => Closed(events)
    /\ phase = "stream" => ThenEmits(events, "message_start")

(* The first n calls of the turn have their results, in order.             *)
Answers(n) ==
    /\ Len(done) = 2 * n /\ n <= Len(requests)
    /\ \A k \in 1..n : done[2 * k].kind = "result" /\ done[2 * k].id = requests[k]

ReplyInv ==
    /\ phase = "start" => turn = 0
    /\ phase = "stream" => done = <<>>
    /\ phase = "tools" => \E n \in Nat : Answers(n)
    /\ NoUnansweredCall

-----------------------------------------------------------------------------
LEMMA EventTypesOf ==
    /\ \A type \in {"session_start", "message_start", "message_end", "fatal",
                    "compaction_failed", "session_end"} :
          [type |-> type, id |-> NoId] \in Event
    /\ \A i \in CallIds : /\ [type |-> "tool_start", id |-> i] \in Event
                          /\ [type |-> "tool_end", id |-> i] \in Event
BY DEF Event

LEMMA ClosedConcat ==
    ASSUME NEW a \in Seq(Event), NEW b \in Seq(Event), Closed(a), Closed(b)
    PROVE  Closed(a \o b) /\ a \o b \in Seq(Event)
<1> DEFINE c == a \o b
<1>1. /\ Len(a) \in Nat /\ Len(b) \in Nat /\ Len(c) = Len(a) + Len(b)
      /\ DOMAIN a = 1..Len(a) /\ DOMAIN b = 1..Len(b) /\ DOMAIN c = 1..(Len(a) + Len(b))
      /\ \A j \in 1..Len(a) : c[j] = a[j]
      /\ \A j \in 1..Len(b) : c[Len(a) + j] = b[j]
      /\ c \in Seq(Event)
  BY ConcatParts
<1> HIDE DEF c
<1>0. Len(a) \in Nat /\ Len(b) \in Nat /\ Len(c) = Len(a) + Len(b)
  BY <1>1
<1>2. ASSUME NEW j \in DOMAIN c
      PROVE  /\ c[j].type = "tool_start" =>
                  j < Len(c) /\ c[j + 1] = [type |-> "tool_end", id |-> c[j].id]
             /\ c[j].type = "message_start" =>
                  j < Len(c) /\ c[j + 1].type \in {"message_end", "fatal"}
             /\ c[j].type # "session_end"
  <2>1. CASE j <= Len(a)
    <3>1. j \in DOMAIN a /\ c[j] = a[j] /\ (j < Len(a) => j < Len(c) /\ c[j + 1] = a[j + 1])
      BY <1>1, <2>1
    <3>2. QED
      BY <3>1 DEF Closed
  <2>2. CASE j > Len(a)
    <3>1. PICK i \in 1..Len(b) : j = Len(a) + i
      <4>1. j - Len(a) \in 1..Len(b) /\ j = Len(a) + (j - Len(a))
        BY <1>1, <2>2
      <4>2. QED
        BY <4>1
    <3>2. i \in DOMAIN b /\ c[j] = b[i]
      BY <1>1, <3>1
    <3>3. i < Len(b) => j < Len(c) /\ c[j + 1] = b[i + 1]
      <4>1. i < Len(b) => i + 1 \in 1..Len(b) /\ j + 1 = Len(a) + (i + 1) /\ j < Len(c)
        BY <1>0, <3>1
      <4>2. QED
        BY <1>1, <4>1
    <3>4. QED
      BY <3>2, <3>3 DEF Closed
  <2>3. QED
    BY <1>1, <2>1, <2>2
<1>3. QED
  BY <1>1, <1>2 DEF Closed, c

LEMMA ClosedOnes ==
    /\ Closed(<<>>)
    /\ \A type \in {"session_start", "message_end", "fatal", "compaction_failed"} :
          Closed(Emit(type)) /\ Emit(type) \in Seq(Event)
    /\ Emit("session_end") \in Seq(Event) /\ Emit("message_start") \in Seq(Event)
<1>1. \A e \in Event : <<e>> \in Seq(Event) /\ DOMAIN <<e>> = 1..1 /\ <<e>>[1] = e
  OBVIOUS
<1>2. ASSUME NEW e \in Event, e.type \notin {"tool_start", "message_start", "session_end"}
      PROVE  Closed(<<e>>)
  BY <1>1, <1>2 DEF Closed
<1>3. Closed(<<>>)
  BY DEF Closed
<1>4. ASSUME NEW type \in {"session_start", "message_end", "fatal", "compaction_failed"}
      PROVE  Closed(Emit(type)) /\ Emit(type) \in Seq(Event)
  <2>1. [type |-> type, id |-> NoId] \in Event
    BY EventTypesOf
  <2>2. QED
    BY <1>1, <1>2, <2>1 DEF Emit
<1>5. QED
  BY <1>1, <1>3, <1>4, EventTypesOf DEF Emit

(* An event and the one it calls for.                                      *)
LEMMA ClosedTwo ==
    ASSUME NEW a \in Seq(Event), NEW b \in Seq(Event), Len(a) = 1, Len(b) = 1,
           \/ a[1].type = "tool_start" /\ b[1] = [type |-> "tool_end", id |-> a[1].id]
           \/ a[1].type = "message_start" /\ b[1].type \in {"message_end", "fatal"}
    PROVE  Closed(a \o b) /\ a \o b \in Seq(Event)
<1> DEFINE p == a \o b
<1>1. /\ p \in Seq(Event) /\ Len(p) = Len(a) + Len(b)
      /\ DOMAIN p = 1..(Len(a) + Len(b))
      /\ \A j \in 1..Len(a) : p[j] = a[j]
      /\ \A j \in 1..Len(b) : p[Len(a) + j] = b[j]
  BY ConcatParts
<1> HIDE DEF p
<1>2. Len(p) = 2 /\ DOMAIN p = 1..2 /\ p[1] = a[1] /\ p[1 + 1] = b[1]
  BY <1>1
<1>3. /\ a[1].type # "session_end"
      /\ b[1].type \notin {"tool_start", "message_start", "session_end"}
  OBVIOUS
<1>4. Closed(p)
  BY <1>2, <1>3 DEF Closed
<1>5. QED
  BY <1>1, <1>4 DEF p

LEMMA ClosedPair ==
    ASSUME NEW s \in Event, NEW e \in Event,
           \/ s.type = "tool_start" /\ e = [type |-> "tool_end", id |-> s.id]
           \/ s.type = "message_start" /\ e.type \in {"message_end", "fatal"}
    PROVE  Closed(<<s>> \o <<e>>) /\ <<s>> \o <<e>> \in Seq(Event)
<1>1. /\ <<s>> \in Seq(Event) /\ <<e>> \in Seq(Event) /\ Len(<<s>>) = 1 /\ Len(<<e>>) = 1
      /\ <<s>>[1] = s /\ <<e>>[1] = e
  OBVIOUS
<1>2. QED
  BY <1>1, ClosedTwo

LEMMA ClosedTool ==
    ASSUME NEW i \in CallIds
    PROVE  Closed(ToolEvents(i)) /\ ToolEvents(i) \in Seq(Event)
BY EventTypesOf, ClosedPair DEF ToolEvents, EmitFor

(* A message that has started ends.                                        *)
LEMMA ClosedMessage ==
    ASSUME NEW es \in Seq(Event), ThenEmits(es, "message_start"),
           NEW type \in {"message_end", "fatal"}
    PROVE  Closed(es \o Emit(type)) /\ es \o Emit(type) \in Seq(Event)
<1> DEFINE s == [type |-> "message_start", id |-> NoId]
           e == [type |-> type, id |-> NoId]
<1>1. PICK c \in Seq(Event) : Closed(c) /\ es = c \o <<s>>
  BY DEF ThenEmits, Emit
<1>2. s \in Event /\ e \in Event /\ s.type = "message_start" /\ e.type = type
  BY EventTypesOf
<1>3. Emit(type) = <<e>>
  BY DEF Emit
<1> HIDE DEF s, e
<1>4. Closed(<<s>> \o <<e>>) /\ <<s>> \o <<e>> \in Seq(Event)
  BY <1>2, ClosedPair
<1>5. <<s>> \in Seq(Event) /\ <<e>> \in Seq(Event)
  BY <1>2
<1>6. es \o <<e>> = c \o (<<s>> \o <<e>>)
  BY <1>1, <1>5, ConcatAssociative
<1>7. QED
  BY <1>1, <1>3, <1>4, <1>6, ClosedConcat

(* A run ends with its last turn's events and session_end.                 *)
LEMMA EndCloses ==
    ASSUME TypeOK, phase # "over", EventInv, NEW es \in Seq(Event), Closed(es),
           NEW reason, End(reason, es)
    PROVE  EventInv'
<1>1. Closed(out) /\ out \in Seq(Event)
  BY DEF EventInv, TypeOK
<1>2. Closed(out \o es) /\ out \o es \in Seq(Event)
  BY <1>1, ClosedConcat
<1>3. phase' = "over" /\ out' = (out \o es) \o Emit("session_end")
  BY DEF End
<1>4. ThenEmits(out', "session_end")
  BY <1>2, <1>3 DEF ThenEmits
<1>5. QED
  BY <1>3, <1>4 DEF EventInv, ThenEmits

LEMMA EventStep ==
    ASSUME IInv, EventInv, [Next]_vars
    PROVE  EventInv'
<1>0. TypeOK /\ events \in Seq(Event) /\ out \in Seq(Event) /\ <<>> \in Seq(Event)
  BY DEF IInv, TypeOK
<1> USE ClosedOnes
<1>1. CASE Start
  BY <1>1 DEF Start, EventInv
<1>2. CASE LoopHead
  <2>1. CASE \E reason : End(reason, <<>>)
    BY <1>0, <1>2, <2>1, EndCloses DEF LoopHead
  <2>2. CASE phase' = "turn" /\ events' = <<>> /\ out' = out
    BY <1>2, <2>2 DEF LoopHead, EventInv
  <2>3. QED
    BY <1>2, <2>1, <2>2 DEF LoopHead
<1>3. ASSUME phase \in {"turn", "auto", "full"}, phase' \in {"auto", "full", "prompt"},
             events' \in {events, events \o Emit("compaction_failed")}, out' = out
      PROVE  EventInv'
  <2>1. Closed(events')
    BY <1>0, <1>3, ClosedConcat DEF EventInv
  <2>2. QED
    BY <1>3, <2>1 DEF EventInv
<1>4. CASE Micro \/ AutoFails \/ FullFails
  BY <1>3, <1>4 DEF Micro, AutoFails, FullFails, Cleared
<1>5. ASSUME NEW long \in BOOLEAN, AutoSummary(long) \/ Full(long) PROVE EventInv'
  BY <1>3, <1>5 DEF AutoSummary, Full, Cleared
<1>6. CASE NotCalled
  BY <1>0, <1>6, EndCloses DEF NotCalled, EventInv
<1>7. CASE CallModel
  <2>1. /\ phase = "prompt" /\ phase' = "stream" /\ out' = out
        /\ events' = events \o Emit("message_start")
    BY <1>7 DEF CallModel
  <2>2. ThenEmits(events', "message_start")
    BY <1>0, <2>1 DEF ThenEmits, EventInv
  <2>3. QED
    BY <2>1, <2>2 DEF EventInv
<1>8. CASE StreamEnds
  <2> DEFINE all == events \o Emit("message_end")
  <2>1. phase = "stream" /\ Closed(all) /\ all \in Seq(Event)
    BY <1>0, <1>8, ClosedMessage DEF StreamEnds, EventInv
  <2>2. \/ \E reason : End(reason, all)
        \/ phase' = "tools" /\ events' = all /\ out' = out
    BY <1>8 DEF StreamEnds
  <2> HIDE DEF all
  <2>3. CASE \E reason : End(reason, all)
    BY <1>0, <2>1, <2>3, EndCloses
  <2>4. CASE phase' = "tools" /\ events' = all /\ out' = out
    BY <2>1, <2>4 DEF EventInv
  <2>5. QED
    BY <2>2, <2>3, <2>4
<1>9. CASE StreamThrows
  <2> DEFINE all == events \o Emit("fatal")
  <2>1. phase \in {"prompt", "stream"} /\ End("error", all)
    BY <1>9 DEF StreamThrows
  <2>2. Closed(all) /\ all \in Seq(Event)
    <3>1. CASE phase = "prompt"
      BY <1>0, <3>1, ClosedConcat DEF EventInv
    <3>2. CASE phase = "stream"
      BY <1>0, <3>2, ClosedMessage DEF EventInv
    <3>3. QED
      BY <2>1, <3>1, <3>2
  <2> HIDE DEF all
  <2>3. QED
    BY <1>0, <2>1, <2>2, EndCloses
<1>10. ASSUME NEW long \in BOOLEAN, RunTool(long) PROVE EventInv'
  <2>1. /\ phase = "tools" /\ phase' = "tools" /\ out' = out
        /\ events' = events \o ToolEvents(NextCall) /\ NextCall \in CallIds
    BY <1>0, <1>10, NextCallType DEF RunTool
  <2>2. Closed(events')
    BY <1>0, <2>1, ClosedTool, ClosedConcat DEF EventInv
  <2>3. QED
    BY <2>1, <2>2 DEF EventInv
<1>11. CASE Abandon
  BY <1>0, <1>11, EndCloses DEF Abandon
<1>12. CASE EndTurn
  <2>1. phase = "tools" /\ phase' = "head" /\ out' = out \o events
    BY <1>12 DEF EndTurn
  <2>2. Closed(out')
    BY <1>0, <2>1, ClosedConcat DEF EventInv
  <2>3. QED
    BY <2>1, <2>2 DEF EventInv
<1>13. CASE Chunk \/ Abort \/ ClientLost \/ UNCHANGED vars
  BY <1>13 DEF Chunk, Abort, ClientLost, vars, EventInv, ThenEmits
<1>14. QED
  BY <1>1, <1>2, <1>4, <1>5, <1>6, <1>7, <1>8, <1>9, <1>10, <1>11, <1>12, <1>13
  DEF Next, Step

LEMMA EventsNested == ASSUME TypeOK, EventInv PROVE EventsNest
<1>1. CASE phase # "over"
  BY <1>1 DEF EventInv, Closed, EventsNest
<1>2. CASE phase = "over"
  <2> DEFINE s == [type |-> "session_end", id |-> NoId]
  <2>1. PICK c \in Seq(Event) : Closed(c) /\ out = c \o <<s>>
    BY <1>2 DEF EventInv, ThenEmits, Emit
  <2>2. s \in Event
    BY EventTypesOf
  <2>3. s.type = "session_end"
    OBVIOUS
  <2> HIDE DEF s
  <2>4. /\ Len(c) \in Nat /\ DOMAIN c = 1..Len(c)
        /\ Len(out) = Len(c) + 1 /\ DOMAIN out = 1..(Len(c) + 1)
        /\ \A j \in 1..Len(c) : out[j] = c[j]
        /\ out[Len(c) + 1] = s
    BY <2>1, <2>2
  <2>5. ASSUME NEW j \in DOMAIN out
        PROVE  /\ out[j].type = "tool_start" =>
                    j < Len(out) /\ out[j + 1] = [type |-> "tool_end", id |-> out[j].id]
               /\ out[j].type = "message_start" =>
                    j < Len(out) /\ out[j + 1].type \in {"message_end", "fatal"}
               /\ out[j].type = "session_end" => j = Len(out) /\ phase = "over"
    <3>1. CASE j \in DOMAIN c
      <4>1. /\ c[j] = out[j]
            /\ j < Len(c) => out[j + 1] = c[j + 1] /\ j < Len(out)
        BY <2>4, <3>1
      <4>2. QED
        BY <2>1, <3>1, <4>1 DEF Closed
    <3>2. CASE j = Len(c) + 1
      BY <1>2, <2>3, <2>4, <3>2
    <3>3. QED
      BY <2>4, <2>5, <3>1, <3>2
  <2>6. QED
    BY <1>2, <2>3, <2>4, <2>5 DEF EventsNest
<1>3. QED
  BY <1>1, <1>2

LEMMA ReplyStep ==
    ASSUME IInv, ReplyInv, [Next]_vars
    PROVE  ReplyInv'
<1>0. /\ TypeOK /\ done \in Seq(Entry) /\ requests \in Seq(CallIds)
      /\ Len(done) \in Nat /\ Len(requests) \in Nat
  BY DEF IInv, TypeOK
<1>1. CASE Start
  BY <1>1 DEF Start, ReplyInv, NoUnansweredCall
<1>2. CASE CallModel
  BY <1>2 DEF CallModel, ReplyInv, NoUnansweredCall
<1>3. CASE StreamEnds
  <2>1. phase = "stream" /\ done' = <<>> /\ requests' = requests /\ phase' \in {"over", "tools"}
    BY <1>3 DEF StreamEnds, ReplyInv, End, reply
  <2>2. Answers(0)'
    BY <1>0, <2>1 DEF Answers
  <2>3. QED
    BY <2>1, <2>2 DEF ReplyInv, NoUnansweredCall
<1>4. ASSUME NEW long \in BOOLEAN, RunTool(long) PROVE ReplyInv'
  <2> DEFINE u == Use(NextCall)
             r == Result(NextCall, long)
  <2>1. /\ phase = "tools" /\ phase' = "tools" /\ requests' = requests
        /\ Len(done) < 2 * Len(requests) /\ done' = done \o <<u, r>> /\ NextCall \in CallIds
    BY <1>0, <1>4, NextCallType DEF RunTool
  <2>2. PICK n \in Nat : Answers(n)
    BY <2>1 DEF ReplyInv
  <2>3. /\ Len(done) = 2 * n /\ n + 1 <= Len(requests) /\ n + 1 \in Nat
        /\ NextCall = requests[n + 1]
    <3> DEFINE m == Len(requests)
    <3>1. Len(done) = 2 * n /\ 2 * n < 2 * m
      BY <2>1, <2>2 DEF Answers
    <3>2. (2 * n) \div 2 = n /\ n + 1 \in Nat
      OBVIOUS
    <3>3. m \in Nat
      BY <1>0
    <3> HIDE DEF m
    <3>4. n + 1 <= m
      BY <3>1, <3>3
    <3>5. QED
      BY <3>1, <3>2, <3>4 DEF NextCall, m
  <2>4. u \in Entry /\ r \in Entry /\ r.kind = "result" /\ r.id = NextCall
    BY <2>1, EntryTypes DEF Use, Result
  <2> HIDE DEF u, r
  <2>5. /\ Len(done') = 2 * (n + 1)
        /\ \A k \in 1..(2 * n) : done'[k] = done[k]
        /\ done'[2 * (n + 1)] = r
    <3>1. <<u, r>> \in Seq(Entry) /\ Len(<<u, r>>) = 2 /\ <<u, r>>[2] = r
      BY <2>4
    <3>2. /\ Len(done') = Len(done) + 2
          /\ \A k \in 1..Len(done) : done'[k] = done[k]
          /\ done'[Len(done) + 2] = r
      BY <1>0, <2>1, <3>1, ConcatParts
    <3>3. 2 * (n + 1) = 2 * n + 2
      OBVIOUS
    <3>4. QED
      BY <2>3, <3>2, <3>3
  <2>6. ASSUME NEW k \in 1..(n + 1)
        PROVE  done'[2 * k].kind = "result" /\ done'[2 * k].id = requests'[k]
    <3>1. CASE k = n + 1
      BY <2>1, <2>3, <2>4, <2>5, <3>1
    <3>2. CASE k # n + 1
      <4>1. k \in 1..n /\ 2 * k \in 1..(2 * n)
        BY <3>2
      <4>2. done'[2 * k] = done[2 * k]
        BY <2>5, <4>1
      <4>3. QED
        BY <2>1, <2>2, <4>1, <4>2 DEF Answers
    <3>3. QED
      BY <3>1, <3>2
  <2>7. Answers(n + 1)'
    BY <2>1, <2>3, <2>5, <2>6 DEF Answers
  <2>8. QED
    BY <2>1, <2>3, <2>7 DEF ReplyInv, NoUnansweredCall
<1>5. CASE EndTurn
  <2>1. /\ phase = "tools" /\ phase' = "head" /\ Len(done) = 2 * Len(requests)
        /\ UNCHANGED <<done, requests>>
    BY <1>5 DEF EndTurn, reply
  <2>2. PICK n \in Nat : Answers(n)
    BY <2>1 DEF ReplyInv
  <2>3. n = Len(requests)
    <3> DEFINE m == Len(requests)
    <3>1. 2 * n = 2 * m /\ m \in Nat
      BY <1>0, <2>1, <2>2 DEF Answers
    <3> HIDE DEF m
    <3>2. n = m
      BY <3>1
    <3>3. QED
      BY <3>2 DEF m
  <2>4. \A k \in DOMAIN requests : done[2 * k].kind = "result" /\ done[2 * k].id = requests[k]
    BY <1>0, <2>2, <2>3 DEF Answers
  <2>5. QED
    BY <2>1, <2>4 DEF ReplyInv, NoUnansweredCall
<1>6. ASSUME phase' \notin {"start", "stream", "tools", "head"} PROVE ReplyInv'
  BY <1>6 DEF ReplyInv, NoUnansweredCall
<1>7. CASE LoopHead \/ Micro \/ AutoFails \/ FullFails \/ NotCalled \/ StreamThrows \/ Abandon
  BY <1>6, <1>7 DEF LoopHead, Micro, AutoFails, FullFails, NotCalled, StreamThrows, Abandon, End
<1>8. ASSUME NEW long \in BOOLEAN, AutoSummary(long) \/ Full(long) PROVE ReplyInv'
  BY <1>6, <1>8 DEF AutoSummary, Full
<1>9. CASE Chunk
  BY <1>9 DEF Chunk, ReplyInv, NoUnansweredCall
<1>10. CASE Abort \/ UNCHANGED vars
  <2>1. UNCHANGED <<phase, turn, requests, done>>
    BY <1>10 DEF Abort, reply, vars
  <2>2. QED
    BY <2>1 DEF ReplyInv, NoUnansweredCall, Answers
<1>11. CASE ClientLost
  BY <1>6, <1>11 DEF ClientLost
<1>12. QED
  BY <1>1, <1>2, <1>3, <1>4, <1>5, <1>7, <1>8, <1>9, <1>10, <1>11 DEF Next, Step

(* What the client is told of a run nests and ends, and no turn is         *)
(* followed by another before each of its calls has its own result.        *)
THEOREM RunsAreWellFormed == Spec => []RunWellFormed
<1>1. Init => EventInv /\ ReplyInv
  BY ClosedOnes DEF Init, EventInv, ReplyInv, NoUnansweredCall
<1>2. IInv /\ EventInv /\ ReplyInv /\ [Next]_vars => EventInv' /\ ReplyInv'
  BY EventStep, ReplyStep
<1>3. IInv /\ EventInv /\ ReplyInv => RunWellFormed
  BY EventsNested DEF IInv, ReplyInv, RunWellFormed
<1>4. QED
  BY <1>1, <1>2, <1>3, Invariance, PTL DEF Spec

-----------------------------------------------------------------------------
\* Hooks: the list of hooks, reloaded when a file changes, and its dispatches.

\* Each hook that failed blocks, when it is to abort, or is among the errors.
Counts(r) ==
  \A h \in r.failed :
    IF h.onFailure = "abort" /\ h.command \notin Blank THEN r.blocked ELSE h.command \in r.errors

\* A hook that was started is the next of the list, and not a blank one, and
\* only what is not observed is read; a file that was read holds what such a
\* file may hold.
RunTrue(r) ==
  /\ Counts(r)
  /\ r.at = "idle" => ~r.blocked
  /\ r.at \in {"write", "exit", "pipes"} => r.todo # << >> /\ Head(r.todo).command \notin Blank
  /\ r.at = "pipes" => ~r.blocked
  /\ r.at = "global" /\ r.seen # Unread => r.seen \in GlobalFiles
  /\ r.at = "project" /\ r.seen # Unread => r.seen \in ProjectFiles

\* While no change is to be reported or was reported in a reload, what was
\* read is what the files hold.
ReadersTrue ==
  ~notice /\ ~raced =>
    \A c \in Callers :
      /\ run[c].at = "global" /\ run[c].seen # Unread => run[c].seen = disk.global
      /\ run[c].at = "project" => cache.global = disk.global
      /\ run[c].at = "project" /\ run[c].seen # Unread => run[c].seen = disk.project

RestTrue ==
  ~dirty /\ ~SomeReload =>
    /\ merged = Merge(cache.global, cache.project)
    /\ ~notice /\ ~raced => cache = disk

HInv ==
  /\ HooksTypeOK
  /\ \A c \in Callers : RunTrue(run[c])
  /\ ReadersTrue /\ RestTrue

-----------------------------------------------------------------------------
\* Induction over the naturals, as the least counterexample.
LEMMA LeastOf ==
  ASSUME NEW T \in SUBSET Nat, T # {}
  PROVE  \E n \in T : \A m \in T : n <= m
<1>1. PICK x \in T : \A y \in T : <<y, x>> \notin OpToRel(<, Nat)
  BY WFMin, NatLessThanWellFounded, Zenon
<1>2. \A y \in T : ~(y < x)
  BY <1>1, Zenon DEF OpToRel
<1> QED  BY <1>2

\* What each value of f has of the one before it, all of them have.
LEMMA Climb ==
  ASSUME NEW S, NEW n \in Nat, NEW f, f[0] \in S,
         \A i \in 1..n : f[i - 1] \in S => f[i] \in S
  PROVE  \A i \in 0..n : f[i] \in S
<1> DEFINE T == {i \in 0..n : f[i] \notin S}
<1> SUFFICES ASSUME T # {} PROVE FALSE
  OBVIOUS
<1>1. PICK i \in T : \A k \in T : i <= k
  <2>1. T \in SUBSET Nat
    OBVIOUS
  <2> HIDE DEF T
  <2> QED  BY <2>1, LeastOf
<1>2. i # 0 /\ i \in 1..n /\ i - 1 \in 0..n
  OBVIOUS
<1>3. i - 1 \notin T
  BY <1>1, <1>2
<1> QED  BY <1>2, <1>3

\* f is the map of mergeHooks after each of the first n entries of all.
Merges(f, all, n) == f = [i \in 0..n |-> IF i = 0 THEN << >> ELSE Put(f[i - 1], all[i])]

LEMMA MergesLonger ==
  ASSUME NEW all, NEW n \in Nat, NEW f, Merges(f, all, n)
  PROVE  \E g : Merges(g, all, n + 1)
<1> DEFINE g == [i \in 0..(n + 1) |-> IF i \in 0..n THEN f[i] ELSE Put(f[i - 1], all[i])]
<1>1. \A i \in 0..n : f[i] = IF i = 0 THEN << >> ELSE Put(f[i - 1], all[i])
  BY DEF Merges
<1>2. \A i \in 0..(n + 1) : g[i] = IF i = 0 THEN << >> ELSE Put(g[i - 1], all[i])
  <2> TAKE i \in 0..(n + 1)
  <2>1. i # 0 => i - 1 \in 0..n /\ g[i - 1] = f[i - 1]
    OBVIOUS
  <2> QED  BY <1>1, <2>1
<1>3. g = [i \in 0..(n + 1) |-> g[i]]
  OBVIOUS
<1> HIDE DEF g
<1>4. g = [i \in 0..(n + 1) |-> IF i = 0 THEN << >> ELSE Put(g[i - 1], all[i])]
  BY <1>2, <1>3
<1> QED  BY <1>4 DEF Merges

LEMMA MergesExists ==
  ASSUME NEW all, NEW n \in Nat
  PROVE  \E f : Merges(f, all, n)
<1> DEFINE T == {m \in Nat : ~ \E f : Merges(f, all, m)}
<1> SUFFICES ASSUME T # {} PROVE FALSE
  OBVIOUS
<1>1. PICK m \in T : \A k \in T : m <= k
  BY LeastOf
<1>2. \E f : Merges(f, all, 0)
  <2> DEFINE f == [i \in 0..0 |-> << >>]
  <2>1. f = [i \in 0..0 |-> IF i = 0 THEN << >> ELSE Put(f[i - 1], all[i])]
    OBVIOUS
  <2> QED  BY <2>1 DEF Merges
<1>3. m # 0 /\ m \in Nat
  BY <1>2
<1>4. m - 1 \in Nat /\ m - 1 \notin T /\ (m - 1) + 1 = m
  BY <1>1, <1>3
<1>5. PICK f : Merges(f, all, m - 1)
  BY <1>4
<1>6. \E g : Merges(g, all, (m - 1) + 1)
  BY <1>4, <1>5, MergesLonger
<1> QED  BY <1>4, <1>6

LEMMA PutIsHooks ==
  ASSUME NEW map \in Seq(Hook), NEW hook \in Hook
  PROVE  Put(map, hook) \in Seq(Hook)
<1>1. Append(map, hook) \in Seq(Hook)
  OBVIOUS
<1>2. [k \in DOMAIN map |-> IF map[k].command = hook.command THEN hook ELSE map[k]] \in Seq(Hook)
  <2> DEFINE s == [k \in 1..Len(map) |-> IF map[k].command = hook.command THEN hook ELSE map[k]]
  <2>1. DOMAIN map = 1..Len(map) /\ Len(map) \in Nat /\ \A k \in 1..Len(map) : map[k] \in Hook
    OBVIOUS
  <2>2. s \in [1..Len(map) -> Hook]
    BY <2>1
  <2> HIDE DEF s
  <2>3. s \in Seq(Hook)
    BY <2>1, <2>2
  <2> QED  BY <2>1, <2>3 DEF s
<1> QED  BY <1>1, <1>2 DEF Put

\* The merge of two lists of hooks is a list of hooks.
LEMMA MergeIsHooks ==
  ASSUME NEW global \in Seq(Hook), NEW project \in Seq(Hook)
  PROVE  Merge(global, project) \in Seq(Hook)
<1> DEFINE all == global \o project
           n == Len(all)
           map == CHOOSE f : Merges(f, all, n)
<1>1. all \in Seq(Hook) /\ n \in Nat /\ \A i \in 1..n : all[i] \in Hook
  <2>1. all \in Seq(Hook)
    OBVIOUS
  <2> HIDE DEF all
  <2> QED  BY <2>1
<1>2. Merge(global, project) = map[n]
  BY DEF Merge, Merges
<1>3. Merges(map, all, n)
  <2>1. \E f : Merges(f, all, n)
    BY <1>1, MergesExists
  <2> HIDE DEF all, n
  <2> QED  BY <2>1
<1> HIDE DEF all, n, map
<1>4. \A i \in 0..n : map[i] = IF i = 0 THEN << >> ELSE Put(map[i - 1], all[i])
  BY <1>3 DEF Merges
<1>5. map[0] \in Seq(Hook)
  <2>1. map[0] = << >>
    BY <1>1, <1>4
  <2> QED  BY <2>1
<1>6. \A i \in 1..n : map[i - 1] \in Seq(Hook) => map[i] \in Seq(Hook)
  <2> TAKE i \in 1..n
  <2>1. i \in 0..n /\ i # 0 /\ all[i] \in Hook
    BY <1>1
  <2>2. map[i] = Put(map[i - 1], all[i])
    BY <1>4, <2>1
  <2>3. map[i - 1] \in Seq(Hook) => Put(map[i - 1], all[i]) \in Seq(Hook)
    BY <2>1, PutIsHooks
  <2> QED  BY <2>2, <2>3
<1>7. \A i \in 0..n : map[i] \in Seq(Hook)
  BY <1>1, <1>5, <1>6, Climb
<1> QED  BY <1>1, <1>2, <1>7

\* f has the enabled ones of each of the first n hooks.
Passes(f, hooks, n) ==
  f = [i \in 0..n |-> IF i = 0 THEN << >>
                      ELSE IF hooks[i].enabled THEN Append(f[i - 1], hooks[i]) ELSE f[i - 1]]

LEMMA PassesLonger ==
  ASSUME NEW hooks, NEW n \in Nat, NEW f, Passes(f, hooks, n)
  PROVE  \E g : Passes(g, hooks, n + 1)
<1> DEFINE next(h, i) == IF hooks[i].enabled THEN Append(h[i - 1], hooks[i]) ELSE h[i - 1]
           g == [i \in 0..(n + 1) |-> IF i \in 0..n THEN f[i] ELSE next(f, i)]
<1>1. \A i \in 0..n : f[i] = IF i = 0 THEN << >> ELSE next(f, i)
  BY DEF Passes
<1>2. \A i \in 0..(n + 1) : g[i] = IF i = 0 THEN << >> ELSE next(g, i)
  <2> TAKE i \in 0..(n + 1)
  <2>1. i # 0 => i - 1 \in 0..n /\ g[i - 1] = f[i - 1]
    OBVIOUS
  <2>2. i # 0 => next(g, i) = next(f, i)
    BY <2>1
  <2> QED  BY <1>1, <2>2
<1>3. g = [i \in 0..(n + 1) |-> g[i]]
  OBVIOUS
<1> HIDE DEF g
<1>4. g = [i \in 0..(n + 1) |-> IF i = 0 THEN << >> ELSE next(g, i)]
  BY <1>2, <1>3
<1> QED  BY <1>4 DEF Passes

LEMMA PassesExists ==
  ASSUME NEW hooks, NEW n \in Nat
  PROVE  \E f : Passes(f, hooks, n)
<1> DEFINE T == {m \in Nat : ~ \E f : Passes(f, hooks, m)}
<1> SUFFICES ASSUME T # {} PROVE FALSE
  OBVIOUS
<1>1. PICK m \in T : \A k \in T : m <= k
  BY LeastOf
<1>2. \E f : Passes(f, hooks, 0)
  <2> DEFINE f == [i \in 0..0 |-> << >>]
  <2>1. f = [i \in 0..0 |-> IF i = 0 THEN << >>
                            ELSE IF hooks[i].enabled THEN Append(f[i - 1], hooks[i]) ELSE f[i - 1]]
    OBVIOUS
  <2> QED  BY <2>1 DEF Passes
<1>3. m # 0 /\ m \in Nat
  BY <1>2
<1>4. m - 1 \in Nat /\ m - 1 \notin T /\ (m - 1) + 1 = m
  BY <1>1, <1>3
<1>5. PICK f : Passes(f, hooks, m - 1)
  BY <1>4
<1>6. \E g : Passes(g, hooks, (m - 1) + 1)
  BY <1>4, <1>5, PassesLonger
<1> QED  BY <1>4, <1>6

LEMMA EnabledIsHooks ==
  ASSUME NEW hooks \in Seq(Hook)
  PROVE  Enabled(hooks) \in Seq(Hook)
<1> DEFINE n == Len(hooks)
           passed == CHOOSE f : Passes(f, hooks, n)
<1>1. n \in Nat /\ \A i \in 1..n : hooks[i] \in Hook
  OBVIOUS
<1>2. Enabled(hooks) = passed[n]
  BY DEF Enabled, Passes
<1>3. Passes(passed, hooks, n)
  <2>1. \E f : Passes(f, hooks, n)
    BY <1>1, PassesExists
  <2> HIDE DEF n
  <2> QED  BY <2>1
<1> HIDE DEF n, passed
<1>4. \A i \in 0..n : passed[i] = IF i = 0 THEN << >>
                                  ELSE IF hooks[i].enabled THEN Append(passed[i - 1], hooks[i])
                                  ELSE passed[i - 1]
  BY <1>3 DEF Passes
<1>5. passed[0] \in Seq(Hook)
  <2>1. passed[0] = << >>
    BY <1>1, <1>4
  <2> QED  BY <2>1
<1>6. \A i \in 1..n : passed[i - 1] \in Seq(Hook) => passed[i] \in Seq(Hook)
  <2> TAKE i \in 1..n
  <2>0. i \in 0..n /\ i # 0 /\ hooks[i] \in Hook
    BY <1>1
  <2>a. passed[i] = IF hooks[i].enabled THEN Append(passed[i - 1], hooks[i]) ELSE passed[i - 1]
    BY <1>4, <2>0
  <2>1. passed[i] \in {passed[i - 1], Append(passed[i - 1], hooks[i])} /\ hooks[i] \in Hook
    BY <2>0, <2>a
  <2> DEFINE before == passed[i - 1]
             hook == hooks[i]
  <2>2. before \in Seq(Hook) /\ hook \in Hook => Append(before, hook) \in Seq(Hook)
    <3> HIDE DEF before, hook
    <3> QED  OBVIOUS
  <2> QED  BY <2>1, <2>2
<1>7. \A i \in 0..n : passed[i] \in Seq(Hook)
  BY <1>1, <1>5, <1>6, Climb
<1> QED  BY <1>1, <1>2, <1>7

-----------------------------------------------------------------------------
\* map has one hook of each command of the first n of all, the last of them.
Maps(map, all, n) ==
  /\ \A j, k \in DOMAIN map : map[j].command = map[k].command => j = k
  /\ \A k \in DOMAIN map : \E i \in 1..n :
        map[k] = all[i] /\ \A l \in 1..n : l > i => all[l].command # all[i].command
  /\ \A i \in 1..n : \E k \in DOMAIN map : map[k].command = all[i].command

LEMMA PutMaps ==
  ASSUME NEW all \in Seq(Hook), NEW n \in 1..Len(all), NEW map \in Seq(Hook), Maps(map, all, n - 1)
  PROVE  Maps(Put(map, all[n]), all, n)
<1> DEFINE hook == all[n]
           put == Put(map, hook)
<1>1. /\ n \in Nat /\ n >= 1 /\ hook \in Hook /\ DOMAIN map = 1..Len(map) /\ Len(map) \in Nat
      /\ \A i \in 1..n : i = n \/ i \in 1..(n - 1)
  OBVIOUS
<1>2. /\ \A j, k \in DOMAIN map : map[j].command = map[k].command => j = k
      /\ \A k \in DOMAIN map : \E i \in 1..(n - 1) :
            map[k] = all[i] /\ \A l \in 1..(n - 1) : l > i => all[l].command # all[i].command
      /\ \A i \in 1..(n - 1) : \E k \in DOMAIN map : map[k].command = all[i].command
  BY DEF Maps
<1>3. CASE \E k \in DOMAIN map : map[k].command = hook.command
  <2>1. put = [k \in DOMAIN map |-> IF map[k].command = hook.command THEN hook ELSE map[k]]
    BY <1>3 DEF Put
  <2>2. /\ DOMAIN put = DOMAIN map
        /\ \A k \in DOMAIN map : put[k] = IF map[k].command = hook.command THEN hook ELSE map[k]
        /\ \A k \in DOMAIN map : put[k].command = map[k].command
    BY <2>1
  <2>0. put = Put(map, all[n])
    OBVIOUS
  <2> HIDE DEF put
  <2>3. \A j, k \in DOMAIN put : put[j].command = put[k].command => j = k
    BY <1>2, <2>2
  <2>4. ASSUME NEW k \in DOMAIN put
        PROVE  \E i \in 1..n : put[k] = all[i] /\ \A l \in 1..n : l > i => all[l].command # all[i].command
    <3>1. CASE map[k].command = hook.command
      BY <1>1, <2>2, <2>4, <3>1
    <3>2. CASE map[k].command # hook.command
      <4>1. PICK i \in 1..(n - 1) :
              map[k] = all[i] /\ \A l \in 1..(n - 1) : l > i => all[l].command # all[i].command
        BY <1>2, <2>2, <2>4
      <4>2. i \in 1..n /\ put[k] = all[i] /\ all[i].command # hook.command
        BY <1>1, <2>2, <2>4, <3>2, <4>1
      <4>3. \A l \in 1..n : l > i => all[l].command # all[i].command
        BY <1>1, <4>1, <4>2
      <4> QED  BY <4>2, <4>3
    <3> QED  BY <3>1, <3>2
  <2>5. ASSUME NEW i \in 1..n PROVE \E k \in DOMAIN put : put[k].command = all[i].command
    <3>1. \E k \in DOMAIN map : map[k].command = all[i].command
      BY <1>1, <1>2, <1>3, <2>5
    <3> QED  BY <2>2, <3>1
  <2>6. Maps(put, all, n)
    <3> HIDE DEF hook
    <3> QED  BY <2>3, <2>4, <2>5 DEF Maps
  <2> QED  BY <2>0, <2>6
<1>4. CASE ~ \E k \in DOMAIN map : map[k].command = hook.command
  <2>1. put = Append(map, hook)
    BY <1>4 DEF Put
  <2>2. /\ DOMAIN put = 1..(Len(map) + 1) /\ put[Len(map) + 1] = hook
        /\ \A k \in DOMAIN map : k \in DOMAIN put /\ put[k] = map[k]
        /\ \A k \in DOMAIN put : k \in DOMAIN map \/ k = Len(map) + 1
    <3> HIDE DEF hook
    <3> QED  BY <1>1, <2>1
  <2>0. put = Put(map, all[n])
    OBVIOUS
  <2> HIDE DEF put
  <2>3. \A j, k \in DOMAIN put : put[j].command = put[k].command => j = k
    BY <1>2, <1>4, <2>2
  <2>4. ASSUME NEW k \in DOMAIN put
        PROVE  \E i \in 1..n : put[k] = all[i] /\ \A l \in 1..n : l > i => all[l].command # all[i].command
    <3>1. CASE k = Len(map) + 1
      BY <1>1, <2>2, <3>1
    <3>2. CASE k \in DOMAIN map
      <4>1. PICK i \in 1..(n - 1) :
              map[k] = all[i] /\ \A l \in 1..(n - 1) : l > i => all[l].command # all[i].command
        BY <1>2, <3>2
      <4>2. i \in 1..n /\ put[k] = all[i] /\ all[i].command # hook.command
        BY <1>1, <1>4, <2>2, <3>2, <4>1
      <4>3. \A l \in 1..n : l > i => all[l].command # all[i].command
        BY <1>1, <4>1, <4>2
      <4> QED  BY <4>2, <4>3
    <3> QED  BY <2>2, <2>4, <3>1, <3>2
  <2>5. ASSUME NEW i \in 1..n PROVE \E k \in DOMAIN put : put[k].command = all[i].command
    <3>1. CASE i = n
      <4>1. Len(map) + 1 \in DOMAIN put
        BY <1>1, <2>2
      <4> QED  BY <2>2, <3>1, <4>1
    <3>2. CASE i \in 1..(n - 1)
      <4>1. PICK k \in DOMAIN map : map[k].command = all[i].command
        BY <1>2, <3>2
      <4> QED  BY <2>2, <4>1
    <3> QED  BY <1>1, <2>5, <3>1, <3>2
  <2>6. Maps(put, all, n)
    <3> HIDE DEF hook
    <3> QED  BY <2>3, <2>4, <2>5 DEF Maps
  <2> QED  BY <2>0, <2>6
<1> QED  BY <1>3, <1>4

\* The merged list names each command once, with the hook that was listed last:
\* the project's, if it has one of that command (registry.ts:270-288).
THEOREM MergeIsLast ==
  ASSUME NEW global \in Seq(Hook), NEW project \in Seq(Hook)
  PROVE  Maps(Merge(global, project), global \o project, Len(global \o project))
<1> DEFINE all == global \o project
           n == Len(all)
           map == CHOOSE f : Merges(f, all, n)
<1>1. all \in Seq(Hook) /\ n \in Nat /\ \A i \in 1..n : all[i] \in Hook
  <2>1. all \in Seq(Hook)
    OBVIOUS
  <2> HIDE DEF all
  <2> QED  BY <2>1
<1>2. Merge(global, project) = map[n]
  BY DEF Merge, Merges
<1>3. Merges(map, all, n)
  <2>1. \E f : Merges(f, all, n)
    BY <1>1, MergesExists
  <2> HIDE DEF all, n
  <2> QED  BY <2>1
<1> DEFINE good == {i \in 0..n : map[i] \in Seq(Hook) /\ Maps(map[i], all, i)}
           count == [i \in 0..n |-> i]
<1> SUFFICES \A i \in 0..n : count[i] \in good
  BY <1>1, <1>2
<1> HIDE DEF all, n, map
<1>4. \A i \in 0..n : map[i] = IF i = 0 THEN << >> ELSE Put(map[i - 1], all[i])
  BY <1>3 DEF Merges
<1>5. count[0] \in good
  <2>1. map[0] = << >>
    BY <1>1, <1>4
  <2>2. << >> \in Seq(Hook) /\ Maps(<< >>, all, 0)
    BY DEF Maps
  <2>3. count[0] = 0 /\ 0 \in 0..n
    BY <1>1
  <2> QED  BY <2>1, <2>2, <2>3
<1>6. \A i \in 1..n : count[i - 1] \in good => count[i] \in good
  <2> SUFFICES ASSUME NEW i \in 1..n, count[i - 1] \in good PROVE count[i] \in good
    OBVIOUS
  <2>1. i \in 0..n /\ i # 0 /\ all[i] \in Hook /\ i - 1 \in 0..n
    BY <1>1
  <2>2. map[i] = Put(map[i - 1], all[i])
    BY <1>4, <2>1
  <2>3. map[i - 1] \in Seq(Hook) /\ Maps(map[i - 1], all, i - 1)
    BY <2>1
  <2>4. map[i] \in Seq(Hook)
    BY <2>1, <2>2, <2>3, PutIsHooks
  <2>5. Maps(map[i], all, i)
    <3>1. i \in 1..Len(all)
      BY DEF n
    <3> QED  BY <1>1, <2>2, <2>3, <3>1, PutMaps
  <2> QED  BY <2>1, <2>4, <2>5
<1> HIDE DEF good, count
<1> QED  BY <1>1, <1>5, <1>6, Climb

\* list has the enabled ones of the first n hooks, in their order: at says where
\* each of them is among the hooks.
Keeps(list, hooks, n) ==
  \E at \in [1..Len(list) -> 1..n] :
    /\ \A j, k \in 1..Len(list) : j < k => at[j] < at[k]
    /\ \A k \in 1..Len(list) : list[k] = hooks[at[k]]
    /\ \A i \in 1..n : hooks[i].enabled <=> \E k \in 1..Len(list) : at[k] = i

LEMMA KeepsNext ==
  ASSUME NEW hooks \in Seq(Hook), NEW n \in 1..Len(hooks), NEW list \in Seq(Hook), Keeps(list, hooks, n - 1)
  PROVE  Keeps(IF hooks[n].enabled THEN Append(list, hooks[n]) ELSE list, hooks, n)
<1> DEFINE hook == hooks[n]
           len == Len(list)
<1>1. /\ n \in Nat /\ n >= 1 /\ hook \in Hook /\ len \in Nat
      /\ \A i \in 1..n : i = n \/ i \in 1..(n - 1)
  OBVIOUS
<1>2. PICK at \in [1..len -> 1..(n - 1)] :
        /\ \A j, k \in 1..len : j < k => at[j] < at[k]
        /\ \A k \in 1..len : list[k] = hooks[at[k]]
        /\ \A i \in 1..(n - 1) : hooks[i].enabled <=> \E k \in 1..len : at[k] = i
  BY DEF Keeps
<1>3. CASE ~hook.enabled
  <2>1. at \in [1..len -> 1..n] /\ \A k \in 1..len : at[k] # n
    BY <1>1
  <2>2. \A i \in 1..n : hooks[i].enabled <=> \E k \in 1..len : at[k] = i
    BY <1>1, <1>2, <1>3, <2>1
  <2>3. Keeps(list, hooks, n)
    BY <1>2, <2>1, <2>2 DEF Keeps
  <2> QED  BY <1>3, <2>3
<1>4. CASE hook.enabled
  <2> DEFINE more == Append(list, hook)
             att == [k \in 1..(len + 1) |-> IF k \in 1..len THEN at[k] ELSE n]
  <2>1. /\ Len(more) = len + 1 /\ more[len + 1] = hook
        /\ \A k \in 1..len : more[k] = list[k]
        /\ \A k \in 1..(len + 1) : k \in 1..len \/ k = len + 1
    <3> HIDE DEF hook
    <3> QED  BY <1>1
  <2>2. /\ att \in [1..(len + 1) -> 1..n] /\ att[len + 1] = n /\ len + 1 \in 1..(len + 1)
        /\ \A k \in 1..len : k \in 1..(len + 1) /\ att[k] = at[k] /\ att[k] \in 1..(n - 1)
    <3> HIDE DEF hook, len
    <3>1. \A k \in 1..len : k \in 1..(len + 1) /\ at[k] \in 1..(n - 1) /\ at[k] \in 1..n
      BY <1>1
    <3>2. len + 1 \in 1..(len + 1) /\ len + 1 \notin 1..len /\ n \in 1..n
      BY <1>1
    <3> QED  BY <3>1, <3>2
  <2>0. more = IF hooks[n].enabled THEN Append(list, hooks[n]) ELSE list
    BY <1>4
  <2> HIDE DEF more, att
  <2>3. \A j, k \in 1..(len + 1) : j < k => att[j] < att[k]
    <3> TAKE j, k \in 1..(len + 1)
    <3> HAVE j < k
    <3>1. j \in 1..len
      BY <1>1
    <3>2. CASE k \in 1..len
      BY <1>2, <2>2, <3>1, <3>2
    <3>3. CASE k = len + 1
      BY <1>1, <2>2, <3>1, <3>3
    <3> QED  BY <2>1, <3>2, <3>3
  <2>4. \A k \in 1..(len + 1) : more[k] = hooks[att[k]]
    BY <1>2, <2>1, <2>2
  <2>5. ASSUME NEW i \in 1..n PROVE hooks[i].enabled <=> \E k \in 1..(len + 1) : att[k] = i
    <3>1. CASE i = n
      BY <1>4, <2>2, <3>1
    <3>2. CASE i \in 1..(n - 1)
      <4>1. hooks[i].enabled <=> \E k \in 1..len : at[k] = i
        BY <1>2, <3>2
      <4>2. (\E k \in 1..len : at[k] = i) <=> \E k \in 1..(len + 1) : att[k] = i
        BY <1>1, <2>1, <2>2, <3>2
      <4> QED  BY <4>1, <4>2
    <3> QED  BY <1>1, <2>5, <3>1, <3>2
  <2>6. Keeps(more, hooks, n)
    <3> HIDE DEF len, hook
    <3>1. att \in [1..Len(more) -> 1..n]
      BY <2>1, <2>2
    <3>2. \A i \in 1..n : hooks[i].enabled <=> \E k \in 1..Len(more) : att[k] = i
      BY <2>1, <2>5
    <3>3. /\ \A j, k \in 1..Len(more) : j < k => att[j] < att[k]
          /\ \A k \in 1..Len(more) : more[k] = hooks[att[k]]
      BY <2>1, <2>3, <2>4
    <3> QED  BY <3>1, <3>2, <3>3 DEF Keeps
  <2> QED  BY <2>0, <2>6
<1> QED  BY <1>3, <1>4

\* A dispatch runs the enabled hooks of the list, all of them, once and in its
\* order (registry.ts:124-130).
THEOREM EnabledIsExact ==
  ASSUME NEW hooks \in Seq(Hook)
  PROVE  Keeps(Enabled(hooks), hooks, Len(hooks))
<1> DEFINE n == Len(hooks)
           passed == CHOOSE f : Passes(f, hooks, n)
<1>1. n \in Nat /\ \A i \in 1..n : hooks[i] \in Hook
  OBVIOUS
<1>2. Enabled(hooks) = passed[n]
  BY DEF Enabled, Passes
<1>3. Passes(passed, hooks, n)
  <2>1. \E f : Passes(f, hooks, n)
    BY <1>1, PassesExists
  <2> HIDE DEF n
  <2> QED  BY <2>1
<1> DEFINE good == {i \in 0..n : passed[i] \in Seq(Hook) /\ Keeps(passed[i], hooks, i)}
           count == [i \in 0..n |-> i]
<1> SUFFICES \A i \in 0..n : count[i] \in good
  BY <1>1, <1>2
<1> HIDE DEF passed
<1>4. /\ passed[0] = << >>
      /\ \A i \in 1..n : passed[i] = IF hooks[i].enabled THEN Append(passed[i - 1], hooks[i])
                                     ELSE passed[i - 1]
  <2> HIDE DEF n
  <2>1. \A i \in 0..n : passed[i] = IF i = 0 THEN << >>
                                    ELSE IF hooks[i].enabled THEN Append(passed[i - 1], hooks[i])
                                    ELSE passed[i - 1]
    BY <1>3 DEF Passes
  <2>2. 0 \in 0..n /\ \A i \in 1..n : i \in 0..n /\ i # 0
    BY <1>1
  <2> QED  BY <2>1, <2>2
<1>5. count[0] \in good
  <2>1. << >> \in Seq(Hook) /\ Keeps(<< >>, hooks, 0)
    <3> DEFINE at == [k \in 1..0 |-> 0]
    <3>1. at \in [1..0 -> 1..0] /\ 1..0 = {} /\ Len(<< >>) = 0
      OBVIOUS
    <3> HIDE DEF at
    <3>2. at \in [1..Len(<< >>) -> 1..0] /\ 1..Len(<< >>) = {}
      BY <3>1
    <3>3. Keeps(<< >>, hooks, 0)
      BY <3>1, <3>2 DEF Keeps
    <3> QED  BY <3>3
  <2>2. count[0] = 0 /\ 0 \in 0..n
    BY <1>1
  <2> QED  BY <1>4, <2>1, <2>2
<1>6. \A i \in 1..n : count[i - 1] \in good => count[i] \in good
  <2> SUFFICES ASSUME NEW i \in 1..n, count[i - 1] \in good PROVE count[i] \in good
    OBVIOUS
  <2>1. i \in 0..n /\ hooks[i] \in Hook /\ i - 1 \in 0..n
    BY <1>1
  <2> DEFINE before == passed[i - 1]
             hook == hooks[i]
  <2>2. passed[i] = IF hook.enabled THEN Append(before, hook) ELSE before
    BY <1>4
  <2>3. before \in Seq(Hook) /\ Keeps(before, hooks, i - 1)
    BY <2>1
  <2>4. passed[i] \in Seq(Hook)
    <3>1. hook \in Hook
      BY <2>1
    <3> HIDE DEF before, hook
    <3> QED  BY <2>2, <2>3, <3>1
  <2>5. Keeps(passed[i], hooks, i)
    <3> HIDE DEF before
    <3> QED  BY <2>2, <2>3, KeepsNext
  <2> QED  BY <2>1, <2>4, <2>5
<1> HIDE DEF good, count, n
<1> QED  BY <1>1, <1>5, <1>6, Climb

-----------------------------------------------------------------------------
\* A dispatch after its next hook.
LEMMA OverIs ==
  ASSUME NEW r \in Run, r.todo # << >>, NEW h \in Hook, NEW failed \in BOOLEAN
  PROVE  /\ Over(r, h, failed) \in Run /\ Over(r, h, failed).at = "hook"
         /\ Over(r, h, failed).blocked = r.blocked /\ Over(r, h, failed).errors = r.errors
         /\ Over(r, h, failed).context = r.context
         /\ Over(r, h, failed).failed = IF failed /\ ~r.blocked THEN r.failed \cup {h} ELSE r.failed
<1> DEFINE gone == IF failed /\ ~r.blocked THEN r.failed \cup {h} ELSE r.failed
<1>1. Tail(r.todo) \in Seq(Hook) /\ gone \in SUBSET Hook
  <2>1. r.todo \in Seq(Hook) /\ r.failed \in SUBSET Hook
    BY DEF Run
  <2> QED  BY <2>1
<1>2. Over(r, h, failed) = [r EXCEPT !.at = "hook", !.todo = Tail(@), !.child = "none",
                                          !.kin = FALSE, !.failed = gone]
  BY DEF Over
<1> HIDE DEF gone
<1>3. /\ Over(r, h, failed) \in Run /\ Over(r, h, failed).at = "hook"
      /\ Over(r, h, failed).blocked = r.blocked /\ Over(r, h, failed).errors = r.errors
      /\ Over(r, h, failed).context = r.context /\ Over(r, h, failed).failed = gone
  BY <1>1, <1>2 DEF Run
<1> QED  BY <1>3 DEF gone

\* A failure counts: it is named, or it blocks.
LEMMA FailsIs ==
  ASSUME NEW r \in Run, Counts(r), r.todo # << >>, NEW h \in Hook, h.command \notin Blank
  PROVE  Fails(r, h) \in Run /\ RunTrue(Fails(r, h)) /\ Fails(r, h).at = "hook"
<1> DEFINE over == Over(r, h, TRUE)
<1>1. /\ over \in Run /\ over.at = "hook" /\ over.blocked = r.blocked /\ over.errors = r.errors
      /\ over.failed = IF r.blocked THEN r.failed ELSE r.failed \cup {h}
  BY OverIs
<1>2. h.command \in Commands /\ h.onFailure \in {"abort", "continue"}
  BY DEF Hook, Policies
<1>3. Fails(r, h) = IF h.onFailure = "abort" THEN [over EXCEPT !.blocked = TRUE]
                    ELSE [over EXCEPT !.errors = @ \cup {h.command}]
  BY DEF Fails
<1> HIDE DEF over
<1>4. CASE h.onFailure = "abort"
  <2>1. /\ Fails(r, h) \in Run /\ Fails(r, h).at = "hook" /\ Fails(r, h).blocked = TRUE
        /\ Fails(r, h).errors = r.errors /\ Fails(r, h).failed = over.failed
    BY <1>1, <1>3, <1>4 DEF Run
  <2> QED  BY <1>1, <1>4, <2>1 DEF RunTrue, Counts
<1>5. CASE h.onFailure # "abort"
  <2>1. r.errors \cup {h.command} \in SUBSET Commands
    BY <1>2 DEF Run
  <2>2. /\ Fails(r, h) \in Run /\ Fails(r, h).at = "hook" /\ Fails(r, h).blocked = r.blocked
        /\ Fails(r, h).errors = r.errors \cup {h.command} /\ Fails(r, h).failed = over.failed
    <3>1. Fails(r, h) = [over EXCEPT !.errors = r.errors \cup {h.command}]
      BY <1>1, <1>3, <1>5
    <3> QED  BY <1>1, <2>1, <3>1 DEF Run
  <2>3. \A g \in over.failed : g = h \/ g \in r.failed
    BY <1>1
  <2>4. Counts(Fails(r, h))
    BY <1>5, <2>2, <2>3 DEF Counts
  <2> QED  BY <2>2, <2>4 DEF RunTrue
<1> QED  BY <1>4, <1>5

LEMMA FailsToStartIs ==
  ASSUME NEW r \in Run, Counts(r), r.todo # << >>, NEW h \in Hook
  PROVE  /\ FailsToStart(r, h) \in Run /\ RunTrue(FailsToStart(r, h)) /\ FailsToStart(r, h).at = "hook"
         /\ r.blocked => FailsToStart(r, h).blocked
         /\ FailsToStart(r, h).context = r.context
<1> DEFINE gone == Over(r, h, TRUE)
           over == [gone EXCEPT !.errors = @ \cup {h.command}]
<1>1. /\ gone \in Run /\ gone.at = "hook" /\ gone.blocked = r.blocked /\ gone.errors = r.errors
      /\ gone.context = r.context
      /\ gone.failed = IF r.blocked THEN r.failed ELSE r.failed \cup {h}
  BY OverIs
<1>2. r.errors \cup {h.command} \in SUBSET Commands
  BY DEF Run, Hook
<1>3. FailsToStart(r, h) = IF h.onFailure = "abort" /\ h.command \notin Blank
                           THEN [over EXCEPT !.blocked = TRUE] ELSE over
  BY DEF FailsToStart
<1> HIDE DEF gone
<1>4. /\ over \in Run /\ over.at = "hook" /\ over.blocked = r.blocked
      /\ over.errors = r.errors \cup {h.command} /\ over.context = r.context
      /\ over.failed = IF r.blocked THEN r.failed ELSE r.failed \cup {h}
  BY <1>1, <1>2 DEF Run
<1> HIDE DEF over
<1>5. CASE h.onFailure = "abort" /\ h.command \notin Blank
  <2>1. /\ FailsToStart(r, h) \in Run /\ FailsToStart(r, h).at = "hook"
        /\ FailsToStart(r, h).blocked = TRUE /\ FailsToStart(r, h).errors = over.errors
        /\ FailsToStart(r, h).context = r.context /\ FailsToStart(r, h).failed = over.failed
    BY <1>3, <1>4, <1>5 DEF Run
  <2> QED  BY <1>4, <1>5, <2>1 DEF RunTrue, Counts
<1>6. CASE ~(h.onFailure = "abort" /\ h.command \notin Blank)
  <2>1. FailsToStart(r, h) = over
    BY <1>3, <1>6
  <2> QED  BY <1>4, <1>6, <2>1 DEF RunTrue, Counts
<1> QED  BY <1>5, <1>6

\* A reply is applied while nothing has blocked, so no failure has to.
LEMMA AppliesIs ==
  ASSUME NEW r \in Run, Counts(r), ~r.blocked, r.todo # << >>, NEW h \in Hook, NEW ans \in Answer
  PROVE  Applies(r, h, ans) \in Run /\ RunTrue(Applies(r, h, ans)) /\ Applies(r, h, ans).at = "hook"
<1> DEFINE over == Over(r, h, FALSE)
           told == [over EXCEPT !.blocked = ans.block]
<1>1. /\ over \in Run /\ over.at = "hook" /\ over.errors = r.errors
      /\ over.context = r.context /\ over.failed = r.failed
  BY OverIs
<1>2. ans.block \in BOOLEAN
  BY DEF Answer
<1>3. Applies(r, h, ans) = IF ans.change = "object" THEN [told EXCEPT !.context = Append(@, h.command)]
                             ELSE IF ans.change = "other" THEN [told EXCEPT !.errors = @ \cup {h.command}]
                             ELSE told
  BY DEF Applies
<1> HIDE DEF over
<1>4. /\ told \in Run /\ told.at = "hook" /\ told.errors = r.errors
      /\ told.context = r.context /\ told.failed = r.failed
  BY <1>1, <1>2 DEF Run
<1> HIDE DEF told
<1>5. r.errors \cup {h.command} \in SUBSET Commands /\ Append(r.context, h.command) \in Seq(Commands)
  <2>1. r.context \in Seq(Commands) /\ h.command \in Commands /\ r.errors \in SUBSET Commands
    BY DEF Run, Hook
  <2> QED  BY <2>1
<1>6. /\ Applies(r, h, ans) \in Run /\ Applies(r, h, ans).at = "hook"
      /\ r.errors \subseteq Applies(r, h, ans).errors
      /\ Applies(r, h, ans).failed = r.failed
  <2>1. CASE ans.change = "object"
    <3>1. Applies(r, h, ans) = [told EXCEPT !.context = Append(r.context, h.command)]
      BY <1>3, <1>4, <2>1
    <3> QED  BY <1>4, <1>5, <3>1 DEF Run
  <2>2. CASE ans.change = "other"
    <3>1. Applies(r, h, ans) = [told EXCEPT !.errors = r.errors \cup {h.command}]
      BY <1>3, <1>4, <2>2
    <3> QED  BY <1>4, <1>5, <3>1 DEF Run
  <2>3. CASE ans.change \notin {"object", "other"}
    BY <1>3, <1>4, <2>3
  <2> QED  BY <2>1, <2>2, <2>3
<1> QED  BY <1>6 DEF RunTrue, Counts

LEMMA EndedIs ==
  ASSUME NEW r \in Run, Counts(r), ~r.blocked, r.todo # << >>, NEW h \in Hook, h.command \notin Blank,
         NEW end \in Ending
  PROVE  Ended(r, h, end) \in Run /\ RunTrue(Ended(r, h, end)) /\ Ended(r, h, end).at = "hook"
<1>1. CASE end.kind = "reply"
  <2>1. end \in Answer
    BY <1>1 DEF Ending, Failure
  <2> QED  BY <1>1, <2>1, AppliesIs DEF Ended
<1>2. CASE end.kind # "reply"
  BY <1>2, FailsIs DEF Ended
<1> QED  BY <1>1, <1>2

-----------------------------------------------------------------------------
LEMMA RunIs ==
  ASSUME HInv, NEW c \in Callers
  PROVE  run[c] \in Run /\ RunTrue(run[c])
  BY DEF HInv, HooksTypeOK

\* The dispatch of c goes on to q, with its hooks.
LEMMA OneRun ==
  ASSUME HInv, NEW c \in Callers, NEW q \in Run, RunTrue(q), run' = [run EXCEPT ![c] = q],
         UNCHANGED << disk, notice, dirty, cache, merged, edits, raced >>, dispatches' \in 0..MaxDispatches,
         run[c].at \notin Sources, q.at \notin Sources
  PROVE  HInv'
<1>1. /\ run' \in [Callers -> Run]
      /\ \A d \in Callers : run'[d] = IF d = c THEN q ELSE run[d]
  BY DEF HInv, HooksTypeOK
<1>2. HooksTypeOK'
  BY <1>1 DEF HInv, HooksTypeOK
<1>3. \A d \in Callers : RunTrue(run'[d])
  BY <1>1, RunIs
<1>4. \A d \in Callers : run'[d].at \in Sources => run'[d] = run[d]
  BY <1>1
<1>5. SomeReload' = SomeReload
  BY <1>1 DEF SomeReload, Reloading
<1>6. ReadersTrue'
  BY <1>4 DEF HInv, ReadersTrue, Sources
<1>7. RestTrue'
  BY <1>5 DEF HInv, RestTrue
<1> QED  BY <1>2, <1>3, <1>6, <1>7 DEF HInv

\* What comes next on the list of a dispatch.
LEMMA HeadIs ==
  ASSUME NEW r \in Run, r.todo # << >>
  PROVE  Head(r.todo) \in Hook
<1>1. r.todo \in Seq(Hook)
  BY DEF Run
<1> QED  BY <1>1

LEMMA SpawnInv == ASSUME HInv, NEW c \in Callers, Spawn(c) PROVE HInv'
<1> DEFINE r == run[c] h == Head(run[c].todo)
<1>1. r \in Run /\ RunTrue(r) /\ r.at = "hook" /\ r.todo # << >>
  BY RunIs DEF Spawn
<1>2. h \in Hook
  BY <1>1, HeadIs
<1>3. UNCHANGED << disk, notice, dirty, cache, merged, edits, raced, dispatches >>
      /\ dispatches' \in 0..MaxDispatches
  BY DEF Spawn, registry, HInv, HooksTypeOK
<1>4. "hook" \notin Sources /\ "write" \notin Sources
  BY DEF Sources
<1>5. CASE run' = [run EXCEPT ![c] = FailsToStart(r, h)]
  BY <1>1, <1>2, <1>3, <1>4, <1>5, FailsToStartIs, OneRun DEF RunTrue
<1>6. ASSUME NEW child \in {"running", "stubborn"}, h.command \notin Blank,
             run' = [run EXCEPT ![c].at = "write", ![c].child = child]
      PROVE  HInv'
  <2> DEFINE q == [r EXCEPT !.at = "write", !.child = child]
  <2>1. /\ q \in Run /\ q.at = "write" /\ q.todo = r.todo /\ q.blocked = r.blocked
        /\ q.errors = r.errors /\ q.failed = r.failed
    BY <1>1 DEF Run
  <2>2. run' = [run EXCEPT ![c] = q]
    BY <1>6
  <2> HIDE DEF q
  <2>3. RunTrue(q)
    BY <1>1, <1>6, <2>1 DEF RunTrue, Counts
  <2> QED  BY <1>1, <1>3, <1>4, <2>1, <2>2, <2>3, OneRun
<1> QED  BY <1>5, <1>6 DEF Spawn

\* What ends outside the dispatch of c changes nothing of it but child and kin.
LEMMA OutsideRun ==
  ASSUME HInv, NEW c \in Callers, NEW child \in {"none", "running", "stubborn", "ended"},
         NEW kin \in BOOLEAN,
         run' = [run EXCEPT ![c] = [run[c] EXCEPT !.child = child, !.kin = kin]],
         UNCHANGED << disk, notice, dirty, cache, merged, edits, raced, dispatches >>
  PROVE  HInv'
<1> DEFINE q == [run[c] EXCEPT !.child = child, !.kin = kin]
<1>1. run[c] \in Run /\ RunTrue(run[c]) /\ run \in [Callers -> Run]
  BY RunIs DEF HInv, HooksTypeOK
<1>2. /\ q \in Run /\ q.at = run[c].at /\ q.todo = run[c].todo /\ q.blocked = run[c].blocked
      /\ q.errors = run[c].errors /\ q.failed = run[c].failed /\ q.seen = run[c].seen
  BY <1>1 DEF Run
<1>3. run' = [run EXCEPT ![c] = q]
  OBVIOUS
<1> HIDE DEF q
<1>4. RunTrue(q)
  BY <1>1, <1>2 DEF RunTrue, Counts
<1>5. \A d \in Callers : run'[d] = IF d = c THEN q ELSE run[d]
  BY <1>1, <1>3
<1>6. \A d \in Callers : run'[d].at = run[d].at /\ run'[d].seen = run[d].seen
  BY <1>2, <1>5
<1>7. SomeReload' = SomeReload
  BY <1>6 DEF SomeReload, Reloading
<1>8. HooksTypeOK'
  BY <1>1, <1>2, <1>3 DEF HInv, HooksTypeOK
<1>9. ReadersTrue' /\ RestTrue'
  BY <1>6, <1>7 DEF HInv, ReadersTrue, RestTrue
<1>10. \A d \in Callers : RunTrue(run'[d])
  BY <1>4, <1>5, RunIs
<1> QED  BY <1>8, <1>9, <1>10 DEF HInv

LEMMA ChildEndsInv == ASSUME HInv, NEW c \in Callers, ChildEnds(c) PROVE HInv'
<1>1. PICK kin \in BOOLEAN : run' = [run EXCEPT ![c].child = "ended", ![c].kin = kin]
  BY DEF ChildEnds
<1>2. run' = [run EXCEPT ![c] = [run[c] EXCEPT !.child = "ended", !.kin = kin]]
  BY <1>1 DEF HInv, HooksTypeOK
<1>3. UNCHANGED << disk, notice, dirty, cache, merged, edits, raced, dispatches >>
  BY DEF ChildEnds, registry
<1> QED  BY <1>2, <1>3, OutsideRun

LEMMA KinEndsInv == ASSUME HInv, NEW c \in Callers, KinEnds(c) PROVE HInv'
<1>1. run[c] \in Run
  BY RunIs
<1>2. run[c].child \in {"none", "running", "stubborn", "ended"}
  BY <1>1 DEF Run
<1>3. [run[c] EXCEPT !.kin = FALSE] = [run[c] EXCEPT !.child = run[c].child, !.kin = FALSE]
  BY <1>1 DEF Run
<1>4. run' = [run EXCEPT ![c] = [run[c] EXCEPT !.child = run[c].child, !.kin = FALSE]]
  BY <1>3 DEF KinEnds
<1>5. UNCHANGED << disk, notice, dirty, cache, merged, edits, raced, dispatches >>
  BY DEF KinEnds, registry
<1> QED  BY <1>2, <1>4, <1>5, OutsideRun

LEMMA WriteInv == ASSUME HInv, NEW c \in Callers, Write(c) PROVE HInv'
<1> DEFINE q == [run[c] EXCEPT !.at = "exit"]
<1>1. run[c] \in Run /\ RunTrue(run[c]) /\ run[c].at = "write"
  BY RunIs DEF Write
<1>2. /\ q \in Run /\ q.at = "exit" /\ q.todo = run[c].todo /\ q.blocked = run[c].blocked
      /\ q.errors = run[c].errors /\ q.failed = run[c].failed
  BY <1>1 DEF Run
<1>3. /\ run' = [run EXCEPT ![c] = q] /\ dispatches' \in 0..MaxDispatches
      /\ UNCHANGED << disk, notice, dirty, cache, merged, edits, raced >>
  BY DEF Write, registry, HInv, HooksTypeOK
<1> HIDE DEF q
<1>4. RunTrue(q)
  BY <1>1, <1>2 DEF RunTrue, Counts
<1> QED  BY <1>1, <1>2, <1>3, <1>4, OneRun DEF Sources

LEMMA WriteFailsInv == ASSUME HInv, NEW c \in Callers, WriteFails(c) PROVE HInv'
<1> DEFINE h == Head(run[c].todo)
<1>1. run[c] \in Run /\ RunTrue(run[c]) /\ run[c].at = "write"
  BY RunIs DEF WriteFails
<1>2. run[c].todo # << >> /\ h.command \notin Blank /\ Counts(run[c])
  BY <1>1 DEF RunTrue
<1>3. h \in Hook
  BY <1>1, <1>2, HeadIs
<1>4. /\ run' = [run EXCEPT ![c] = Fails(run[c], h)] /\ dispatches' \in 0..MaxDispatches
      /\ UNCHANGED << disk, notice, dirty, cache, merged, edits, raced >>
  BY DEF WriteFails, registry, HInv, HooksTypeOK
<1>5. Fails(run[c], h) \in Run /\ RunTrue(Fails(run[c], h)) /\ Fails(run[c], h).at = "hook"
  BY <1>1, <1>2, <1>3, FailsIs
<1> QED  BY <1>1, <1>4, <1>5, OneRun DEF Sources

LEMMA ExitedInv == ASSUME HInv, NEW c \in Callers, Exited(c) PROVE HInv'
<1> DEFINE r == run[c] h == Head(run[c].todo)
<1>1. r \in Run /\ RunTrue(r) /\ r.at = "exit"
  BY RunIs DEF Exited
<1>2. r.todo # << >> /\ h.command \notin Blank /\ Counts(r)
  BY <1>1 DEF RunTrue
<1>3. /\ dispatches' \in 0..MaxDispatches
      /\ UNCHANGED << disk, notice, dirty, cache, merged, edits, raced >>
  BY DEF Exited, registry, HInv, HooksTypeOK
<1>4. "hook" \notin Sources /\ "pipes" \notin Sources /\ "exit" \notin Sources
  BY DEF Sources
<1>5. CASE r.blocked
  <2>1. run' = [run EXCEPT ![c] = Over(r, h, FALSE)]
    BY <1>5 DEF Exited
  <2>2. /\ Over(r, h, FALSE) \in Run /\ Over(r, h, FALSE).at = "hook"
        /\ Over(r, h, FALSE).blocked = r.blocked /\ Over(r, h, FALSE).errors = r.errors
        /\ Over(r, h, FALSE).failed = r.failed
    BY <1>1, <1>2, HeadIs, OverIs
  <2>3. RunTrue(Over(r, h, FALSE))
    BY <1>2, <2>2 DEF RunTrue, Counts
  <2> QED  BY <1>1, <1>3, <1>4, <2>1, <2>2, <2>3, OneRun
<1>6. CASE ~r.blocked
  <2> DEFINE q == [r EXCEPT !.at = "pipes"]
  <2>1. /\ q \in Run /\ q.at = "pipes" /\ q.todo = r.todo /\ q.blocked = r.blocked
        /\ q.errors = r.errors /\ q.failed = r.failed
    BY <1>1 DEF Run
  <2>2. run' = [run EXCEPT ![c] = q]
    BY <1>6 DEF Exited
  <2> HIDE DEF q
  <2>3. RunTrue(q)
    BY <1>1, <1>6, <2>1 DEF RunTrue, Counts
  <2> QED  BY <1>1, <1>3, <1>4, <2>1, <2>2, <2>3, OneRun
<1> QED  BY <1>5, <1>6

LEMMA PipesReadInv == ASSUME HInv, NEW c \in Callers, PipesRead(c) PROVE HInv'
<1> DEFINE h == Head(run[c].todo)
<1>1. run[c] \in Run /\ RunTrue(run[c]) /\ run[c].at = "pipes"
  BY RunIs DEF PipesRead
<1>2. run[c].todo # << >> /\ h.command \notin Blank /\ Counts(run[c]) /\ ~run[c].blocked
  BY <1>1 DEF RunTrue
<1>3. h \in Hook
  BY <1>1, <1>2, HeadIs
<1>4. /\ dispatches' \in 0..MaxDispatches
      /\ UNCHANGED << disk, notice, dirty, cache, merged, edits, raced >>
  BY DEF PipesRead, registry, HInv, HooksTypeOK
<1>5. PICK ending \in Ending : run' = [run EXCEPT ![c] = Ended(run[c], h, ending)]
  BY DEF PipesRead
<1>6. /\ Ended(run[c], h, ending) \in Run /\ RunTrue(Ended(run[c], h, ending))
      /\ Ended(run[c], h, ending).at = "hook"
  BY <1>1, <1>2, <1>3, EndedIs
<1> QED  BY <1>1, <1>4, <1>5, <1>6, OneRun DEF Sources

LEMMA RestingIs == Resting \in Run /\ RunTrue(Resting)
  BY DEF Resting, Run, RunTrue, Counts

LEMMA SettledInv == ASSUME HInv, NEW c \in Callers, Settled(c) PROVE HInv'
<1>1. /\ run' = [run EXCEPT ![c] = Resting] /\ dispatches' \in 0..MaxDispatches
      /\ UNCHANGED << disk, notice, dirty, cache, merged, edits, raced >>
  BY DEF Settled, registry, HInv, HooksTypeOK
<1> QED  BY <1>1, RestingIs, OneRun DEF Settled, Sources, Resting

-----------------------------------------------------------------------------
\* The files and their watcher.
LEMMA EditInv == ASSUME HInv, NEW s \in Sources, Edit(s) PROVE HInv'
<1>1. /\ notice' = TRUE /\ edits' = edits + 1 /\ edits < MaxEdits
      /\ UNCHANGED << dirty, cache, merged, raced, run, dispatches >>
  BY DEF Edit
<1>2. disk' \in [global : GlobalFiles, project : ProjectFiles]
  <2>1. PICK f \in (IF s = "global" THEN GlobalFiles ELSE ProjectFiles) : disk' = [disk EXCEPT ![s] = f]
    BY DEF Edit
  <2>2. CASE s = "global"
    <3>1. disk' = [disk EXCEPT !.global = f] /\ f \in GlobalFiles
      BY <2>1, <2>2
    <3> QED  BY <3>1 DEF HInv, HooksTypeOK
  <2>3. CASE s = "project"
    <3>1. disk' = [disk EXCEPT !.project = f] /\ f \in ProjectFiles
      BY <2>1, <2>3
    <3> QED  BY <3>1 DEF HInv, HooksTypeOK
  <2> QED  BY <2>2, <2>3 DEF Sources
<1>3. HooksTypeOK'
  BY <1>1, <1>2, HooksAssumption DEF HInv, HooksTypeOK
<1>4. \A c \in Callers : RunTrue(run'[c])
  BY <1>1 DEF HInv
<1>5. ReadersTrue' /\ RestTrue'
  BY <1>1 DEF HInv, ReadersTrue, RestTrue, SomeReload, Reloading
<1> QED  BY <1>3, <1>4, <1>5 DEF HInv

LEMMA NoticedInv == ASSUME HInv, Noticed PROVE HInv'
<1>1. /\ notice' = FALSE /\ dirty' = TRUE /\ raced' = (raced \/ SomeReload)
      /\ UNCHANGED << disk, cache, merged, edits, run, dispatches >>
  BY DEF Noticed
<1>2. HooksTypeOK'
  <2>1. raced' \in BOOLEAN
    BY <1>1
  <2> QED  BY <1>1, <2>1 DEF HInv, HooksTypeOK
<1>3. \A c \in Callers : RunTrue(run'[c])
  BY <1>1 DEF HInv
<1>4. ReadersTrue'
  <2> SUFFICES ASSUME ~raced', NEW c \in Callers PROVE run[c].at \notin Sources
    BY <1>1 DEF ReadersTrue, Sources
  <2> QED  BY <1>1 DEF SomeReload, Reloading
<1>5. RestTrue'
  BY <1>1 DEF RestTrue
<1> QED  BY <1>2, <1>3, <1>4, <1>5 DEF HInv

\* A dispatch begins with a reload if the flag is set, and else with the list.
LEMMA DispatchInv == ASSUME HInv, NEW c \in Callers, Dispatch(c) PROVE HInv'
<1> DEFINE q == IF dirty THEN [Resting EXCEPT !.at = "global"]
                ELSE [Resting EXCEPT !.at = "hook", !.todo = Enabled(merged)]
<1>1. /\ run' = [run EXCEPT ![c] = q] /\ run[c].at = "idle"
      /\ raced' = (raced /\ (SomeReload \/ ~dirty))
      /\ dispatches < MaxDispatches /\ dispatches' = dispatches + 1
      /\ UNCHANGED << disk, notice, dirty, cache, merged, edits >>
  BY DEF Dispatch
<1>2. Enabled(merged) \in Seq(Hook)
  BY EnabledIsHooks DEF HInv, HooksTypeOK
<1>3. /\ q \in Run /\ q.at = (IF dirty THEN "global" ELSE "hook") /\ q.seen = Unread
      /\ q.failed = {} /\ ~q.blocked
  BY <1>2, RestingIs DEF Run, Resting
<1> HIDE DEF q
<1>4. RunTrue(q)
  BY <1>3 DEF RunTrue, Counts
<1>5. /\ run' \in [Callers -> Run]
      /\ \A d \in Callers : run'[d] = IF d = c THEN q ELSE run[d]
  BY <1>1, <1>3 DEF HInv, HooksTypeOK
<1>6. HooksTypeOK'
  <2>1. raced' \in BOOLEAN
    BY <1>1 DEF HInv, HooksTypeOK
  <2>2. dispatches' \in 0..MaxDispatches
    BY <1>1, HooksAssumption DEF HInv, HooksTypeOK
  <2> QED  BY <1>1, <1>5, <2>1, <2>2 DEF HInv, HooksTypeOK
<1>7. \A d \in Callers : RunTrue(run'[d])
  BY <1>4, <1>5, RunIs
<1>8. ReadersTrue'
  <2> SUFFICES ASSUME ~notice, ~raced', NEW d \in Callers
               PROVE  /\ run'[d].at = "global" /\ run'[d].seen # Unread => run'[d].seen = disk.global
                      /\ run'[d].at = "project" => cache.global = disk.global
                      /\ run'[d].at = "project" /\ run'[d].seen # Unread => run'[d].seen = disk.project
    BY <1>1 DEF ReadersTrue
  <2>1. CASE d = c
    BY <1>3, <1>5, <2>1
  <2>2. CASE d # c /\ ~raced
    BY <1>5, <2>2 DEF HInv, ReadersTrue
  <2>3. CASE d # c /\ ~SomeReload
    BY <1>5, <2>3 DEF SomeReload, Reloading, Sources
  <2> QED  BY <1>1, <2>1, <2>2, <2>3
<1>9. RestTrue'
  <2> SUFFICES ASSUME ~dirty, ~SomeReload'
               PROVE  /\ merged = Merge(cache.global, cache.project)
                      /\ ~notice /\ ~raced' => cache = disk
    BY <1>1 DEF RestTrue
  <2>1. ~SomeReload
    BY <1>1, <1>5 DEF SomeReload, Reloading, Sources
  <2> QED  BY <1>1, <2>1 DEF HInv, RestTrue
<1> QED  BY <1>6, <1>7, <1>8, <1>9 DEF HInv

LEMMA ReadSourceInv == ASSUME HInv, NEW c \in Callers, ReadSource(c) PROVE HInv'
<1>1. PICK f \in {disk[run[c].at], NoHooks} :
        /\ run' = [run EXCEPT ![c].seen = f]
        /\ raced' = (raced \/ f # disk[run[c].at])
  BY DEF ReadSource
<1> DEFINE q == [run[c] EXCEPT !.seen = f]
<1>2. /\ run[c] \in Run /\ RunTrue(run[c]) /\ run[c].at \in Sources
      /\ disk \in [global : GlobalFiles, project : ProjectFiles]
      /\ UNCHANGED << disk, notice, dirty, cache, merged, edits, dispatches >>
  BY RunIs DEF ReadSource, Reloading, HInv, HooksTypeOK
<1>3. f \in IF run[c].at = "global" THEN GlobalFiles ELSE ProjectFiles
  BY <1>2, HooksAssumption DEF Sources
<1>4. /\ q \in Run /\ q.at = run[c].at /\ q.seen = f /\ q.blocked = run[c].blocked
      /\ q.errors = run[c].errors /\ q.failed = run[c].failed /\ q.todo = run[c].todo
  BY <1>2, <1>3 DEF Run
<1>5. run' = [run EXCEPT ![c] = q]
  BY <1>1
<1> HIDE DEF q
<1>6. RunTrue(q)
  BY <1>2, <1>3, <1>4 DEF RunTrue, Counts, Sources
<1>7. /\ run' \in [Callers -> Run]
      /\ \A d \in Callers : run'[d] = IF d = c THEN q ELSE run[d]
  BY <1>4, <1>5 DEF HInv, HooksTypeOK
<1>8. HooksTypeOK'
  <2>1. raced' \in BOOLEAN
    BY <1>1 DEF HInv, HooksTypeOK
  <2> QED  BY <1>2, <1>7, <2>1 DEF HInv, HooksTypeOK
<1>9. \A d \in Callers : RunTrue(run'[d])
  BY <1>6, <1>7, RunIs
<1>10. SomeReload'
  BY <1>2, <1>4, <1>7 DEF SomeReload, Reloading
<1>11. ReadersTrue'
  <2> SUFFICES ASSUME ~notice, ~raced', NEW d \in Callers
               PROVE  /\ run'[d].at = "global" /\ run'[d].seen # Unread => run'[d].seen = disk.global
                      /\ run'[d].at = "project" => cache.global = disk.global
                      /\ run'[d].at = "project" /\ run'[d].seen # Unread => run'[d].seen = disk.project
    BY <1>2 DEF ReadersTrue
  <2>1. ~raced /\ f = disk[run[c].at]
    BY <1>1
  <2>2. /\ run[d].at = "global" /\ run[d].seen # Unread => run[d].seen = disk.global
        /\ run[d].at = "project" => cache.global = disk.global
        /\ run[d].at = "project" /\ run[d].seen # Unread => run[d].seen = disk.project
    BY <2>1 DEF HInv, ReadersTrue
  <2>3. CASE d = c
    BY <1>4, <1>7, <2>1, <2>2, <2>3
  <2>4. CASE d # c
    BY <1>7, <2>2, <2>4
  <2> QED  BY <2>3, <2>4
<1>12. RestTrue'
  BY <1>10 DEF RestTrue
<1> QED  BY <1>8, <1>9, <1>11, <1>12 DEF HInv

LEMMA GlobalReadInv == ASSUME HInv, NEW c \in Callers, GlobalRead(c) PROVE HInv'
<1> DEFINE q == [run[c] EXCEPT !.at = "project", !.seen = Unread]
<1>1. /\ run' = [run EXCEPT ![c] = q] /\ cache' = [cache EXCEPT !.global = run[c].seen]
      /\ run[c].at = "global" /\ run[c].seen # Unread
      /\ UNCHANGED << disk, notice, dirty, merged, raced, edits, dispatches >>
  BY DEF GlobalRead
<1>2. /\ run[c] \in Run /\ RunTrue(run[c]) /\ run[c].seen \in GlobalFiles
      /\ cache \in [global : GlobalFiles, project : ProjectFiles]
  BY <1>1, RunIs DEF RunTrue, HInv, HooksTypeOK
<1>3. /\ q \in Run /\ q.at = "project" /\ q.seen = Unread /\ q.blocked = run[c].blocked
      /\ q.errors = run[c].errors /\ q.failed = run[c].failed
  BY <1>2 DEF Run
<1> HIDE DEF q
<1>4. RunTrue(q)
  BY <1>2, <1>3 DEF RunTrue, Counts
<1>5. /\ run' \in [Callers -> Run]
      /\ \A d \in Callers : run'[d] = IF d = c THEN q ELSE run[d]
  BY <1>1, <1>3 DEF HInv, HooksTypeOK
<1>6. cache' \in [global : GlobalFiles, project : ProjectFiles] /\ cache'.global = run[c].seen
  BY <1>1, <1>2
<1>7. HooksTypeOK'
  BY <1>1, <1>5, <1>6 DEF HInv, HooksTypeOK
<1>8. \A d \in Callers : RunTrue(run'[d])
  BY <1>4, <1>5, RunIs
<1>9. SomeReload'
  BY <1>3, <1>5 DEF SomeReload, Reloading, Sources
<1>10. ReadersTrue'
  <2> SUFFICES ASSUME ~notice, ~raced, NEW d \in Callers
               PROVE  /\ run'[d].at = "global" /\ run'[d].seen # Unread => run'[d].seen = disk.global
                      /\ run'[d].at = "project" => cache'.global = disk.global
                      /\ run'[d].at = "project" /\ run'[d].seen # Unread => run'[d].seen = disk.project
    BY <1>1 DEF ReadersTrue
  <2>1. cache'.global = disk.global
    BY <1>1, <1>6 DEF HInv, ReadersTrue
  <2>2. CASE d = c
    BY <1>3, <1>5, <2>1, <2>2
  <2>3. CASE d # c
    BY <1>5, <2>1, <2>3 DEF HInv, ReadersTrue
  <2> QED  BY <2>2, <2>3
<1>11. RestTrue'
  BY <1>9 DEF RestTrue
<1> QED  BY <1>7, <1>8, <1>10, <1>11 DEF HInv

\* The end of a reload: the flag is cleared, whatever else was reported.
LEMMA ReloadedInv == ASSUME HInv, NEW c \in Callers, Reloaded(c) PROVE HInv'
<1> DEFINE q == [run[c] EXCEPT !.at = "hook", !.seen = Unread, !.todo = Enabled(merged')]
<1>1. /\ run' = [run EXCEPT ![c] = q] /\ cache' = [cache EXCEPT !.project = run[c].seen]
      /\ merged' = Merge(cache.global, run[c].seen) /\ dirty' = FALSE
      /\ run[c].at = "project" /\ run[c].seen # Unread
      /\ UNCHANGED << disk, notice, raced, edits, dispatches >>
  BY DEF Reloaded
<1>2. /\ run[c] \in Run /\ RunTrue(run[c]) /\ run[c].seen \in ProjectFiles
      /\ cache \in [global : GlobalFiles, project : ProjectFiles]
      /\ disk \in [global : GlobalFiles, project : ProjectFiles]
  BY <1>1, RunIs DEF RunTrue, HInv, HooksTypeOK
<1>3. merged' \in Seq(Hook)
  <2>1. cache.global \in Seq(Hook) /\ run[c].seen \in Seq(Hook)
    BY <1>2, HooksAssumption
  <2> QED  BY <1>1, <2>1, MergeIsHooks
<1>4. Enabled(merged') \in Seq(Hook)
  BY <1>3, EnabledIsHooks
<1>5. /\ q \in Run /\ q.at = "hook" /\ q.blocked = run[c].blocked
      /\ q.errors = run[c].errors /\ q.failed = run[c].failed
  BY <1>2, <1>4 DEF Run
<1> HIDE DEF q
<1>6. RunTrue(q)
  BY <1>2, <1>5 DEF RunTrue, Counts
<1>7. /\ run' \in [Callers -> Run]
      /\ \A d \in Callers : run'[d] = IF d = c THEN q ELSE run[d]
  BY <1>1, <1>5 DEF HInv, HooksTypeOK
<1>8. /\ cache' \in [global : GlobalFiles, project : ProjectFiles]
      /\ cache'.project = run[c].seen /\ cache'.global = cache.global
  BY <1>1, <1>2
<1>9. HooksTypeOK'
  BY <1>1, <1>3, <1>7, <1>8 DEF HInv, HooksTypeOK
<1>10. \A d \in Callers : RunTrue(run'[d])
  BY <1>6, <1>7, RunIs
<1>11. ReadersTrue'
  BY <1>1, <1>5, <1>7, <1>8 DEF HInv, ReadersTrue
<1>12. RestTrue'
  <2>1. merged' = Merge(cache'.global, cache'.project)
    BY <1>1, <1>8
  <2>2. ~notice /\ ~raced => cache' = disk
    <3>1. ~notice /\ ~raced => cache'.global = disk.global /\ cache'.project = disk.project
      BY <1>1, <1>8 DEF HInv, ReadersTrue
    <3> QED  BY <1>2, <1>8, <3>1
  <2> QED  BY <1>1, <2>1, <2>2 DEF RestTrue
<1> QED  BY <1>9, <1>10, <1>11, <1>12 DEF HInv

-----------------------------------------------------------------------------
LEMMA HInit == HooksInit => HInv
<1> SUFFICES ASSUME HooksInit PROVE HInv
  OBVIOUS
<1>1. HooksTypeOK
  <2>1. cache \in [global : GlobalFiles, project : ProjectFiles]
    BY HooksAssumption DEF HooksInit
  <2>2. merged \in Seq(Hook)
    BY DEF HooksInit
  <2>3. run \in [Callers -> Run]
    BY RestingIs DEF HooksInit
  <2>4. edits \in 0..MaxEdits /\ dispatches \in 0..MaxDispatches
    BY HooksAssumption DEF HooksInit
  <2>5. /\ disk \in [global : GlobalFiles, project : ProjectFiles]
        /\ notice \in BOOLEAN /\ dirty \in BOOLEAN /\ raced \in BOOLEAN
    BY DEF HooksInit
  <2> QED  BY <2>1, <2>2, <2>3, <2>4, <2>5 DEF HooksTypeOK
<1>2. \A c \in Callers : RunTrue(run[c]) /\ run[c].at = "idle"
  BY RestingIs DEF HooksInit, Resting
<1>3. ReadersTrue /\ RestTrue
  BY <1>2 DEF HooksInit, ReadersTrue, RestTrue
<1> QED  BY <1>1, <1>2, <1>3 DEF HInv

LEMMA HStutter == HInv /\ UNCHANGED hooksVars => HInv'
  BY DEF HInv, HooksTypeOK, ReadersTrue, RestTrue, SomeReload, Reloading, hooksVars, registry

LEMMA HStep == HInv /\ [HooksNext]_hooksVars => HInv'
<1> SUFFICES ASSUME HInv, [HooksNext]_hooksVars PROVE HInv'
  OBVIOUS
<1>1. CASE UNCHANGED hooksVars
  BY <1>1, HStutter
<1>2. ASSUME NEW s \in Sources, Edit(s) PROVE HInv'
  BY <1>2, EditInv
<1>3. CASE Noticed
  BY <1>3, NoticedInv
<1>4. ASSUME NEW c \in Callers, Dispatch(c) \/ ReadSource(c) \/ GlobalRead(c) \/ Reloaded(c) PROVE HInv'
  BY <1>4, DispatchInv, ReadSourceInv, GlobalReadInv, ReloadedInv
<1>5. ASSUME NEW c \in Callers, Spawn(c) \/ ChildEnds(c) \/ KinEnds(c) \/ Write(c)
                                \/ WriteFails(c) \/ Exited(c) \/ PipesRead(c) \/ Settled(c)
      PROVE  HInv'
  BY <1>5, SpawnInv, ChildEndsInv, KinEndsInv, WriteInv, WriteFailsInv, ExitedInv, PipesReadInv,
     SettledInv
<1> QED  BY <1>1, <1>2, <1>3, <1>4, <1>5 DEF HooksNext

LEMMA HooksInvariant == HooksSpec => []HInv
<1>1. HooksInit => HInv
  BY HInit
<1>2. HInv /\ [HooksNext]_hooksVars => HInv'
  BY HStep
<1> QED  BY <1>1, <1>2, PTL DEF HooksSpec

\* A hook that failed is named, or blocks, for any lists of hooks.
THEOREM DispatchIsHonest == HooksSpec => []DispatchHonest
<1>1. HInv => DispatchHonest
  BY DEF HInv, RunTrue, Counts, DispatchHonest, FailuresCount
<1> QED  BY <1>1, HooksInvariant, PTL

\* A registry at rest serves the merge of what the files hold, unless a change
\* was reported, or a read failed, in a reload.
THEOREM StaleByRaceOnly == HooksSpec => []StaleOnlyByRace
<1>1. HInv => StaleOnlyByRace
  BY DEF HInv, RestTrue, StaleOnlyByRace
<1> QED  BY <1>1, HooksInvariant, PTL

\* Once a hook has blocked, neither the decision nor the context changes.
THEOREM BlockedStaysSo == HooksSpec => BlockedStays
<1>1. ASSUME HInv, [HooksNext]_hooksVars, NEW c \in Callers, run[c].blocked, run'[c].at # "idle"
      PROVE  run'[c].blocked /\ run'[c].context = run[c].context
  <2>0. run \in [Callers -> Run] /\ run[c] \in Run /\ RunTrue(run[c]) /\ run[c].at # "idle"
    BY <1>1, RunIs DEF HInv, HooksTypeOK, RunTrue
  <2>1. CASE run'[c] = run[c]
    BY <1>1, <2>1
  <2>2. CASE UNCHANGED hooksVars \/ Noticed \/ \E s \in Sources : Edit(s)
    BY <2>1, <2>2 DEF hooksVars, Noticed, Edit
  <2>3. ASSUME NEW d \in Callers, Dispatch(d) \/ Settled(d)
        PROVE  run'[c].blocked /\ run'[c].context = run[c].context
    <3>1. CASE d # c
      <4>1. run'[c] = run[c]
        BY <2>0, <2>3, <3>1 DEF Dispatch, Settled
      <4> QED  BY <2>1, <4>1
    <3>2. CASE d = c
      BY <1>1, <2>0, <2>3, <3>2 DEF Dispatch, Settled, Resting
    <3> QED  BY <3>1, <3>2
  <2>4. ASSUME NEW d \in Callers, ReadSource(d) \/ GlobalRead(d) \/ Reloaded(d)
        PROVE  run'[c].blocked /\ run'[c].context = run[c].context
    <3>1. CASE ReadSource(d)
      <4>1. PICK f : run' = [run EXCEPT ![d].seen = f]
        BY <3>1 DEF ReadSource
      <4> QED  BY <1>1, <2>0, <4>1 DEF Run
    <3>2. CASE GlobalRead(d)
      <4>1. run' = [run EXCEPT ![d].at = "project", ![d].seen = Unread]
        BY <3>2 DEF GlobalRead
      <4> QED  BY <1>1, <2>0, <4>1 DEF Run
    <3>3. CASE Reloaded(d)
      <4>1. run' = [run EXCEPT ![d].at = "hook", ![d].seen = Unread, ![d].todo = Enabled(merged')]
        BY <3>3 DEF Reloaded
      <4> QED  BY <1>1, <2>0, <4>1 DEF Run
    <3> QED  BY <2>4, <3>1, <3>2, <3>3
  <2>5. ASSUME NEW d \in Callers, Write(d) \/ ChildEnds(d) \/ KinEnds(d)
        PROVE  run'[c].blocked /\ run'[c].context = run[c].context
    <3>1. CASE Write(d)
      <4>1. run' = [run EXCEPT ![d].at = "exit"]
        BY <3>1 DEF Write
      <4> QED  BY <1>1, <2>0, <4>1 DEF Run
    <3>2. CASE ChildEnds(d)
      <4>1. PICK kin \in BOOLEAN : run' = [run EXCEPT ![d].child = "ended", ![d].kin = kin]
        BY <3>2 DEF ChildEnds
      <4> QED  BY <1>1, <2>0, <4>1 DEF Run
    <3>3. CASE KinEnds(d)
      <4>1. run' = [run EXCEPT ![d].kin = FALSE]
        BY <3>3 DEF KinEnds
      <4> QED  BY <1>1, <2>0, <4>1 DEF Run
    <3> QED  BY <2>5, <3>1, <3>2, <3>3
  <2>6. ASSUME NEW d \in Callers, Spawn(d)
        PROVE  run'[c].blocked /\ run'[c].context = run[c].context
    <3>0. run[d] \in Run /\ RunTrue(run[d]) /\ run[d].todo # << >>
      BY <1>1, <2>6, RunIs DEF Spawn
    <3>1. Head(run[d].todo) \in Hook
      BY <3>0, HeadIs
    <3>2. CASE run' = [run EXCEPT ![d] = FailsToStart(run[d], Head(run[d].todo))]
      <4>1. /\ run[d].blocked => FailsToStart(run[d], Head(run[d].todo)).blocked
            /\ FailsToStart(run[d], Head(run[d].todo)).context = run[d].context
        BY <3>0, <3>1, FailsToStartIs DEF RunTrue
      <4> QED  BY <1>1, <2>0, <3>2, <4>1
    <3>3. ASSUME NEW child, run' = [run EXCEPT ![d].at = "write", ![d].child = child]
          PROVE  run'[c].blocked /\ run'[c].context = run[c].context
      BY <1>1, <2>0, <3>3 DEF Run
    <3> QED  BY <2>6, <3>2, <3>3 DEF Spawn
  <2>7. ASSUME NEW d \in Callers, WriteFails(d)
        PROVE  run'[c].blocked /\ run'[c].context = run[c].context
    <3>1. d # c /\ \E q : run' = [run EXCEPT ![d] = q]
      BY <1>1, <2>7 DEF WriteFails
    <3>2. run'[c] = run[c]
      BY <2>0, <3>1
    <3> QED  BY <2>1, <3>2
  <2>8. ASSUME NEW d \in Callers, Exited(d)
        PROVE  run'[c].blocked /\ run'[c].context = run[c].context
    <3>0. run[d] \in Run /\ RunTrue(run[d]) /\ run[d].at = "exit"
      BY <1>1, <2>8, RunIs DEF Exited
    <3>1. run[d].todo # << >> /\ Head(run[d].todo).command \notin Blank /\ Counts(run[d])
      BY <3>0 DEF RunTrue
    <3>2. Head(run[d].todo) \in Hook
      BY <3>0, <3>1, HeadIs
    <3>3. CASE run[d].blocked
      <4>1. run' = [run EXCEPT ![d] = Over(run[d], Head(run[d].todo), FALSE)]
        BY <2>8, <3>3 DEF Exited
      <4>2. /\ Over(run[d], Head(run[d].todo), FALSE).blocked = run[d].blocked
            /\ Over(run[d], Head(run[d].todo), FALSE).context = run[d].context
        BY <3>0, <3>1, <3>2, OverIs
      <4> QED  BY <1>1, <2>0, <4>1, <4>2
    <3>4. CASE ~run[d].blocked
      <4>1. run'[c] = run[c]
        BY <1>1, <2>0, <2>8, <3>4 DEF Exited
      <4> QED  BY <2>1, <4>1
    <3> QED  BY <3>3, <3>4
  <2>9. ASSUME NEW d \in Callers, PipesRead(d)
        PROVE  run'[c].blocked /\ run'[c].context = run[c].context
    <3>1. ~run[d].blocked
      BY <1>1, <2>9, RunIs DEF PipesRead, RunTrue
    <3>2. d # c /\ \E q : run' = [run EXCEPT ![d] = q]
      BY <1>1, <2>9, <3>1 DEF PipesRead
    <3>3. run'[c] = run[c]
      BY <2>0, <3>2
    <3> QED  BY <2>1, <3>3
  <2> QED  BY <1>1, <2>2, <2>3, <2>4, <2>5, <2>6, <2>7, <2>8, <2>9 DEF HooksNext
<1>2. HInv /\ [HooksNext]_hooksVars =>
        [\A c \in Callers :
           run[c].blocked /\ run'[c].at # "idle" =>
             run'[c].blocked /\ run'[c].context = run[c].context]_hooksVars
  BY <1>1
<1> QED  BY <1>2, HooksInvariant, PTL DEF HooksSpec, BlockedStays
=============================================================================
