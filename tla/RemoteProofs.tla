---------------------------- MODULE RemoteProofs ----------------------------
(***************************************************************************)
(* Proofs about the two parts that wait for another machine.  McpClient    *)
(* and the manager over it: for any number of callers, tools, transports   *)
(* and attempts, each wait is heard and given its own answer, the          *)
(* manager's list is the registry's, and no transport is left connected    *)
(* behind the client's back.  Providers, from Shapes on: an adapter is     *)
(* cached for the configuration it was verified with, and what a reader    *)
(* gets is what its stream sent.                                           *)
(***************************************************************************)
EXTENDS McpManager, Providers,
        FiniteSetTheorems, SequenceTheorems, WellFoundedInduction, TLAPS

Clients == {cl \in [transport : Transports \cup {NoTransport}, ready : BOOLEAN,
                    cache : SUBSET SUBSET Tools, dirty : BOOLEAN] :
                cl.cache = {} \/ \E l \in SUBSET Tools : cl.cache = {l}}

LinksOf == {ls \in [Transports -> [connected : BOOLEAN,
                                   child : {"unused", "starting", "live", "dead"}]] :
                ~ls[Refused].connected}

Replies == [to : SUBSET Pending, list : SUBSET Tools]

\* The frames that may lie under one that is at `at`: what waits for a
\* disconnect waits for nothing else, and a frame that waits for a timer, a
\* process or the other end calls nothing.
CalledFrom(at) ==
    IF at = "closing" THEN {"dropping", "disconnecting"}
    ELSE {"joining", "mending", "ensuring", "handshake", "listing", "connecting",
          "discovering", "calling"}

Stacks == {s \in Seq(Frame) :
               \A j \in 1..Len(s) - 1 : s[j + 1].at \in CalledFrom(s[j].at)}

\* The types, with the sizes and the shapes that the steps rely on.
TypeInv ==
    /\ kind \in {"stdio", "http"}
    /\ client \in Clients
    /\ links \in LinksOf
    /\ pending \subseteq Pending
    /\ asked \subseteq Pending /\ IsFiniteSet(asked)
    /\ offered \subseteq Tools
    /\ stack \in [Callers -> Stacks]
    /\ ret \in [Callers -> Returned \cup {NoRet}]
    /\ reply \in [Callers -> Replies]

\* A pending request is the one its caller waits for, in all its parts, and
\* each caller that waits has one.
Heard(p) == Waiting(p.c) /\ p = Own(p.c)
HeardInv == /\ \A p \in pending : Heard(p)
            /\ \A c \in Callers : Waiting(c) => \E p \in pending : p.c = c

\* An id names one request, on whichever side it is still known.
OneId == \A p, q \in pending \cup asked : p.t = q.t /\ p.id = q.id => p = q

ClientInv == TypeInv /\ HeardInv /\ OneId /\ AnswerIsOwn

\* No connected transport but the client's own and those given up with.
Stray(cl, ls) == \A t \in Transports : ls[t].connected => cl.transport = t \/ t \in abandoned

\* What the top of a stack says of the client, of which nobody else disposes.
TopTrue(c) ==
    /\ At(c, "opening") => client.transport = Top(c).t
    /\ At(c, "closing") => client.transport = Top(c).t /\ ~links[Top(c).t].connected
    /\ At(c, "dropping") \/ At(c, "disconnecting") => client.transport = NoTransport

AloneInv ==
    /\ ~overlapped =>
           /\ Stray(client, links)
           /\ \A c \in Callers : TopTrue(c)
           /\ \A c, d \in Callers : ~Idle(c) /\ ~Idle(d) => c = d
    /\ begun = 0 => /\ \A c \in Callers : Idle(c)
                    /\ \A t \in Transports : ~links[t].connected

ManagerInv ==
    /\ begun \in 0..MaxOperations /\ overlapped \in BOOLEAN /\ abandoned \subseteq Transports
    /\ known \subseteq Tools /\ error \in BOOLEAN /\ registry \subseteq Tools
    /\ known \subseteq registry

IInv == ClientInv /\ AloneInv /\ ManagerInv

-----------------------------------------------------------------------------
\* A frame is pushed on a stack of its callers.
LEMMA Push ==
    ASSUME NEW f \in Frame, NEW k \in Stacks,
           k = <<>> \/ Head(k).at \in CalledFrom(f.at)
    PROVE  /\ <<f>> \o k \in Stacks
           /\ <<f>> \o k # <<>> /\ Head(<<f>> \o k) = f
<1> DEFINE s == <<f>> \o k
<1>1. <<f>> \in Seq(Frame) /\ k \in Seq(Frame) /\ Len(<<f>>) = 1 /\ <<f>>[1] = f
    BY DEF Stacks
<1>2. /\ s \in Seq(Frame) /\ Len(s) = Len(k) + 1
      /\ \A i \in 1..Len(k) + 1 : s[i] = IF i <= 1 THEN f ELSE k[i - 1]
    BY <1>1, ConcatProperties
<1> HIDE DEF s
<1>3. Len(k) \in Nat
    BY <1>1, LenProperties
<1>4. s # <<>> /\ Head(s) = f
    <2>1. s[1] = f
        BY <1>2, <1>3
    <2> QED  BY <1>2, <1>3, <2>1
<1>5. ASSUME NEW j \in 1..Len(s) - 1 PROVE s[j + 1].at \in CalledFrom(s[j].at)
    <2>1. CASE j = 1
        <3>1. s[1] = f /\ s[2] = k[1] /\ k # <<>>
            BY <1>1, <1>2, <1>3, <2>1
        <3>2. Head(k) = k[1]
            BY <1>1, <3>1
        <3> QED  BY <2>1, <3>1, <3>2
    <2>2. CASE j # 1
        <3>1. s[j] = k[j - 1] /\ s[j + 1] = k[j] /\ j - 1 \in 1..Len(k) - 1 /\ (j - 1) + 1 = j
            BY <1>2, <1>3, <2>2
        <3>2. \A i \in 1..Len(k) - 1 : k[i + 1].at \in CalledFrom(k[i].at)
            BY DEF Stacks
        <3> HIDE DEF CalledFrom
        <3> QED  BY <3>1, <3>2
    <2> QED  BY <2>1, <2>2
<1>6. s \in Stacks
    BY <1>2, <1>5 DEF Stacks
<1> QED  BY <1>4, <1>6 DEF s

\* What is under the top of a stack is a stack, called as the top says.
LEMMA Pop ==
    ASSUME NEW s \in Stacks, s # <<>>
    PROVE  /\ Tail(s) \in Stacks /\ Head(s) \in Frame
           /\ Tail(s) = <<>> \/ Head(Tail(s)).at \in CalledFrom(Head(s).at)
<1>1. s \in Seq(Frame) /\ \A j \in 1..Len(s) - 1 : s[j + 1].at \in CalledFrom(s[j].at)
    BY DEF Stacks
<1>2. /\ Head(s) \in Frame /\ Tail(s) \in Seq(Frame) /\ Len(Tail(s)) = Len(s) - 1
      /\ \A i \in 1..Len(Tail(s)) : Tail(s)[i] = s[i + 1]
    BY <1>1, HeadTailProperties
<1>3. Len(s) \in Nat /\ Len(s) # 0 /\ Head(s) = s[1]
    BY <1>1, LenProperties, EmptySeq
<1>4. ASSUME NEW j \in 1..Len(Tail(s)) - 1
      PROVE  Tail(s)[j + 1].at \in CalledFrom(Tail(s)[j].at)
    <2>1. j + 1 \in 1..Len(s) - 1 /\ Tail(s)[j] = s[j + 1] /\ Tail(s)[j + 1] = s[(j + 1) + 1]
        BY <1>2, <1>3
    <2> QED  BY <1>1, <2>1
<1>5. ASSUME Tail(s) # <<>> PROVE Head(Tail(s)).at \in CalledFrom(Head(s).at)
    <2>1. Len(Tail(s)) \in Nat \ {0} /\ Head(Tail(s)) = Tail(s)[1]
        BY <1>2, <1>5, EmptySeq
    <2>2. 1 \in 1..Len(s) - 1 /\ Tail(s)[1] = s[1 + 1]
        BY <1>2, <1>3, <2>1
    <2> QED  BY <1>1, <1>3, <2>1, <2>2
<1> QED  BY <1>2, <1>4, <1>5 DEF Stacks

LEMMA OneFrame ==
    ASSUME NEW f \in Frame
    PROVE  <<f>> \in Stacks /\ <<f>> # <<>> /\ Head(<<f>>) = f
    BY DEF Stacks

LEMMA NoFrame == <<>> \in Stacks
    BY DEF Stacks

LEMMA UpTo ==
    ASSUME NEW n \in Nat
    PROVE  IsFiniteSet(1..n) /\ Cardinality(1..n) = n
<1>1. IsFiniteSet(1..n) /\ Cardinality(1..n) = IF 1 > n THEN 0 ELSE n - 1 + 1
    BY FS_Interval
<1> DEFINE C == Cardinality(1..n)
<1>2. C = IF 1 > n THEN 0 ELSE n - 1 + 1
    BY <1>1
<1> HIDE DEF C
<1>3. C = n
    BY <1>2
<1> QED  BY <1>1, <1>3 DEF C

\* An id that no request known on either side has: there are more numbers to
\* take than callers, each with at most one pending request, and requests that
\* the other end has yet to answer.
LEMMA FreshIdIsFresh ==
    ASSUME TypeInv, HeardInv, NEW t
    PROVE  /\ FreshId(t) \in Nat
           /\ \A q \in pending \cup asked : ~(q.t = t /\ q.id = FreshId(t))
<1> DEFINE N == Cardinality(Callers)
           A == Cardinality(asked)
<1>1. /\ N \in Nat /\ A \in Nat
      /\ ExistsBijection(1..N, Callers) /\ ExistsBijection(1..A, asked)
    BY McpAssumption, FS_CardinalityType DEF TypeInv
<1>2. PICK bc \in [1..N -> Callers] : \A c \in Callers : \E j \in 1..N : bc[j] = c
    BY <1>1 DEF ExistsBijection, Bijection, Surjection
<1>3. PICK ba \in [1..A -> asked] : \A q \in asked : \E j \in 1..A : ba[j] = q
    BY <1>1 DEF ExistsBijection, Bijection, Surjection
<1> HIDE DEF N, A
<1>4. SUFFICES ASSUME \A n \in 1..N + A + 1 : \E q \in pending \cup asked : q.t = t /\ q.id = n
               PROVE  FALSE
    BY <1>1 DEF FreshId, N, A
<1> DEFINE Holds(n, j) ==
        \/ j \in 1..N /\ \E p \in pending : p.id = n /\ p.c = bc[j]
        \/ j \in N + 1..N + A /\ ba[j - N].id = n
           f == [n \in 1..N + A + 1 |-> CHOOSE j \in 1..N + A : Holds(n, j)]
<1>5. ASSUME NEW n \in 1..N + A + 1 PROVE \E j \in 1..N + A : Holds(n, j)
    <2>1. PICK q \in pending \cup asked : q.t = t /\ q.id = n
        BY <1>4
    <2>2. CASE q \in pending
        <3>1. q.c \in Callers
            BY <2>2 DEF TypeInv, Pending
        <3>2. PICK j \in 1..N : bc[j] = q.c
            BY <1>2, <3>1
        <3> QED  BY <1>1, <2>1, <2>2, <3>2
    <2>3. CASE q \in asked
        <3>1. PICK j \in 1..A : ba[j] = q
            BY <1>3, <2>3
        <3>2. N + j \in N + 1..N + A /\ N + j \in 1..N + A /\ (N + j) - N = j
            BY <1>1
        <3> QED  BY <2>1, <3>1, <3>2
    <2> QED  BY <2>2, <2>3
<1>6. ASSUME NEW m \in 1..N + A + 1, NEW n \in 1..N + A + 1, NEW j \in 1..N + A,
             Holds(m, j), Holds(n, j)
      PROVE  m = n
    <2>1. CASE j \in 1..N
        <3>1. j \notin N + 1..N + A
            BY <1>1, <2>1
        <3>2. PICK p \in pending, q \in pending : p.id = m /\ p.c = bc[j] /\ q.id = n /\ q.c = bc[j]
            BY <1>6, <3>1
        <3> QED  BY <3>2 DEF HeardInv, Heard
    <2>2. CASE j \notin 1..N
        BY <1>6, <2>2
    <2> QED  BY <2>1, <2>2
<1>7. f \in [1..N + A + 1 -> 1..N + A] /\ \A n \in 1..N + A + 1 : Holds(n, f[n])
    BY <1>5
<1> HIDE DEF f, Holds
<1>8. \A m, n \in 1..N + A + 1 : f[m] = f[n] => m = n
    BY <1>6, <1>7
<1> DEFINE S == 1..N + A + 1
           T == 1..N + A
<1>9. IsFiniteSet(S) /\ IsFiniteSet(T) /\ Cardinality(T) < Cardinality(S)
    <2>1. N + A \in Nat /\ N + A + 1 \in Nat /\ N + A < N + A + 1
        BY <1>1
    <2> QED  BY <2>1, UpTo
<1>10. f \in [S -> T] /\ \A m, n \in S : f[m] = f[n] => m = n
    BY <1>7, <1>8
<1> HIDE DEF S, T
<1>11. \E x, y \in S : x # y /\ f[x] = f[y]
    BY <1>9, <1>10, FS_PigeonHole
<1> QED  BY <1>10, <1>11
-----------------------------------------------------------------------------
Leaves(fs) == /\ fs # <<>> => Head(fs).at \notin Sending
              /\ pending' = pending /\ asked' \subseteq asked

RequestOf(f, c) == [t |-> f.t, id |-> f.id, m |-> f.m, c |-> c]
New(p) == \A q \in pending \cup asked : ~(q.t = p.t /\ q.id = p.id)

SendsOne(c, fs, r) ==
    /\ fs # <<>> /\ Head(fs) \in Frame /\ Head(fs).at \in Sending /\ r = NoRet
    /\ pending' = pending \cup {RequestOf(Head(fs), c)}
    /\ asked' \subseteq asked \cup {RequestOf(Head(fs), c)}
    /\ New(RequestOf(Head(fs), c))

\* What one caller's step may do to the client: it gets another stack and an
\* answer, and it has sent a request exactly if that is what it waits for now.
Moved(c) ==
    /\ client' \in Clients /\ links' \in LinksOf
    /\ asked' \subseteq Pending /\ IsFiniteSet(asked')
    /\ kind' = kind /\ offered' = offered
    /\ \E fs \in Stacks, r \in Returned \cup {NoRet} :
           /\ stack' = [stack EXCEPT ![c] = fs]
           /\ ret' = [ret EXCEPT ![c] = r]
           /\ Leaves(fs) \/ SendsOne(c, fs, r)

LEMMA MovedInv ==
    ASSUME ClientInv, NEW c \in Callers, ~Waiting(c), Moved(c),
           reply' \in [Callers -> Replies], \A d \in Callers \ {c} : reply'[d] = reply[d]
    PROVE  ClientInv'
<1>1. PICK fs \in Stacks, r \in Returned \cup {NoRet} :
           /\ stack' = [stack EXCEPT ![c] = fs]
           /\ ret' = [ret EXCEPT ![c] = r]
           /\ Leaves(fs) \/ SendsOne(c, fs, r)
    BY DEF Moved
<1> DEFINE p == RequestOf(Head(fs), c)
<1>2. /\ stack \in [Callers -> Stacks] /\ ret \in [Callers -> Returned \cup {NoRet}]
      /\ pending \subseteq Pending /\ asked \subseteq Pending
    BY DEF ClientInv, TypeInv
<1>3. /\ stack' \in [Callers -> Stacks] /\ ret' \in [Callers -> Returned \cup {NoRet}]
      /\ \A d \in Callers : /\ stack'[d] = IF d = c THEN fs ELSE stack[d]
                            /\ ret'[d] = IF d = c THEN r ELSE ret[d]
    BY <1>1, <1>2
<1>4. ASSUME SendsOne(c, fs, r) PROVE p \in Pending
    BY <1>4 DEF Frame, Pending, SendsOne, RequestOf, Sending
<1>5. TypeInv'
    <2>1. pending' \subseteq Pending
        BY <1>1, <1>2, <1>4 DEF Leaves, SendsOne
    <2> QED  BY <1>1, <1>3, <2>1 DEF ClientInv, TypeInv, Moved
<1>6. ASSUME NEW d \in Callers, d # c
      PROVE  (Waiting(d)' <=> Waiting(d)) /\ Top(d)' = Top(d) /\ Own(d)' = Own(d)
    BY <1>3, <1>6 DEF Waiting, Top, Own
<1>7. Waiting(c)' <=> fs # <<>> /\ Head(fs).at \in Sending /\ r = NoRet
    BY <1>3 DEF Waiting, Top
<1>8. \A q \in pending : q.c \in Callers /\ q.c # c
    BY <1>2 DEF ClientInv, HeardInv, Heard, Pending
<1>9. HeardInv'
    <2>1. ASSUME NEW q \in pending PROVE Heard(q)'
        BY <1>6, <1>8 DEF ClientInv, HeardInv, Heard
    <2>2. CASE Leaves(fs)
        BY <1>6, <1>7, <2>1, <2>2 DEF ClientInv, HeardInv, Leaves
    <2>3. CASE SendsOne(c, fs, r)
        <3>1. p = Own(c)' /\ p.c = c /\ Waiting(c)'
            BY <1>3, <1>7, <2>3 DEF SendsOne, RequestOf, Own, Top
        <3>2. p \in pending' /\ Heard(p)'
            BY <2>3, <3>1 DEF SendsOne, Heard
        <3>3. \A q \in pending' : Heard(q)'
            BY <2>1, <2>3, <3>2 DEF SendsOne
        <3>4. ASSUME NEW d \in Callers, Waiting(d)' PROVE \E q \in pending' : q.c = d
            BY <1>6, <2>3, <3>1, <3>2, <3>4 DEF ClientInv, HeardInv, SendsOne
        <3> QED  BY <3>3, <3>4 DEF HeardInv
    <2> QED  BY <1>1, <2>2, <2>3
<1>10. OneId'
    <2>1. CASE Leaves(fs)
        BY <2>1 DEF ClientInv, OneId, Leaves
    <2>2. CASE SendsOne(c, fs, r)
        <3> HIDE DEF p
        <3>1. /\ \A q \in pending \cup asked : ~(q.t = p.t /\ q.id = p.id)
              /\ pending' \cup asked' \subseteq (pending \cup asked) \cup {p}
            BY <2>2 DEF SendsOne, New, p
        <3>2. \A q, o \in pending \cup asked : q.t = o.t /\ q.id = o.id => q = o
            BY DEF ClientInv, OneId
        <3>3. \A q, o \in (pending \cup asked) \cup {p} : q.t = o.t /\ q.id = o.id => q = o
            BY <3>1, <3>2
        <3> QED  BY <3>1, <3>3 DEF OneId
    <2> QED  BY <1>1, <2>1, <2>2
<1>11. AnswerIsOwn'
    <2>1. ASSUME NEW d \in Callers, stack'[d] # <<>>, Top(d)'.at \in Sending, ret'[d] = "ok"
          PROVE  reply'[d].to = {Own(d)'}
        <3>1. d # c
            BY <1>1, <1>3, <2>1 DEF Leaves, SendsOne, Top, NoRet
        <3>2. stack[d] # <<>> /\ Top(d).at \in Sending /\ ret[d] = "ok" /\ Own(d)' = Own(d)
            BY <1>3, <1>6, <2>1, <3>1 DEF Top
        <3> QED  BY <3>1, <3>2 DEF ClientInv, AnswerIsOwn
    <2> QED  BY <2>1 DEF AnswerIsOwn
<1> QED  BY <1>5, <1>9, <1>10, <1>11 DEF ClientInv

\* The calls of transport and client, made on top of k.
LEMMA GotoMoves ==
    ASSUME NEW c \in Callers, NEW fs \in Stacks, Goto(c, fs),
           fs # <<>> => Head(fs).at \notin Sending,
           client' \in Clients, links' \in LinksOf, asked' \subseteq asked,
           asked' \subseteq Pending, IsFiniteSet(asked'),
           kind' = kind, offered' = offered, pending' = pending
    PROVE  Moved(c)
    BY DEF Goto, Moved, Leaves

LEMMA ReturnMoves ==
    ASSUME NEW c \in Callers, NEW fs \in Stacks, NEW how \in Returned, ReturnTo(c, fs, how),
           fs # <<>> => Head(fs).at \notin Sending,
           client' \in Clients, links' \in LinksOf, asked' \subseteq asked,
           asked' \subseteq Pending, IsFiniteSet(asked'),
           kind' = kind, offered' = offered, pending' = pending
    PROVE  Moved(c)
    BY DEF ReturnTo, Moved, Leaves

\* What may be under a call: a stack whose top called it.
Under(k, at) == k \in Stacks /\ (k = <<>> \/ Head(k).at \in CalledFrom(at))

LEMMA Frames ==
    /\ \A t \in Transports : Opening(t) \in Frame
    /\ \A t \in Transports, b \in BOOLEAN : Closing(t, b) \in Frame
    /\ \A at \in {"sleeping", "dropping", "joining"}, n \in 1..MaxReconnectAttempts :
           Attempt(at, n) \in Frame
    /\ \A at \in {"mending", "ensuring"}, m \in Method : For(at, m) \in Frame
    /\ \A at \in {"handshake", "listing", "connecting", "discovering", "calling",
                  "disconnecting"} : Await(at) \in Frame
    /\ \A at \in Sending, m \in Method, try \in 1..2, t \in Transports, id \in Nat :
           Request(at, m, try, t, id) \in Frame
    BY DEF Frame, Opening, Closing, Attempt, For, Await, Request

LEMMA CalledNot ==
    ASSUME NEW at
    PROVE  /\ CalledFrom(at) \cap {"request", "opening", "closing", "sleeping"} = {}
           /\ CalledFrom(at) \cap Sending = {}
    BY DEF CalledFrom, Sending

LEMMA ConnectMoves ==
    ASSUME TypeInv, NEW c \in Callers, NEW cl \in Clients, NEW k, Under(k, "opening"),
           Connect(c, cl, k)
    PROVE  Moved(c)
<1>1. pending' = pending /\ asked' = asked /\ offered' = offered /\ kind' = kind
    BY DEF Connect
<1>2. asked' \subseteq Pending /\ IsFiniteSet(asked')
    BY <1>1 DEF TypeInv
<1>3. Refused \in Transports /\ Unused \subseteq Transports \ {Refused}
    BY McpAssumption DEF Refused, Transports, Unused
<1>4. \A t \in Transports : Opening(t) \in Frame /\ Opening(t).at = "opening"
    BY Frames DEF Opening
<1>5. CASE client' = cl /\ ReturnTo(c, k, "ok") /\ UNCHANGED links
    BY <1>1, <1>2, <1>5, ReturnMoves, CalledNot DEF TypeInv, Under, Returned
<1>6. ASSUME NEW t \in Transports, client' = [cl EXCEPT !.transport = t],
             Goto(c, <<Opening(t)>> \o k), links' \in LinksOf
      PROVE  Moved(c)
    <2>1. <<Opening(t)>> \o k \in Stacks /\ Head(<<Opening(t)>> \o k) = Opening(t)
        BY <1>4, Push DEF Under
    <2>2. client' \in Clients
        BY <1>6 DEF Clients
    <2> QED  BY <1>1, <1>2, <1>4, <1>6, <2>1, <2>2, GotoMoves DEF Sending
<1>7. links \in LinksOf
    BY DEF TypeInv
<1>8. ASSUME Unused # {}
      PROVE  NewTransport \in Transports \ {Refused}
             /\ [links EXCEPT ![NewTransport].child = "starting"] \in LinksOf
    <2>1. NewTransport \in Unused
        BY <1>8 DEF NewTransport
    <2> QED  BY <1>3, <1>7, <2>1 DEF LinksOf
<1> QED  BY <1>3, <1>5, <1>6, <1>7, <1>8 DEF Connect

LEMMA LinksChange ==
    ASSUME NEW ls \in LinksOf, NEW t \in Transports
    PROVE  /\ [ls EXCEPT ![t].connected = FALSE] \in LinksOf
           /\ [ls EXCEPT ![t].child = "dead"] \in LinksOf
           /\ t # Refused => [ls EXCEPT ![t].connected = TRUE, ![t].child = "live"] \in LinksOf
<1> DEFINE L == [connected : BOOLEAN, child : {"unused", "starting", "live", "dead"}]
<1>1. ls \in [Transports -> L] /\ ~ls[Refused].connected
    BY DEF LinksOf
<1>2. ASSUME NEW r \in L, t = Refused => ~r.connected
      PROVE  [ls EXCEPT ![t] = r] \in LinksOf
    <2>1. [ls EXCEPT ![t] = r] \in [Transports -> L]
        BY <1>1, <1>2
    <2>2. [ls EXCEPT ![t] = r][Refused] = IF t = Refused THEN r ELSE ls[Refused]
        BY <1>1
    <2> QED  BY <1>1, <1>2, <2>1, <2>2 DEF LinksOf
<1>3. ls[t] \in L
    BY <1>1
<1>4. /\ [ls[t] EXCEPT !.connected = FALSE] \in L
      /\ [ls[t] EXCEPT !.connected = FALSE].connected = FALSE
    BY <1>3
<1>5. /\ [ls[t] EXCEPT !.child = "dead"] \in L
      /\ [ls[t] EXCEPT !.child = "dead"].connected = ls[t].connected
    BY <1>3
<1>6. [ls[t] EXCEPT !.connected = TRUE, !.child = "live"] \in L
    BY <1>3
<1>7. /\ [ls EXCEPT ![t].connected = FALSE] = [ls EXCEPT ![t] = [ls[t] EXCEPT !.connected = FALSE]]
      /\ [ls EXCEPT ![t].child = "dead"] = [ls EXCEPT ![t] = [ls[t] EXCEPT !.child = "dead"]]
      /\ [ls EXCEPT ![t].connected = TRUE, ![t].child = "live"]
             = [ls EXCEPT ![t] = [ls[t] EXCEPT !.connected = TRUE, !.child = "live"]]
    BY <1>1, <1>3
<1> HIDE DEF L
<1> QED  BY <1>1, <1>2, <1>4, <1>5, <1>6, <1>7

LEMMA DisconnectMoves ==
    ASSUME TypeInv, NEW c \in Callers, NEW cl \in Clients, NEW k, Under(k, "closing"),
           Disconnect(c, cl, k)
    PROVE  Moved(c)
<1>1. pending' = pending /\ offered' = offered /\ kind' = kind /\ client' \in Clients
    BY DEF Disconnect
<1>2. asked' \subseteq asked
    BY DEF Disconnect
<1>3. asked' \subseteq Pending /\ IsFiniteSet(asked')
    <2>1. asked' \in SUBSET asked /\ asked \subseteq Pending /\ IsFiniteSet(asked)
        BY <1>2 DEF TypeInv
    <2> QED  BY <2>1, FS_Subset
<1>4. CASE cl.transport = NoTransport
    BY <1>1, <1>2, <1>3, <1>4, ReturnMoves, CalledNot DEF TypeInv, Under, Returned, Disconnect
<1>5. CASE cl.transport # NoTransport
    <2> DEFINE b == kind = "stdio" /\ Link(cl).connected
               f == Closing(cl.transport, b)
    <2>1. cl.transport \in Transports
        BY <1>5 DEF Clients
    <2>2. links' \in LinksOf
        <3>1. links' = [links EXCEPT ![cl.transport].connected = FALSE] /\ links \in LinksOf
            BY <1>5 DEF Disconnect, TypeInv
        <3> QED  BY <2>1, <3>1, LinksChange
    <2>3. f \in Frame /\ f.at = "closing"
        BY <2>1, Frames DEF Closing
    <2>4. Goto(c, <<f>> \o k)
        BY <1>5 DEF Disconnect
    <2> HIDE DEF f
    <2>5. <<f>> \o k \in Stacks /\ Head(<<f>> \o k) = f
        BY <2>3, Push DEF Under
    <2> QED  BY <1>1, <1>2, <1>3, <2>2, <2>3, <2>4, <2>5, GotoMoves DEF Sending
<1> QED  BY <1>4, <1>5

LEMMA AttemptReconnectMoves ==
    ASSUME TypeInv, NEW c \in Callers, NEW cl \in Clients, NEW k, Under(k, "sleeping"),
           AttemptReconnect(c, cl, k)
    PROVE  Moved(c)
<1>1. UNCHANGED net /\ client' \in Clients
    BY DEF AttemptReconnect
<1>2. /\ links' \in LinksOf /\ asked' \subseteq Pending /\ IsFiniteSet(asked')
      /\ kind' = kind /\ offered' = offered /\ pending' = pending /\ asked' = asked
    BY <1>1 DEF net, TypeInv
<1>3. CASE ReturnTo(c, k, "ok")
    BY <1>1, <1>2, <1>3, ReturnMoves, CalledNot DEF Under, Returned
<1>4. CASE Goto(c, <<Attempt("sleeping", 1)>> \o k)
    <2> DEFINE f == Attempt("sleeping", 1)
    <2>1. f \in Frame /\ f.at = "sleeping"
        BY Frames, McpAssumption DEF Attempt
    <2> HIDE DEF f
    <2>2. <<f>> \o k \in Stacks /\ Head(<<f>> \o k) = f
        BY <2>1, Push DEF Under
    <2> QED  BY <1>1, <1>2, <1>4, <2>1, <2>2, GotoMoves DEF f, Sending
<1> QED  BY <1>3, <1>4 DEF AttemptReconnect

LEMMA SendMoves ==
    ASSUME TypeInv, HeardInv, NEW c \in Callers, NEW cl \in Clients, NEW ls \in LinksOf,
           NEW m \in Method, NEW try \in 1..2, NEW k, Under(k, "request"),
           Send(c, cl, ls, m, try, k)
    PROVE  Moved(c)
<1> DEFINE t == cl.transport
           id == FreshId(t)
           p == [t |-> t, id |-> id, m |-> m, c |-> c]
           at == IF kind = "stdio" THEN "writing" ELSE "request"
           f == Request(at, m, try, t, id)
<1>1. client' \in Clients /\ links' \in LinksOf /\ kind' = kind /\ offered' = offered
    BY DEF Send
<1>2. CASE /\ ReturnTo(c, k, "other")
           /\ UNCHANGED <<pending, asked>>
    BY <1>1, <1>2, ReturnMoves, CalledNot DEF TypeInv, Under, Returned
<1>3. CASE /\ t # NoTransport
           /\ pending' = pending \cup {p}
           /\ asked' = IF ls[t].child = "live" THEN asked \cup {p} ELSE asked
           /\ Goto(c, <<f>> \o k)
    <2>1. t \in Transports /\ id \in Nat
        BY <1>3, FreshIdIsFresh DEF Clients
    <2>2. f \in Frame
        BY <2>1, Frames DEF Sending
    <2>3. f.at \in Sending /\ f.t = t /\ f.id = id /\ f.m = m
        BY DEF Request, Sending
    <2>4. p \in Pending
        BY <2>1 DEF Pending
    <2>5. New(p)
        BY FreshIdIsFresh DEF New
    <2> HIDE DEF f, p, id, at
    <2>6. <<f>> \o k \in Stacks /\ <<f>> \o k # <<>> /\ Head(<<f>> \o k) = f
        BY <2>2, <2>3, Push DEF Under, CalledFrom, Sending
    <2>7. /\ asked' \subseteq Pending /\ IsFiniteSet(asked')
          /\ asked' \subseteq asked \cup {p}
        BY <1>3, <2>4, FS_AddElement DEF TypeInv
    <2>8. RequestOf(f, c) = p
        BY <2>3 DEF RequestOf, p
    <2>9. /\ stack' = [stack EXCEPT ![c] = <<f>> \o k]
          /\ ret' = [ret EXCEPT ![c] = NoRet]
        BY <1>3 DEF Goto
    <2>10. SendsOne(c, <<f>> \o k, NoRet)
        BY <1>3, <2>2, <2>3, <2>5, <2>6, <2>7, <2>8 DEF SendsOne
    <2> QED  BY <1>1, <2>6, <2>7, <2>9, <2>10 DEF Moved
<1> QED  BY <1>2, <1>3 DEF Send

LEMMA EnsureConnectedMoves ==
    ASSUME TypeInv, NEW c \in Callers, NEW k, Under(k, "ensuring"),
           NEW m \in Method, EnsureConnected(c, client, <<For("ensuring", m)>> \o k)
    PROVE  Moved(c)
<1> DEFINE f == For("ensuring", m)
<1>1. f \in Frame /\ f.at = "ensuring"
    BY Frames DEF For
<1> HIDE DEF f
<1>2. <<f>> \o k \in Stacks /\ <<f>> \o k # <<>> /\ Head(<<f>> \o k) = f
    BY <1>1, Push DEF Under
<1>3. Under(<<f>> \o k, "opening") /\ Under(<<f>> \o k, "sleeping") /\ client \in Clients
    BY <1>1, <1>2 DEF Under, CalledFrom, TypeInv
<1> QED  BY <1>3, ConnectMoves, AttemptReconnectMoves DEF EnsureConnected, f

-----------------------------------------------------------------------------
\* The steps of a caller, each from the await that the top of its stack is at.
LEMMA TopFacts ==
    ASSUME TypeInv, NEW c \in Callers, NEW at, At(c, at)
    PROVE  Top(c) \in Frame /\ Top(c).at = at /\ Under(Rest(c), at)
<1>1. stack[c] \in Stacks /\ stack[c] # <<>> /\ Head(stack[c]).at = at
    BY DEF TypeInv, At
<1> QED  BY <1>1, Pop DEF Top, Rest, Under

LEMMA PushOn ==
    ASSUME NEW k, NEW at, Under(k, at), at # "closing",
           NEW f \in Frame, f.at # "closing"
    PROVE  /\ <<f>> \o k \in Stacks /\ Head(<<f>> \o k) = f
           /\ \A up : f.at \in CalledFrom(up) => Under(<<f>> \o k, up)
<1>1. k = <<>> \/ Head(k).at \in CalledFrom(f.at)
    BY DEF Under, CalledFrom
<1>2. <<f>> \o k \in Stacks /\ Head(<<f>> \o k) = f
    BY <1>1, Push DEF Under
<1> QED  BY <1>2 DEF Under

\* A call returns to what is below it, or goes to another await, and touches
\* nothing but the client's fields.
LEMMA ReturnInv ==
    ASSUME ClientInv, NEW c \in Callers, ~Waiting(c), NEW at, NEW k, Under(k, at),
           NEW how \in Returned, ReturnTo(c, k, how), client' \in Clients,
           UNCHANGED net, reply' \in [Callers -> Replies],
           \A d \in Callers \ {c} : reply'[d] = reply[d]
    PROVE  ClientInv'
<1>1. /\ kind' = kind /\ offered' = offered /\ pending' = pending /\ links' \in LinksOf
      /\ asked' \subseteq Pending /\ IsFiniteSet(asked')
    BY DEF net, ClientInv, TypeInv
<1>2. k \in Stacks /\ (k # <<>> => Head(k).at \notin Sending) /\ asked' = asked
    BY CalledNot DEF Under, net
<1>3. Moved(c)
    BY <1>1, <1>2, ReturnMoves
<1> QED  BY <1>3, MovedInv

LEMMA OpenedInv == ASSUME ClientInv, NEW c \in Callers, Opened(c) PROVE ClientInv'
<1>1. Top(c) \in Frame /\ Top(c).at = "opening" /\ Under(Rest(c), "opening") /\ Top(c).t # Refused
    BY TopFacts DEF ClientInv, Opened
<1>2. Top(c).t \in Transports /\ ~Waiting(c)
    BY <1>1 DEF Frame, Waiting, At, Top, Sending
<1> DEFINE ls == [links EXCEPT ![Top(c).t].connected = TRUE, ![Top(c).t].child = "live"]
           cl == [client EXCEPT !.dirty = FALSE]
           k == <<Await("handshake")>> \o Rest(c)
<1>3. ls \in LinksOf /\ cl \in Clients
    BY <1>1, <1>2, LinksChange DEF ClientInv, TypeInv, Clients
<1>4. Await("handshake") \in Frame /\ Await("handshake").at = "handshake"
    BY Frames DEF Await
<1>5. Under(k, "request")
    BY <1>1, <1>4, PushOn DEF CalledFrom
<1>6. Send(c, cl, ls, "initialize", 1, k) /\ UNCHANGED reply
    BY DEF Opened
<1> HIDE DEF ls, cl, k
<1>7. Moved(c)
    BY <1>3, <1>5, <1>6, SendMoves DEF ClientInv, Method
<1> QED  BY <1>2, <1>6, <1>7, MovedInv DEF ClientInv, TypeInv

LEMMA ReturnsInv ==
    ASSUME ClientInv, NEW c \in Callers, OpenFails(c) \/ Handshaken(c) \/ Listed(c)
    PROVE  ClientInv'
<1>1. PICK at \in {"opening", "handshake", "listing"}, how \in Returned :
          At(c, at) /\ ReturnTo(c, Rest(c), how) /\ UNCHANGED <<net, reply>>
    <2>1. ret[c] \in Returned \cup {NoRet}
        BY DEF ClientInv, TypeInv
    <2> QED  BY <2>1 DEF OpenFails, Handshaken, Listed, Resumed, Returned
<1>2. Under(Rest(c), at) /\ ~Waiting(c)
    BY <1>1, TopFacts DEF ClientInv, Waiting, At, Top, Sending
<1>3. client \in Clients /\ reply \in [Callers -> Replies] /\ reply[c].list \in SUBSET Tools
    BY DEF ClientInv, TypeInv, Replies
<1>4. client' \in Clients
    <2>1. CASE OpenFails(c)
        BY <1>3, <2>1 DEF OpenFails, Clients
    <2>2. CASE Handshaken(c)
        <3>1. client' = [client EXCEPT !.ready = client.ready \/ ret[c] = "ok"]
            BY <2>2 DEF Handshaken
        <3> QED  BY <1>3, <3>1 DEF Clients
    <2>3. CASE Listed(c)
        BY <1>3, <2>3 DEF Listed, Clients
    <2> QED  BY <2>1, <2>2, <2>3
<1>5. UNCHANGED net /\ UNCHANGED reply
    BY <1>1
<1> QED  BY <1>1, <1>2, <1>3, <1>4, <1>5, ReturnInv

LEMMA WakeInv == ASSUME ClientInv, NEW c \in Callers, Wake(c) \/ Dropped(c) PROVE ClientInv'
<1>1. PICK at \in {"sleeping", "dropping"} : At(c, at)
    BY DEF Wake, Dropped, Resumed
<1>2. Top(c) \in Frame /\ Top(c).at = at /\ Under(Rest(c), at) /\ ~Waiting(c)
    BY <1>1, TopFacts DEF ClientInv, Waiting, At, Top, Sending
<1>3. Top(c).n \in 1..MaxReconnectAttempts
    BY <1>2 DEF Frame, Sending
<1> DEFINE d == Attempt("dropping", Top(c).n)
           j == Attempt("joining", Top(c).n)
<1>4. d \in Frame /\ d.at = "dropping" /\ j \in Frame /\ j.at = "joining"
    BY <1>3, Frames DEF Attempt
<1> HIDE DEF d, j
<1>5. Under(<<d>> \o Rest(c), "closing") /\ Under(<<j>> \o Rest(c), "opening")
    BY <1>2, <1>4, PushOn DEF CalledFrom
<1>6. Disconnect(c, client, <<d>> \o Rest(c)) \/ Connect(c, client, <<j>> \o Rest(c))
    BY DEF Wake, Dropped, d, j
<1>7. UNCHANGED reply /\ client \in Clients /\ TypeInv
    BY DEF Wake, Dropped, ClientInv, TypeInv
<1>8. Moved(c)
    BY <1>5, <1>6, <1>7, ConnectMoves, DisconnectMoves
<1> QED  BY <1>2, <1>7, <1>8, MovedInv DEF TypeInv

LEMMA JoinedInv == ASSUME ClientInv, NEW c \in Callers, Joined(c) PROVE ClientInv'
<1>1. Top(c) \in Frame /\ Top(c).at = "joining" /\ Under(Rest(c), "joining") /\ ~Waiting(c)
    BY TopFacts DEF ClientInv, Waiting, Joined, Resumed, At, Top, Sending
<1>2. Top(c).n \in 1..MaxReconnectAttempts
    BY <1>1 DEF Frame, Sending
<1>3. /\ client \in Clients /\ reply \in [Callers -> Replies] /\ UNCHANGED net /\ UNCHANGED reply
    BY DEF Joined, ClientInv, TypeInv
<1>4. CASE ReturnTo(c, Rest(c), "ok") /\ client' \in Clients
    BY <1>1, <1>3, <1>4, ReturnInv DEF Returned
<1>5. CASE /\ Top(c).n < MaxReconnectAttempts /\ UNCHANGED client
           /\ Goto(c, <<Attempt("sleeping", Top(c).n + 1)>> \o Rest(c))
    <2> DEFINE f == Attempt("sleeping", Top(c).n + 1)
    <2>1. Top(c).n + 1 \in 1..MaxReconnectAttempts
        BY <1>2, <1>5, McpAssumption
    <2>2. f \in Frame /\ f.at = "sleeping"
        BY <2>1, Frames DEF Attempt
    <2> HIDE DEF f
    <2>3. <<f>> \o Rest(c) \in Stacks /\ Head(<<f>> \o Rest(c)) = f
        BY <1>1, <2>2, PushOn
    <2>4. /\ links' \in LinksOf /\ asked' \subseteq Pending /\ IsFiniteSet(asked')
          /\ kind' = kind /\ offered' = offered /\ pending' = pending /\ client' \in Clients
        BY <1>3, <1>5 DEF net, ClientInv, TypeInv
    <2>5. Goto(c, <<f>> \o Rest(c))
        BY <1>5 DEF f
    <2>6. Moved(c)
        BY <1>3, <2>2, <2>3, <2>4, <2>5, GotoMoves DEF net, Sending
    <2> QED  BY <1>1, <1>3, <2>6, MovedInv
<1>6. [client EXCEPT !.dirty = FALSE] \in Clients /\ [client EXCEPT !.transport = NoTransport] \in Clients
    BY <1>3 DEF Clients
<1> QED  BY <1>4, <1>5, <1>6 DEF Joined

LEMMA AnsweredInv == ASSUME ClientInv, NEW c \in Callers, Answered(c) PROVE ClientInv'
<1>1. Top(c) \in Frame /\ Top(c).at = "request" /\ Under(Rest(c), "request") /\ ~Waiting(c)
    BY TopFacts DEF ClientInv, Waiting, Answered, Resumed, Top, Sending
<1>2. Top(c).m \in Method
    BY <1>1 DEF Frame
<1> DEFINE f == For("mending", Top(c).m)
<1>3. f \in Frame /\ f.at = "mending"
    BY <1>2, Frames DEF For
<1>4. /\ client \in Clients /\ TypeInv /\ reply' \in [Callers -> Replies]
      /\ \A d \in Callers \ {c} : reply'[d] = reply[d]
    BY DEF Answered, ClientInv, TypeInv, Replies
<1>5. CASE \E how \in Returned : ReturnTo(c, Rest(c), how) /\ UNCHANGED <<client, net>>
    <2>1. PICK how \in Returned : ReturnTo(c, Rest(c), how)
        BY <1>5
    <2> QED  BY <1>1, <1>4, <1>5, <2>1, ReturnInv
<1>6. CASE \E cl \in Clients : AttemptReconnect(c, cl, <<f>> \o Rest(c))
    <2> HIDE DEF f
    <2>1. Under(<<f>> \o Rest(c), "sleeping")
        BY <1>1, <1>3, PushOn DEF CalledFrom
    <2>2. Moved(c)
        BY <1>4, <1>6, <2>1, AttemptReconnectMoves
    <2> QED  BY <1>1, <1>4, <2>2, MovedInv
<1>7. [client EXCEPT !.dirty = TRUE] \in Clients
    BY <1>4 DEF Clients
<1> QED  BY <1>4, <1>5, <1>6, <1>7 DEF Answered, Returned

LEMMA MendedInv == ASSUME ClientInv, NEW c \in Callers, Mended(c) PROVE ClientInv'
<1>1. Top(c) \in Frame /\ Top(c).at = "mending" /\ Under(Rest(c), "mending") /\ ~Waiting(c)
    BY TopFacts DEF ClientInv, Waiting, Mended, Resumed, At, Top, Sending
<1>2. Top(c).m \in Method /\ Under(Rest(c), "request")
    BY <1>1 DEF Frame, Under, CalledFrom
<1>3. Send(c, client, links, Top(c).m, 2, Rest(c)) /\ UNCHANGED reply
    BY DEF Mended
<1>4. client \in Clients /\ links \in LinksOf /\ reply \in [Callers -> Replies]
    BY DEF ClientInv, TypeInv
<1>5. Moved(c)
    BY <1>2, <1>3, <1>4, SendMoves DEF ClientInv
<1> QED  BY <1>1, <1>3, <1>4, <1>5, MovedInv

LEMMA EnsuredInv == ASSUME ClientInv, NEW c \in Callers, Ensured(c) PROVE ClientInv'
<1>1. Top(c) \in Frame /\ Top(c).at = "ensuring" /\ Under(Rest(c), "ensuring") /\ ~Waiting(c)
    BY TopFacts DEF ClientInv, Waiting, Ensured, Resumed, At, Top, Sending
<1>2. Top(c).m \in Method /\ Under(Rest(c), "request")
    BY <1>1 DEF Frame, Under, CalledFrom
<1>3. client \in Clients /\ links \in LinksOf /\ reply \in [Callers -> Replies]
    BY DEF ClientInv, TypeInv
<1>4. CASE \E how \in Returned : ReturnTo(c, Rest(c), how) /\ UNCHANGED <<client, net, reply>>
    <2>1. PICK how \in Returned : ReturnTo(c, Rest(c), how)
        BY <1>4
    <2> QED  BY <1>1, <1>3, <1>4, <2>1, ReturnInv
<1>5. CASE /\ client.cache # {} /\ ReturnTo(c, Rest(c), "ok") /\ UNCHANGED <<client, net>>
           /\ reply' = [reply EXCEPT ![c] = [to |-> {}, list |-> CHOOSE l \in client.cache : TRUE]]
    <2> DEFINE l == CHOOSE l \in client.cache : TRUE
    <2>1. l \in SUBSET Tools
        BY <1>3, <1>5 DEF Clients
    <2> HIDE DEF l
    <2>2. reply' = [reply EXCEPT ![c] = [to |-> {}, list |-> l]]
        BY <1>5 DEF l
    <2>3. [to |-> {}, list |-> l] \in Replies
        BY <1>2, <2>1 DEF Replies
    <2>4. reply' \in [Callers -> Replies] /\ \A d \in Callers \ {c} : reply'[d] = reply[d]
        BY <1>3, <2>2, <2>3
    <2> QED  BY <1>1, <1>3, <1>5, <2>4, ReturnInv DEF Returned
<1>6. CASE /\ \E k : Under(k, "request") /\ Send(c, client, links, Top(c).m, 1, k)
           /\ UNCHANGED reply
    <2>1. Moved(c)
        BY <1>2, <1>3, <1>6, SendMoves DEF ClientInv
    <2> QED  BY <1>1, <1>3, <1>6, <2>1, MovedInv
<1>7. Under(<<Await("listing")>> \o Rest(c), "request")
    <2>1. Await("listing") \in Frame /\ Await("listing").at = "listing"
        BY Frames DEF Await
    <2> QED  BY <1>1, <2>1, PushOn DEF CalledFrom
<1> QED  BY <1>2, <1>4, <1>5, <1>6, <1>7 DEF Ensured, Returned

\* Some pending requests are settled, each with an answer of its own or an error.
LEMMA SettledInv ==
    ASSUME ClientInv, NEW gone \in SUBSET pending, pending' = pending \ gone,
           ret' \in [Callers -> Returned \cup {NoRet}],
           \A c \in Callers : IF \E p \in gone : p.c = c THEN ret'[c] # NoRet ELSE ret'[c] = ret[c],
           UNCHANGED <<kind, links, offered, stack>>, client' \in Clients, asked' \subseteq asked,
           reply' \in [Callers -> Replies],
           \A c \in Callers : reply'[c] = reply[c] \/ \E p \in gone : p.c = c,
           \A p \in gone : ret'[p.c] = "ok" => reply'[p.c].to = {p}
    PROVE  ClientInv'
<1>1. TypeInv'
    <2>1. asked' \in SUBSET asked /\ IsFiniteSet(asked) /\ asked \subseteq Pending
        BY DEF ClientInv, TypeInv
    <2>2. IsFiniteSet(asked')
        BY <2>1, FS_Subset
    <2> QED  BY <2>1, <2>2 DEF ClientInv, TypeInv
<1>2. \A p \in pending : Heard(p) /\ p.c \in Callers
    BY DEF ClientInv, HeardInv, TypeInv, Pending
<1>3. \A p, q \in pending : p.c = q.c => p = q
    BY <1>2 DEF Heard, ClientInv, TypeInv, Pending
<1>4. \A p \in pending' : Heard(p)'
    BY <1>2, <1>3 DEF Heard, Waiting, Own, Top
<1>5. ASSUME NEW c \in Callers, Waiting(c)' PROVE \E p \in pending' : p.c = c
    <2>1. ~(\E p \in gone : p.c = c) /\ Waiting(c)
        BY <1>5 DEF Waiting, Top
    <2> QED  BY <2>1 DEF ClientInv, HeardInv
<1>6. ASSUME NEW c \in Callers, stack'[c] # <<>>, Top(c)'.at \in Sending, ret'[c] = "ok"
      PROVE  reply'[c].to = {Own(c)'}
    <2>1. Own(c)' = Own(c)
        BY DEF Own, Top
    <2>2. CASE \E p \in gone : p.c = c
        BY <1>2, <1>6, <2>1, <2>2 DEF Heard
    <2>3. CASE ~\E p \in gone : p.c = c
        BY <1>6, <2>1, <2>3 DEF ClientInv, AnswerIsOwn, Top
    <2> QED  BY <2>2, <2>3
<1>7. OneId'
    BY DEF ClientInv, OneId
<1> QED  BY <1>1, <1>4, <1>5, <1>6, <1>7 DEF ClientInv, HeardInv, AnswerIsOwn

LEMMA ServerStepInv == ASSUME ClientInv, ServerStep PROVE ClientInv'
<1>1. /\ TypeInv /\ client \in Clients /\ links \in LinksOf /\ offered \in SUBSET Tools
      /\ ret \in [Callers -> Returned \cup {NoRet}] /\ reply \in [Callers -> Replies]
      /\ pending \subseteq Pending /\ asked \subseteq Pending
    BY DEF ClientInv, TypeInv
<1>2. ASSUME NEW p \in pending, NEW how \in Returned, Settle(p, how), asked' \subseteq asked,
             UNCHANGED <<kind, client, links, offered, stack>>,
             \/ how # "ok" /\ UNCHANGED reply
             \/ reply' = [reply EXCEPT ![p.c] = [to |-> {p}, list |-> offered]]
      PROVE  ClientInv'
    <2>1. p.c \in Callers /\ p \in Pending /\ [to |-> {p}, list |-> offered] \in Replies
        BY <1>1 DEF Pending, Replies
    <2>2. /\ ret' \in [Callers -> Returned \cup {NoRet}]
          /\ \A c \in Callers : ret'[c] = IF c = p.c THEN how ELSE ret[c]
        BY <1>1, <1>2, <2>1 DEF Settle
    <2>3. /\ reply' \in [Callers -> Replies]
          /\ \A c \in Callers : reply'[c] = reply[c] \/ p.c = c
          /\ how = "ok" => reply'[p.c].to = {p}
        BY <1>1, <1>2, <2>1
    <2>4. {p} \in SUBSET pending /\ pending' = pending \ {p} /\ how # NoRet
        BY <1>2 DEF Settle, Returned, NoRet
    <2> DEFINE gone == {p}
    <2>5. /\ \A c \in Callers : IF \E q \in gone : q.c = c THEN ret'[c] # NoRet ELSE ret'[c] = ret[c]
          /\ \A c \in Callers : reply'[c] = reply[c] \/ \E q \in gone : q.c = c
          /\ \A q \in gone : ret'[q.c] = "ok" => reply'[q.c].to = {q}
        BY <2>1, <2>2, <2>3, <2>4
    <2>6. gone \in SUBSET pending /\ pending' = pending \ gone
        BY <2>4
    <2> HIDE DEF gone
    <2> QED  BY <1>1, <1>2, <2>2, <2>3, <2>5, <2>6, SettledInv
<1>4. ASSUME NEW t \in Transports, ChildExits(t) PROVE ClientInv'
    <2>1. links' \in LinksOf /\ asked' \in SUBSET asked
        BY <1>1, <1>4, LinksChange DEF ChildExits
    <2>2. IsFiniteSet(asked') /\ asked' \subseteq Pending
        BY <1>1, <2>1, FS_Subset DEF TypeInv
    <2>3. UNCHANGED <<kind, client, pending, offered, stack, ret, reply>>
        BY <1>4 DEF ChildExits
    <2> QED  BY <2>1, <2>2, <2>3
             DEF ClientInv, TypeInv, HeardInv, Heard, OneId, AnswerIsOwn, Waiting, Own, Top
<1>5. ASSUME NEW q \in asked, NEW how \in {"ok", "lost", "other"}, Respond(q, how) PROVE ClientInv'
    <2> DEFINE hit == {p \in PendingOn(q.t) : p.id = q.id}
    <2>1. hit \in SUBSET pending /\ \A p \in hit : p = q
        BY DEF PendingOn, ClientInv, OneId
    <2>2. Deliver(q, how, hit)
        BY <1>5 DEF Respond
    <2> HIDE DEF hit
    <2>3. /\ pending' = pending \ hit /\ asked' \subseteq asked
          /\ UNCHANGED <<kind, links, offered, stack>> /\ client' \in Clients
          /\ \A c \in Callers : ret'[c] = IF \E p \in hit : p.c = c THEN how ELSE ret[c]
          /\ \A c \in Callers : reply'[c] = IF \E p \in hit : p.c = c
                                             THEN [to |-> {q}, list |-> offered] ELSE reply[c]
        BY <1>1, <2>2 DEF Deliver
    <2>4. [to |-> {q}, list |-> offered] \in Replies /\ how \in Returned /\ how # NoRet
        BY <1>1 DEF Replies, Returned, NoRet
    <2>5. ret' \in [Callers -> Returned \cup {NoRet}] /\ reply' \in [Callers -> Replies]
        BY <1>1, <2>2, <2>4 DEF Deliver
    <2>6. \A p \in hit : p.c \in Callers /\ reply'[p.c].to = {p}
        BY <1>1, <2>1, <2>3 DEF Pending
    <2>7. \A c \in Callers : IF \E p \in hit : p.c = c THEN ret'[c] # NoRet ELSE ret'[c] = ret[c]
        BY <2>3, <2>4
    <2>8. \A c \in Callers : reply'[c] = reply[c] \/ \E p \in hit : p.c = c
        BY <2>3
    <2> QED  BY <1>1, <2>1, <2>3, <2>5, <2>6, <2>7, <2>8, SettledInv
<1>6. ASSUME NEW p \in pending, NEW how \in {"ok", "lost", "other"},
             TimesOut(p) \/ FetchEnds(p, how) \/ FetchAborts(p) \/ FetchFails(p)
      PROVE ClientInv'
    BY <1>2, <1>6 DEF TimesOut, FetchEnds, FetchAborts, FetchFails, Returned
<1> QED  BY <1>4, <1>5, <1>6 DEF ServerStep

LEMMA ClosedInv == ASSUME ClientInv, NEW c \in Callers, Closed(c) PROVE ClientInv'
<1> DEFINE gone == IF Top(c).kills THEN PendingOn(Top(c).t) ELSE {}
<1>1. /\ At(c, "closing") /\ client' = Reset /\ pending' = pending \ gone
      /\ stack' = [stack EXCEPT ![c] = Rest(c)]
      /\ ret' = [d \in Callers |-> IF d = c THEN "ok"
                                   ELSE IF \E p \in gone : p.c = d THEN "lost" ELSE ret[d]]
      /\ UNCHANGED <<kind, links, asked, offered, reply>>
    BY DEF Closed, Rest
<1>2. gone \subseteq pending
    BY DEF PendingOn
<1> HIDE DEF gone
<1>3. /\ Under(Rest(c), "closing") /\ ~Waiting(c) /\ client \in Clients /\ stack[c] # <<>>
      /\ stack \in [Callers -> Stacks] /\ ret \in [Callers -> Returned \cup {NoRet}]
    BY <1>1, TopFacts DEF ClientInv, TypeInv, Waiting, At, Top, Sending
<1>4. client' \in Clients
    BY <1>1, <1>3 DEF Reset, Clients
<1>5. /\ \A d \in Callers : stack'[d] = IF d = c THEN Rest(c) ELSE stack[d]
      /\ \A d \in Callers : ret'[d] = IF d = c THEN "ok"
                                      ELSE IF \E p \in gone : p.c = d THEN "lost" ELSE ret[d]
      /\ stack' \in [Callers -> Stacks] /\ ret' \in [Callers -> Returned \cup {NoRet}]
    BY <1>1, <1>3 DEF Under, Returned
<1>6. TypeInv'
    BY <1>1, <1>2, <1>4, <1>5 DEF ClientInv, TypeInv
<1>7. \A p \in pending : Heard(p) /\ p.c \in Callers /\ p.c # c
    BY <1>3 DEF ClientInv, HeardInv, Heard, TypeInv, Pending
<1>8. \A p, q \in pending : p.c = q.c => p = q
    BY <1>7 DEF Heard, ClientInv, TypeInv, Pending
<1>9. \A p \in pending' : Heard(p)'
    BY <1>1, <1>2, <1>5, <1>7, <1>8 DEF Heard, Waiting, Own, Top
<1>10. ASSUME NEW d \in Callers, Waiting(d)' PROVE \E p \in pending' : p.c = d
    <2>1. d # c /\ ~(\E p \in gone : p.c = d) /\ Waiting(d)
        BY <1>5, <1>10 DEF Waiting, Top, NoRet
    <2> QED  BY <1>1, <2>1 DEF ClientInv, HeardInv
<1>11. ASSUME NEW d \in Callers, stack'[d] # <<>>, Top(d)'.at \in Sending, ret'[d] = "ok"
       PROVE  reply'[d].to = {Own(d)'}
    <2>1. d # c
        BY <1>3, <1>5, <1>11, CalledNot DEF Under, Top
    <2>2. Top(d)' = Top(d) /\ Own(d)' = Own(d) /\ stack[d] # <<>> /\ ret[d] = "ok"
        BY <1>5, <1>11, <2>1 DEF Top, Own
    <2> QED  BY <1>1, <1>11, <2>2 DEF ClientInv, AnswerIsOwn
<1>12. OneId'
    BY <1>1, <1>2 DEF ClientInv, OneId
<1> QED  BY <1>6, <1>9, <1>10, <1>11, <1>12 DEF ClientInv, HeardInv, AnswerIsOwn

\* The write is over: the frame goes on to wait, with what it has been given.
LEMMA WrittenTo ==
    ASSUME TypeInv, NEW c \in Callers, At(c, "writing")
    PROVE  /\ <<Sent(c)>> \o Rest(c) \in Stacks /\ <<Sent(c)>> \o Rest(c) # <<>>
           /\ Head(<<Sent(c)>> \o Rest(c)) = Sent(c)
           /\ Sent(c).at = "request" /\ Sent(c).t = Top(c).t /\ Sent(c).id = Top(c).id
           /\ Sent(c).m = Top(c).m /\ Under(Rest(c), "request")
<1>1. Top(c) \in Frame /\ Top(c).at = "writing" /\ Under(Rest(c), "writing")
    BY TopFacts
<1>2. Top(c) \in [at : Sending, m : Method, try : 1..2, t : Transports, id : Nat]
    BY <1>1 DEF Frame
<1>3. /\ Sent(c) \in [at : Sending, m : Method, try : 1..2, t : Transports, id : Nat]
      /\ Sent(c).at = "request" /\ Sent(c).t = Top(c).t /\ Sent(c).id = Top(c).id
      /\ Sent(c).m = Top(c).m
    BY <1>2 DEF Sent, Sending
<1>4. Sent(c) \in Frame /\ Under(Rest(c), "request")
    BY <1>1, <1>3 DEF Frame, Under, CalledFrom
<1> QED  BY <1>3, <1>4, Push DEF Under

LEMMA WroteInv ==
    ASSUME ClientInv, NEW c \in Callers,
           Written(c) \/ \E how \in {"lost", "other"} : WriteFails(c, how)
    PROVE  ClientInv'
<1> DEFINE fs == <<Sent(c)>> \o Rest(c)
<1>1. At(c, "writing") /\ Top(c).at = "writing" /\ TypeInv /\ stack[c] # <<>>
    BY DEF Written, WriteFails, ClientInv, At, Top
<1>2. /\ fs \in Stacks /\ fs # <<>> /\ Head(fs) = Sent(c)
      /\ Sent(c).at = "request" /\ Sent(c).t = Top(c).t /\ Sent(c).id = Top(c).id
      /\ Sent(c).m = Top(c).m
    BY <1>1, WrittenTo
<1> HIDE DEF fs
<1>3. /\ stack' = [stack EXCEPT ![c] = fs]
      /\ UNCHANGED <<kind, client, links, asked, offered, reply>>
      /\ \/ pending' = pending /\ ret' = ret
         \/ /\ pending' = pending \ {Own(c)}
            /\ \E how \in {"lost", "other"} : ret' = [ret EXCEPT ![c] = how]
    BY DEF Written, WriteFails, ReturnTo, net, fs
<1>4. /\ stack \in [Callers -> Stacks] /\ ret \in [Callers -> Returned \cup {NoRet}]
      /\ pending \subseteq Pending /\ pending' \subseteq pending
    BY <1>1, <1>3 DEF TypeInv
<1>5. /\ stack' \in [Callers -> Stacks] /\ ret' \in [Callers -> Returned \cup {NoRet}]
      /\ \A d \in Callers : stack'[d] = IF d = c THEN fs ELSE stack[d]
      /\ \A d \in Callers : d # c => ret'[d] = ret[d]
    BY <1>2, <1>3, <1>4 DEF Returned
<1>6. TypeInv'
    BY <1>1, <1>3, <1>4, <1>5 DEF TypeInv
<1>7. \A d \in Callers : Own(d)' = Own(d)
    BY <1>2, <1>5 DEF Own, Top
<1>8. \A d \in Callers : d # c => (Waiting(d)' <=> Waiting(d))
    BY <1>5 DEF Waiting, Top
<1>9. \A p \in pending : Heard(p) /\ p.c \in Callers
    BY <1>4 DEF ClientInv, HeardInv, Pending
<1>10. \A p, q \in pending : p.c = q.c => p = q
    BY <1>9 DEF Heard
<1>11. CASE pending' = pending /\ ret' = ret
    <2>1. Waiting(c)' <=> Waiting(c)
        BY <1>1, <1>2, <1>5, <1>11 DEF Waiting, Top, Sending
    <2>2. \A d \in Callers : Waiting(d)' <=> Waiting(d)
        BY <1>8, <2>1
    <2>3. HeardInv'
        BY <1>7, <1>9, <1>11, <2>2 DEF ClientInv, HeardInv, Heard
    <2>4. ASSUME NEW d \in Callers, stack'[d] # <<>>, Top(d)'.at \in Sending, ret'[d] = "ok"
          PROVE  reply'[d].to = {Own(d)'}
        <3>1. stack[d] # <<>> /\ Top(d).at \in Sending /\ ret[d] = "ok"
            BY <1>1, <1>5, <1>11, <2>4 DEF Top, Sending
        <3> QED  BY <1>3, <1>7, <3>1 DEF ClientInv, AnswerIsOwn
    <2>5. OneId'
        BY <1>3, <1>11 DEF ClientInv, OneId
    <2> QED  BY <1>6, <2>3, <2>4, <2>5 DEF ClientInv, AnswerIsOwn
<1>12. CASE /\ pending' = pending \ {Own(c)}
            /\ \E how \in {"lost", "other"} : ret' = [ret EXCEPT ![c] = how]
    <2>1. ret'[c] # NoRet /\ ret'[c] # "ok"
        BY <1>4, <1>12 DEF NoRet
    <2>2. ~Waiting(c)'
        BY <2>1 DEF Waiting
    <2>3. \A p \in pending' : p \in pending /\ p.c # c
        BY <1>9, <1>12 DEF Heard
    <2>4. HeardInv'
        <3>1. \A p \in pending' : Heard(p)'
            BY <1>7, <1>8, <1>9, <2>3 DEF Heard
        <3>2. ASSUME NEW d \in Callers, Waiting(d)' PROVE \E p \in pending' : p.c = d
            <4>1. d # c /\ Waiting(d)
                BY <1>8, <2>2, <3>2
            <4>2. PICK p \in pending : p.c = d
                BY <4>1 DEF ClientInv, HeardInv
            <4>3. p # Own(c)
                BY <4>1, <4>2 DEF Own
            <4> QED  BY <1>12, <4>2, <4>3
        <3> QED  BY <3>1, <3>2 DEF HeardInv
    <2>5. ASSUME NEW d \in Callers, stack'[d] # <<>>, Top(d)'.at \in Sending, ret'[d] = "ok"
          PROVE  reply'[d].to = {Own(d)'}
        <3>1. d # c
            BY <2>1, <2>5
        <3>2. stack[d] # <<>> /\ Top(d).at \in Sending /\ ret[d] = "ok"
            BY <1>5, <2>5, <3>1 DEF Top
        <3> QED  BY <1>3, <1>7, <3>2 DEF ClientInv, AnswerIsOwn
    <2>6. OneId'
        BY <1>3, <1>4 DEF ClientInv, OneId
    <2> QED  BY <1>6, <2>4, <2>5, <2>6 DEF ClientInv, AnswerIsOwn
<1> QED  BY <1>3, <1>11, <1>12

LEMMA ToolsChangeInv ==
    ASSUME ClientInv, NEW t \in Transports, NEW tools \in SUBSET Tools, ToolsChange(t, tools)
    PROVE  ClientInv'
<1>1. client' \in Clients
    BY DEF ToolsChange, ClientInv, TypeInv, Clients
<1>2. offered' \subseteq Tools /\ UNCHANGED <<kind, links, pending, asked, stack, ret, reply>>
    BY DEF ToolsChange
<1> QED  BY <1>1, <1>2 DEF ClientInv, TypeInv, HeardInv, Heard, OneId, AnswerIsOwn, Waiting, Own, Top

\* An operation's first or next call, with what waits for it below.
LEMMA CallInv ==
    ASSUME ClientInv, NEW c \in Callers, ~Waiting(c), UNCHANGED reply,
           NEW at \in {"connecting", "discovering", "calling", "disconnecting"},
           \/ at # "disconnecting" /\ Connect(c, client, <<Await(at)>>)
           \/ at # "disconnecting" /\ ListTools(c, client, <<Await(at)>>)
           \/ at # "disconnecting" /\ CallTool(c, client, <<Await(at)>>)
           \/ at = "disconnecting" /\ Disconnect(c, client, <<Await(at)>>)
    PROVE  ClientInv'
<1> DEFINE k == <<Await(at)>>
<1>1. Await(at) \in Frame /\ Await(at).at = at
    BY Frames DEF Await
<1>2. k \in Stacks /\ Head(k) = Await(at)
    BY <1>1, OneFrame
<1>3. /\ at # "disconnecting" => Under(k, "opening") /\ Under(k, "ensuring")
      /\ at = "disconnecting" => Under(k, "closing")
    BY <1>1, <1>2 DEF Under, CalledFrom
<1>4. TypeInv /\ client \in Clients /\ reply' \in [Callers -> Replies]
    BY DEF ClientInv, TypeInv
<1> HIDE DEF k
<1>5. Moved(c)
    <2>1. "tools/list" \in Method /\ "tools/call" \in Method
        BY DEF Method
    <2>2. CASE at # "disconnecting" /\ Connect(c, client, k)
        BY <1>3, <1>4, <2>2, ConnectMoves
    <2>3. CASE at # "disconnecting" /\ ListTools(c, client, k)
        BY <1>3, <1>4, <2>1, <2>3, EnsureConnectedMoves DEF ListTools
    <2>4. CASE at # "disconnecting" /\ CallTool(c, client, k)
        BY <1>3, <1>4, <2>1, <2>4, EnsureConnectedMoves DEF CallTool
    <2>5. CASE at = "disconnecting" /\ Disconnect(c, client, k)
        BY <1>3, <1>4, <2>5, DisconnectMoves
    <2> QED  BY <2>2, <2>3, <2>4, <2>5 DEF k
<1> QED  BY <1>4, <1>5, MovedInv

LEMMA FinishInv ==
    ASSUME ClientInv, NEW c \in Callers, ~Waiting(c), Finish(c)
    PROVE  ClientInv'
<1>1. /\ client' \in Clients /\ links' \in LinksOf /\ asked' \subseteq Pending /\ IsFiniteSet(asked')
      /\ kind' = kind /\ offered' = offered /\ pending' = pending /\ asked' = asked
    BY DEF Finish, net, ClientInv, TypeInv
<1>2. NoReply \in Replies
    BY DEF NoReply, Replies
<1>3. reply' \in [Callers -> Replies] /\ \A d \in Callers \ {c} : reply'[d] = reply[d]
    BY <1>2 DEF Finish, ClientInv, TypeInv
<1>4. Moved(c)
    BY <1>1, NoFrame, GotoMoves DEF Finish
<1> QED  BY <1>3, <1>4, MovedInv

\* The operations of the manager.
Operation(c) ==
    \/ Start(c) \/ RefreshTools(c) \/ Reconnect(c) \/ Execute(c)
    \/ Reconnecting(c) \/ Executed(c) \/ Connected(c) \/ Discovered(c)

LEMMA OperationInv == ASSUME ClientInv, NEW c \in Callers, Operation(c) PROVE ClientInv'
<1>1. ~Waiting(c)
    BY DEF Operation, Start, RefreshTools, Reconnect, Execute, Reconnecting, Executed, Connected,
           Discovered, Begin, Idle, Waiting, Resumed, At
<1>2. CASE Start(c)
    BY <1>1, <1>2, CallInv DEF Start, Begin
<1>3. CASE RefreshTools(c)
    BY <1>1, <1>3, CallInv DEF RefreshTools, Begin
<1>4. CASE Reconnect(c)
    BY <1>1, <1>4, CallInv DEF Reconnect, Begin
<1>5. CASE Execute(c)
    BY <1>1, <1>5, CallInv DEF Execute, Begin
<1>6. CASE Reconnecting(c)
    BY <1>1, <1>6, CallInv DEF Reconnecting
<1>7. CASE Connected(c) /\ ret[c] = "ok"
    BY <1>1, <1>7, CallInv DEF Connected
<1>8. CASE Finish(c)
    BY <1>1, <1>8, FinishInv
<1> QED  BY <1>2, <1>3, <1>4, <1>5, <1>6, <1>7, <1>8 DEF Operation, Executed, Connected, Discovered

LEMMA ClientStepInv == ASSUME ClientInv, NEW c \in Callers, ClientStep(c) PROVE ClientInv'
    BY OpenedInv, ReturnsInv, ClosedInv, WroteInv, WakeInv, JoinedInv, AnsweredInv, MendedInv, EnsuredInv
    DEF ClientStep

LEMMA ClientInvInit == ASSUME Init PROVE ClientInv
<1>1. kind \in {"stdio", "http"} /\ client \in Clients
    BY DEF Init, ClientInit, Clients
<1>2. links \in LinksOf
    <2>1. Refused \in Transports
        BY McpAssumption DEF Refused, Transports
    <2> QED  BY <2>1 DEF Init, ClientInit, LinksOf
<1>3. NoReply \in Replies /\ IsFiniteSet({}) /\ <<>> \in Stacks
    BY NoFrame, FS_EmptySet DEF NoReply, Replies
<1>4. TypeInv
    BY <1>1, <1>2, <1>3 DEF Init, ClientInit, TypeInv
<1> QED  BY <1>4 DEF Init, ClientInit, ClientInv, HeardInv, OneId, AnswerIsOwn, Waiting

LEMMA ClientInvStep == ClientInv /\ [Next]_vars => ClientInv'
<1> SUFFICES ASSUME ClientInv, [Next]_vars PROVE ClientInv'
    OBVIOUS
<1>1. CASE UNCHANGED vars
    BY <1>1 DEF vars, clientVars, ClientInv, TypeInv, HeardInv, Heard, OneId,
                AnswerIsOwn, Waiting, Own, Top
<1>2. CASE ServerStep
    BY <1>2, ServerStepInv
<1>3. ASSUME NEW c \in Callers, Operation(c) \/ ClientStep(c) PROVE ClientInv'
    BY <1>3, OperationInv, ClientStepInv
<1>4. ASSUME NEW t \in Transports, NEW tools \in SUBSET Tools, ToolsChange(t, tools)
      PROVE  ClientInv'
    BY <1>4, ToolsChangeInv
<1> QED  BY <1>1, <1>2, <1>3, <1>4 DEF Next, Operation

LEMMA ManagerInvStep == ClientInv /\ ManagerInv /\ [Next]_vars => ManagerInv'
<1> SUFFICES ASSUME ClientInv, ManagerInv, [Next]_vars PROVE ManagerInv'
    OBVIOUS
<1>1. CASE UNCHANGED managerVars
    BY <1>1 DEF managerVars, ManagerInv
<1>2. ASSUME NEW c \in Callers, Begin(c) PROVE ManagerInv'
    <2>1. begun' \in 0..MaxOperations
        BY <1>2, OperationsAssumption DEF Begin, ManagerInv
    <2>2. overlapped' \in BOOLEAN
        BY <1>2 DEF Begin
    <2> QED  BY <1>2, <2>1, <2>2 DEF Begin, ManagerInv
<1>3. ASSUME NEW c \in Callers, Reconnecting(c) \/ Executed(c) PROVE UNCHANGED managerVars
    BY <1>3 DEF Reconnecting, Executed
<1>4. ASSUME NEW c \in Callers, Connected(c) PROVE ManagerInv'
    BY <1>4 DEF Connected, ManagerInv
<1>5. ASSUME NEW c \in Callers, Discovered(c) PROVE ManagerInv'
    <2>1. reply[c].list \subseteq Tools
        BY DEF ClientInv, TypeInv, Replies
    <2> QED  BY <1>5, <2>1 DEF Discovered, Apply, Register, ManagerInv
<1>6. ASSUME NEW c \in Callers, UNCHANGED <<begun, overlapped, known, error, registry>>,
             abandoned' = IF GivesUp(c) THEN abandoned \cup ({client.transport} \cap Transports)
                          ELSE abandoned
      PROVE  ManagerInv'
    BY <1>6 DEF ManagerInv
<1>7. UNCHANGED vars => UNCHANGED managerVars
    BY DEF vars
<1> QED  BY <1>1, <1>2, <1>3, <1>4, <1>5, <1>6, <1>7
         DEF Next, Start, RefreshTools, Reconnect, Execute

-----------------------------------------------------------------------------
\* While operations come one after the other.
Sound(c) == Stray(client, links) /\ TopTrue(c)

LEMMA TransportFacts ==
    /\ NoTransport \notin Transports /\ Refused \in Transports
    /\ \A t \in Transports : t # NoTransport
    BY McpAssumption DEF NoTransport, Refused, Transports

\* Another top than those that TopTrue is about.
LEMMA OtherTop ==
    ASSUME NEW c \in Callers, stack \in [Callers -> Stacks], NEW fs, stack' = [stack EXCEPT ![c] = fs],
           fs = <<>> \/ Head(fs).at \notin {"opening", "closing", "dropping", "disconnecting"}
    PROVE  TopTrue(c)'
<1>1. stack'[c] = fs
    OBVIOUS
<1> QED  BY <1>1 DEF TopTrue, At

LEMMA CalledOther ==
    ASSUME NEW k, NEW at, at # "closing", Under(k, at)
    PROVE  k = <<>> \/ Head(k).at \notin {"opening", "closing", "dropping", "disconnecting"}
    BY DEF Under, CalledFrom

\* A step that leaves the client and its links as they are for the stack it makes.
LEMMA QuietStep ==
    ASSUME NEW c \in Callers, stack \in [Callers -> Stacks], NEW fs, stack' = [stack EXCEPT ![c] = fs],
           fs = <<>> \/ Head(fs).at \notin {"opening", "closing", "dropping", "disconnecting"},
           Stray(client', links'), abandoned \subseteq abandoned'
    PROVE  Sound(c)'
<1>1. TopTrue(c)'
    BY OtherTop
<1>2. Stray(client, links)'
    BY DEF Stray
<1> QED  BY <1>1, <1>2 DEF Sound

LEMMA ConnectSound ==
    ASSUME TypeInv, NEW c \in Callers, NEW cl \in Clients, NEW k, Under(k, "opening"),
           Connect(c, cl, k), Stray(cl, links), abandoned \subseteq abandoned',
           \/ cl.transport = NoTransport \/ IsConnected(cl)
           \/ \A t \in Transports : ~links[t].connected
    PROVE  Sound(c)'
<1>1. stack \in [Callers -> Stacks] /\ links \in LinksOf
    BY DEF TypeInv
<1>2. CASE IsConnected(cl)
    <2>1. client' = cl /\ links' = links /\ stack' = [stack EXCEPT ![c] = k]
        BY <1>2 DEF Connect, ReturnTo
    <2> QED  BY <1>1, <2>1, CalledOther, QuietStep
<1>3. CASE ~IsConnected(cl)
    <2>1. PICK t \in Transports :
              /\ client' = [cl EXCEPT !.transport = t]
              /\ stack' = [stack EXCEPT ![c] = <<Opening(t)>> \o k]
              /\ \A u \in Transports : links'[u].connected = links[u].connected
        <3>1. CASE /\ client' = [cl EXCEPT !.transport = Refused]
                   /\ Goto(c, <<Opening(Refused)>> \o k) /\ UNCHANGED links
            BY <3>1, TransportFacts DEF Goto
        <3>2. CASE /\ Unused # {} /\ client' = [cl EXCEPT !.transport = NewTransport]
                   /\ links' = [links EXCEPT ![NewTransport].child = "starting"]
                   /\ Goto(c, <<Opening(NewTransport)>> \o k)
            <4>1. NewTransport \in Transports
                BY <3>2 DEF NewTransport, Unused
            <4>2. \A u \in Transports : links'[u].connected = links[u].connected
                BY <1>1, <3>2, <4>1 DEF LinksOf
            <4> QED  BY <3>2, <4>1, <4>2 DEF Goto
        <3> QED  BY <1>3, <3>1, <3>2 DEF Connect
    <2>2. Opening(t) \in Frame /\ Opening(t).at = "opening" /\ Opening(t).t = t
        BY Frames DEF Opening
    <2>3. <<Opening(t)>> \o k # <<>> /\ Head(<<Opening(t)>> \o k) = Opening(t)
        BY <2>2, Push DEF Under
    <2>4. stack'[c] = <<Opening(t)>> \o k /\ client'.transport = t
        BY <1>1, <2>1 DEF Clients
    <2>5. TopTrue(c)'
        BY <2>2, <2>3, <2>4 DEF TopTrue, At, Top
    <2>6. \A u \in Transports : links[u].connected => u \in abandoned
        BY <1>3, TransportFacts DEF Stray
    <2>7. Stray(client, links)'
        BY <2>1, <2>6 DEF Stray
    <2> QED  BY <2>5, <2>7 DEF Sound
<1> QED  BY <1>2, <1>3

LEMMA DisconnectSound ==
    ASSUME TypeInv, NEW c \in Callers, NEW cl \in Clients, NEW k, Under(k, "closing"),
           Disconnect(c, cl, k), Stray(cl, links), abandoned \subseteq abandoned'
    PROVE  Sound(c)'
<1>1. stack \in [Callers -> Stacks] /\ links \in LinksOf /\ client' = cl
    BY DEF TypeInv, Disconnect
<1>2. CASE cl.transport = NoTransport
    <2>1. links' = links /\ stack'[c] = k
        BY <1>1, <1>2 DEF Disconnect, ReturnTo
    <2>2. k = <<>> \/ Head(k).at \in {"dropping", "disconnecting"}
        BY DEF Under, CalledFrom
    <2>3. TopTrue(c)'
        BY <1>1, <1>2, <2>1, <2>2 DEF TopTrue, At
    <2> QED  BY <1>1, <2>1, <2>3 DEF Sound, Stray
<1>3. CASE cl.transport # NoTransport
    <2> DEFINE f == Closing(cl.transport, kind = "stdio" /\ Link(cl).connected)
    <2>1. cl.transport \in Transports
        BY <1>3 DEF Clients
    <2>2. f \in Frame /\ f.at = "closing" /\ f.t = cl.transport
        BY <2>1, Frames DEF Closing
    <2>3. links' = [links EXCEPT ![cl.transport].connected = FALSE]
          /\ stack' = [stack EXCEPT ![c] = <<f>> \o k]
        BY <1>3 DEF Disconnect, Goto
    <2> HIDE DEF f
    <2>4. stack'[c] = <<f>> \o k /\ <<f>> \o k # <<>> /\ Head(<<f>> \o k) = f
        BY <1>1, <2>2, <2>3, Push DEF Under
    <2>5. \A u \in Transports : links'[u].connected <=> u # cl.transport /\ links[u].connected
        BY <1>1, <2>1, <2>3 DEF LinksOf
    <2>6. TopTrue(c)'
        BY <1>1, <2>1, <2>2, <2>4, <2>5 DEF TopTrue, At, Top
    <2>7. Stray(client, links)'
        BY <1>1, <2>5 DEF Stray
    <2> QED  BY <2>6, <2>7 DEF Sound
<1> QED  BY <1>2, <1>3

LEMMA AttemptReconnectSound ==
    ASSUME TypeInv, NEW c \in Callers, NEW cl \in Clients, NEW k, Under(k, "sleeping"),
           AttemptReconnect(c, cl, k), Stray(cl, links), abandoned \subseteq abandoned'
    PROVE  Sound(c)'
<1>1. stack \in [Callers -> Stacks] /\ client' = cl /\ links' = links
    BY DEF TypeInv, AttemptReconnect, net
<1>2. CASE stack' = [stack EXCEPT ![c] = k]
    BY <1>1, <1>2, CalledOther, QuietStep
<1>3. CASE stack' = [stack EXCEPT ![c] = <<Attempt("sleeping", 1)>> \o k]
    <2>1. Attempt("sleeping", 1) \in Frame /\ Attempt("sleeping", 1).at = "sleeping"
        BY Frames, McpAssumption DEF Attempt
    <2>2. Head(<<Attempt("sleeping", 1)>> \o k) = Attempt("sleeping", 1)
        BY <2>1, Push DEF Under
    <2> QED  BY <1>1, <1>3, <2>1, <2>2, QuietStep
<1> QED  BY <1>2, <1>3 DEF AttemptReconnect, ReturnTo, Goto

LEMMA SendSound ==
    ASSUME TypeInv, HeardInv, NEW c \in Callers, NEW cl \in Clients, NEW ls \in LinksOf,
           NEW m \in Method, NEW try \in 1..2, NEW k, Under(k, "request"),
           Send(c, cl, ls, m, try, k), Stray(cl, ls), abandoned \subseteq abandoned'
    PROVE  Sound(c)'
<1>1. stack \in [Callers -> Stacks] /\ client' = cl /\ links' = ls
    BY DEF TypeInv, Send
<1>2. CASE stack' = [stack EXCEPT ![c] = k]
    BY <1>1, <1>2, CalledOther, QuietStep
<1> DEFINE at == IF kind = "stdio" THEN "writing" ELSE "request"
           f == Request(at, m, try, cl.transport, FreshId(cl.transport))
<1>3. CASE cl.transport # NoTransport /\ stack' = [stack EXCEPT ![c] = <<f>> \o k]
    <2>1. cl.transport \in Transports /\ FreshId(cl.transport) \in Nat
        BY <1>3, FreshIdIsFresh DEF Clients
    <2>2. at \in Sending /\ f \in Frame /\ f.at = at
        BY <2>1, Frames DEF Request, Sending
    <2> HIDE DEF f, at
    <2>3. Head(<<f>> \o k) = f
        BY <2>2, Push DEF Under, CalledFrom, Sending
    <2> QED  BY <1>1, <1>3, <2>2, <2>3, QuietStep DEF Sending
<1> QED  BY <1>2, <1>3 DEF Send, ReturnTo, Goto

LEMMA EnsureConnectedSound ==
    ASSUME TypeInv, NEW c \in Callers, NEW k, Under(k, "ensuring"),
           NEW m \in Method, EnsureConnected(c, client, <<For("ensuring", m)>> \o k),
           Stray(client, links), abandoned \subseteq abandoned'
    PROVE  Sound(c)'
<1> DEFINE f == For("ensuring", m)
<1>1. f \in Frame /\ f.at = "ensuring"
    BY Frames DEF For
<1> HIDE DEF f
<1>2. <<f>> \o k \in Stacks /\ <<f>> \o k # <<>> /\ Head(<<f>> \o k) = f
    BY <1>1, Push DEF Under
<1>3. Under(<<f>> \o k, "opening") /\ Under(<<f>> \o k, "sleeping") /\ client \in Clients
    BY <1>1, <1>2 DEF Under, CalledFrom, TypeInv
<1> QED  BY <1>3, ConnectSound, AttemptReconnectSound DEF EnsureConnected, f

\* The steps of the one caller there is.
LEMMA ClientStepSound ==
    ASSUME ClientInv, NEW c \in Callers, ClientStep(c), Sound(c),
           abandoned' = IF GivesUp(c) THEN abandoned \cup ({client.transport} \cap Transports)
                        ELSE abandoned
    PROVE  Sound(c)'
<1> DEFINE k == Rest(c)
<1>1. /\ TypeInv /\ HeardInv /\ client \in Clients /\ links \in LinksOf
      /\ stack \in [Callers -> Stacks] /\ Stray(client, links) /\ abandoned \subseteq abandoned'
    BY DEF ClientInv, TypeInv, Sound
<1>2. CASE Opened(c)
    <2> DEFINE t == Top(c).t
               ls == [links EXCEPT ![t].connected = TRUE, ![t].child = "live"]
               cl == [client EXCEPT !.dirty = FALSE]
               h == <<Await("handshake")>> \o k
    <2>1. Top(c) \in Frame /\ Top(c).at = "opening" /\ Under(k, "opening") /\ t # Refused /\ client.transport = t
        BY <1>1, <1>2, TopFacts DEF Opened, Sound, TopTrue
    <2>2. t \in Transports
        BY <2>1 DEF Frame
    <2>3. ls \in LinksOf /\ cl \in Clients /\ cl.transport = t
        BY <1>1, <2>1, <2>2, LinksChange DEF Clients
    <2>4. \A u \in Transports : ls[u].connected => u = t \/ links[u].connected
        BY <1>1, <2>2 DEF LinksOf
    <2>5. Stray(cl, ls)
        BY <1>1, <2>1, <2>3, <2>4 DEF Stray
    <2>6. Await("handshake") \in Frame /\ Await("handshake").at = "handshake"
        BY Frames DEF Await
    <2>7. Under(h, "request")
        BY <2>1, <2>6, PushOn DEF CalledFrom
    <2>8. Send(c, cl, ls, "initialize", 1, h)
        BY <1>2 DEF Opened
    <2> HIDE DEF ls, cl, h
    <2> QED  BY <1>1, <2>3, <2>5, <2>7, <2>8, SendSound DEF Method
<1>3. CASE OpenFails(c)
    <2>1. Under(k, "opening") /\ client.transport = Refused /\ ~links[Refused].connected
        BY <1>1, <1>3, TopFacts DEF OpenFails, Sound, TopTrue, LinksOf
    <2>2. /\ stack' = [stack EXCEPT ![c] = k] /\ links' = links
        BY <1>3 DEF OpenFails, ReturnTo, net
    <2>3. Stray(client', links')
        BY <1>1, <2>1, <2>2 DEF Stray
    <2> QED  BY <1>1, <2>1, <2>2, <2>3, CalledOther, QuietStep
<1>4. CASE Handshaken(c) \/ Listed(c)
    <2>1. \E at \in {"handshake", "listing"} : Under(k, at)
        BY <1>1, <1>4, TopFacts DEF Handshaken, Listed, Resumed
    <2>2. /\ stack' = [stack EXCEPT ![c] = k] /\ links' = links
        BY <1>4 DEF Handshaken, Listed, ReturnTo, net
    <2>3. client'.transport = client.transport
        BY <1>1, <1>4 DEF Handshaken, Listed, Clients
    <2>4. Stray(client', links')
        BY <1>1, <2>2, <2>3 DEF Stray
    <2> QED  BY <1>1, <2>1, <2>2, <2>4, CalledOther, QuietStep
<1>5. CASE Closed(c)
    <2>1. Under(k, "closing") /\ ~links[client.transport].connected
        BY <1>1, <1>5, TopFacts DEF Closed, Sound, TopTrue
    <2>2. stack'[c] = k /\ links' = links /\ client'.transport = NoTransport
        BY <1>1, <1>5 DEF Closed, Rest, Reset, Clients
    <2>3. k = <<>> \/ Head(k).at \in {"dropping", "disconnecting"}
        BY <2>1 DEF Under, CalledFrom
    <2>4. TopTrue(c)'
        BY <2>2, <2>3 DEF TopTrue, At
    <2>5. Stray(client, links)'
        BY <1>1, <2>1, <2>2 DEF Stray
    <2> QED  BY <2>4, <2>5 DEF Sound
<1>6. CASE Wake(c) \/ Dropped(c)
    <2>1. PICK at \in {"sleeping", "dropping"} : At(c, at) /\ (Dropped(c) => at = "dropping")
        BY <1>6 DEF Wake, Dropped, Resumed
    <2>2. Top(c) \in Frame /\ Top(c).at = at /\ Under(k, at)
        BY <1>1, <2>1, TopFacts
    <2>3. Top(c).n \in 1..MaxReconnectAttempts
        BY <2>2 DEF Frame, Sending
    <2> DEFINE d == Attempt("dropping", Top(c).n)
               j == Attempt("joining", Top(c).n)
    <2>4. d \in Frame /\ d.at = "dropping" /\ j \in Frame /\ j.at = "joining"
        BY <2>3, Frames DEF Attempt
    <2> HIDE DEF d, j
    <2>5. Under(<<d>> \o k, "closing") /\ Under(<<j>> \o k, "opening")
        BY <2>2, <2>4, PushOn DEF CalledFrom
    <2>6. CASE Wake(c)
        BY <1>1, <2>5, <2>6, DisconnectSound DEF Wake, d
    <2>7. CASE Dropped(c)
        <3>1. client.transport = NoTransport
            BY <2>7 DEF Sound, TopTrue, Dropped, Resumed
        <3> QED  BY <1>1, <2>5, <2>7, <3>1, ConnectSound DEF Dropped, j
    <2> QED  BY <1>6, <2>6, <2>7
<1>7. CASE Joined(c)
    <2>1. Top(c) \in Frame /\ Top(c).at = "joining" /\ Under(k, "joining") /\ links' = links
        BY <1>1, <1>7, TopFacts DEF Joined, Resumed, net
    <2>2. Top(c).n \in 1..MaxReconnectAttempts
        BY <2>1 DEF Frame, Sending
    <2>3. CASE client' = [client EXCEPT !.dirty = FALSE] /\ ReturnTo(c, k, "ok")
        <3>1. Stray(client', links') /\ stack' = [stack EXCEPT ![c] = k]
            BY <1>1, <2>1, <2>3 DEF Stray, Clients, ReturnTo
        <3> QED  BY <1>1, <2>1, <3>1, CalledOther, QuietStep
    <2>4. CASE /\ Top(c).n < MaxReconnectAttempts /\ UNCHANGED client
               /\ Goto(c, <<Attempt("sleeping", Top(c).n + 1)>> \o k)
        <3> DEFINE f == Attempt("sleeping", Top(c).n + 1)
        <3>1. Top(c).n + 1 \in 1..MaxReconnectAttempts
            BY <2>2, <2>4, McpAssumption
        <3>2. f \in Frame /\ f.at = "sleeping"
            BY <3>1, Frames DEF Attempt
        <3> HIDE DEF f
        <3>3. Head(<<f>> \o k) = f /\ stack' = [stack EXCEPT ![c] = <<f>> \o k]
            BY <2>1, <2>4, <3>2, PushOn DEF Goto, f
        <3>4. Stray(client', links')
            BY <1>1, <2>1, <2>4 DEF Stray
        <3> QED  BY <1>1, <3>2, <3>3, <3>4, QuietStep
    <2>5. CASE /\ ret[c] # "ok" /\ Top(c).n = MaxReconnectAttempts
               /\ client' = [client EXCEPT !.transport = NoTransport] /\ ReturnTo(c, k, "ok")
        <3>1. GivesUp(c)
            BY <1>7, <2>5 DEF GivesUp, Joined
        <3>2. \A t \in Transports : links[t].connected => t \in abandoned'
            BY <1>1, <3>1 DEF Stray
        <3>3. Stray(client, links)'
            BY <2>1, <3>2 DEF Stray
        <3>4. TopTrue(c)'
            BY <1>1, <2>1, <2>5, CalledOther, OtherTop DEF ReturnTo
        <3> QED  BY <3>3, <3>4 DEF Sound
    <2> QED  BY <1>7, <2>3, <2>4, <2>5 DEF Joined
<1>8. CASE Answered(c)
    <2>1. Top(c) \in Frame /\ Top(c).at = "request" /\ Under(k, "request")
        BY <1>1, <1>8, TopFacts DEF Answered, Resumed
    <2>2. Top(c).m \in Method
        BY <2>1 DEF Frame
    <2> DEFINE f == For("mending", Top(c).m)
    <2>3. f \in Frame /\ f.at = "mending"
        BY <2>2, Frames DEF For
    <2> HIDE DEF f
    <2>4. Under(<<f>> \o k, "sleeping")
        BY <2>1, <2>3, PushOn DEF CalledFrom
    <2>5. [client EXCEPT !.dirty = TRUE] \in Clients /\ Stray([client EXCEPT !.dirty = TRUE], links)
        BY <1>1 DEF Clients, Stray
    <2>6. CASE \E cl \in Clients : Stray(cl, links) /\ AttemptReconnect(c, cl, <<f>> \o k)
        BY <1>1, <2>4, <2>6, AttemptReconnectSound
    <2>7. CASE /\ stack' = [stack EXCEPT ![c] = k] /\ UNCHANGED <<client, net>>
        <3>1. Stray(client', links')
            BY <1>1, <2>7 DEF net
        <3> QED  BY <1>1, <2>1, <2>7, <3>1, CalledOther, QuietStep
    <2> QED  BY <1>1, <1>8, <2>5, <2>6, <2>7 DEF Answered, ReturnTo, f
<1>9. CASE Mended(c) \/ Ensured(c)
    <2>1. PICK at \in {"mending", "ensuring"} : At(c, at)
        BY <1>9 DEF Mended, Ensured, Resumed
    <2>2. Top(c) \in Frame /\ Top(c).at = at /\ Under(k, at)
        BY <1>1, <2>1, TopFacts
    <2>3. Top(c).m \in Method /\ Under(k, "request")
        BY <2>2 DEF Frame, Under, CalledFrom
    <2>4. Await("listing") \in Frame /\ Await("listing").at = "listing"
        BY Frames DEF Await
    <2>5. Under(<<Await("listing")>> \o k, "request")
        BY <2>2, <2>4, PushOn DEF CalledFrom
    <2>6. CASE \E try \in 1..2 : \E h : Under(h, "request") /\ Send(c, client, links, Top(c).m, try, h)
        BY <1>1, <2>3, <2>6, SendSound
    <2>7. CASE /\ stack' = [stack EXCEPT ![c] = k] /\ UNCHANGED <<client, net>>
        <3>1. Stray(client', links')
            BY <1>1, <2>7 DEF net
        <3> QED  BY <1>1, <2>2, <2>7, <3>1, CalledOther, QuietStep
    <2> QED  BY <1>9, <2>3, <2>5, <2>6, <2>7 DEF Mended, Ensured, ReturnTo
<1>10. CASE Written(c) \/ \E how \in {"lost", "other"} : WriteFails(c, how)
    <2>1. At(c, "writing") /\ stack' = [stack EXCEPT ![c] = <<Sent(c)>> \o k]
        BY <1>10 DEF Written, WriteFails, ReturnTo
    <2>2. Head(<<Sent(c)>> \o k) = Sent(c) /\ Sent(c).at = "request"
        BY <1>1, <2>1, WrittenTo
    <2>3. Stray(client', links')
        BY <1>1, <1>10 DEF Written, WriteFails, net, Stray
    <2> QED  BY <1>1, <2>1, <2>2, <2>3, QuietStep
<1> QED  BY <1>2, <1>3, <1>4, <1>5, <1>6, <1>7, <1>8, <1>9, <1>10 DEF ClientStep

LEMMA OperationSound ==
    ASSUME ClientInv, NEW c \in Callers, Operation(c), UNCHANGED abandoned,
           Sound(c), begun = 0 => \A t \in Transports : ~links[t].connected
    PROVE  Sound(c)'
<1>1. /\ TypeInv /\ client \in Clients /\ stack \in [Callers -> Stacks] /\ Stray(client, links)
      /\ abandoned \subseteq abandoned'
    BY DEF ClientInv, TypeInv, Sound, Stray
<1>2. \A at \in {"connecting", "discovering", "calling", "disconnecting"} :
          /\ Await(at) \in Frame /\ Await(at).at = at
          /\ <<Await(at)>> \in Stacks /\ Head(<<Await(at)>>) = Await(at)
    BY Frames, OneFrame DEF Await
<1>3. /\ \A at \in {"connecting", "discovering", "calling"} :
             Under(<<Await(at)>>, "opening") /\ Under(<<Await(at)>>, "ensuring")
      /\ Under(<<Await("disconnecting")>>, "closing")
    BY <1>2 DEF Under, CalledFrom
<1>4. CASE Start(c)
    <2>1. Connect(c, client, <<Await("connecting")>>) /\ begun = 0
        BY <1>4 DEF Start
    <2> QED  BY <1>1, <1>3, <2>1, ConnectSound
<1>5. CASE Reconnect(c)
    BY <1>1, <1>3, <1>5, DisconnectSound DEF Reconnect
<1>6. CASE Reconnecting(c)
    <2>1. client.transport = NoTransport
        BY <1>6 DEF Sound, TopTrue, Reconnecting, Resumed
    <2> QED  BY <1>1, <1>3, <1>6, <2>1, ConnectSound DEF Reconnecting
<1>7. CASE ListTools(c, client, <<Await("discovering")>>) \/ CallTool(c, client, <<Await("calling")>>)
    BY <1>1, <1>3, <1>7, EnsureConnectedSound DEF ListTools, CallTool, Method
<1>8. CASE Finish(c)
    <2>1. stack' = [stack EXCEPT ![c] = <<>>] /\ Stray(client', links')
        BY <1>1, <1>8 DEF Finish, Goto, net
    <2> QED  BY <1>1, <2>1, QuietStep
<1> QED  BY <1>4, <1>5, <1>6, <1>7, <1>8
         DEF Operation, RefreshTools, Execute, Executed, Connected, Discovered

\* Whoever moves, every other stack stays as it was.
LEMMA OthersStay ==
    ASSUME ClientInv, NEW c \in Callers, Operation(c) \/ ClientStep(c),
           NEW d \in Callers, d # c
    PROVE  stack'[d] = stack[d]
<1>1. stack \in [Callers -> Stacks]
    BY DEF ClientInv, TypeInv
<1>2. \A fs : stack' = [stack EXCEPT ![c] = fs] => stack'[d] = stack[d]
    BY <1>1
<1>3. \A fs : Goto(c, fs) => stack'[d] = stack[d]
    BY <1>2 DEF Goto
<1>4. \A fs, how : ReturnTo(c, fs, how) => stack'[d] = stack[d]
    BY <1>2 DEF ReturnTo
<1>5. \A cl, k : Connect(c, cl, k) \/ Disconnect(c, cl, k) \/ AttemptReconnect(c, cl, k)
                     => stack'[d] = stack[d]
    BY <1>3, <1>4 DEF Connect, Disconnect, AttemptReconnect
<1>6. \A cl, ls, m, try, k : Send(c, cl, ls, m, try, k) => stack'[d] = stack[d]
    BY <1>3, <1>4 DEF Send
<1>7. \A cl, k : EnsureConnected(c, cl, k) => stack'[d] = stack[d]
    BY <1>5 DEF EnsureConnected
<1>8. CASE Operation(c)
    BY <1>3, <1>5, <1>7, <1>8
       DEF Operation, Start, RefreshTools, Reconnect, Execute, Reconnecting, Executed, Connected,
           Discovered, Finish, ListTools, CallTool
<1>9. CASE ClientStep(c)
    BY <1>2, <1>3, <1>4, <1>5, <1>6, <1>9
       DEF ClientStep, Opened, OpenFails, Handshaken, Closed, Wake, Dropped, Joined, Answered,
           Mended, Ensured, Listed, Written, WriteFails
<1> QED  BY <1>8, <1>9

LEMMA AloneMoves ==
    ASSUME ClientInv, AloneInv, NEW c \in Callers, Operation(c) \/ ClientStep(c),
           ~overlapped' => ~overlapped /\ Sound(c)' /\ \A d \in Callers \ {c} : Idle(d),
           begun' # 0
    PROVE  AloneInv'
<1>1. \A d \in Callers \ {c} : stack'[d] = stack[d]
    BY OthersStay
<1>2. ASSUME ~overlapped'
      PROVE  /\ Stray(client, links)'
             /\ \A d \in Callers : TopTrue(d)'
             /\ \A d, e \in Callers : ~Idle(d)' /\ ~Idle(e)' => d = e
    <2>1. Stray(client, links)' /\ TopTrue(c)'
        BY <1>2 DEF Sound
    <2>2. \A d \in Callers \ {c} : stack'[d] = <<>>
        BY <1>1, <1>2 DEF Idle
    <2>3. \A d \in Callers \ {c} : TopTrue(d)' /\ Idle(d)'
        BY <2>2 DEF TopTrue, At, Idle
    <2> QED  BY <2>1, <2>3
<1> QED  BY <1>2 DEF AloneInv

\* Nobody moves, and the client keeps its transport and the links their flags.
LEMMA AloneStays ==
    ASSUME AloneInv, UNCHANGED <<stack, begun, overlapped, abandoned>>,
           client'.transport = client.transport,
           \A t \in Transports : links'[t].connected = links[t].connected,
           TypeInv
    PROVE  AloneInv'
<1>1. ASSUME ~overlapped, NEW c \in Callers PROVE TopTrue(c)'
    <2>1. TopTrue(c)
        BY <1>1 DEF AloneInv
    <2>2. At(c, "closing") => Top(c).t \in Transports
        <3>1. At(c, "closing") => Top(c) \in Frame /\ Top(c).at = "closing"
            BY TopFacts
        <3> QED  BY <3>1 DEF Frame
    <2> QED  BY <2>1, <2>2 DEF TopTrue, At, Top
<1>2. ~overlapped => Stray(client, links)'
    BY DEF AloneInv, Stray
<1> QED  BY <1>1, <1>2 DEF AloneInv, Idle

LEMMA AloneInvStep == ClientInv /\ ManagerInv /\ AloneInv /\ [Next]_vars => AloneInv'
<1> SUFFICES ASSUME ClientInv, ManagerInv, AloneInv, [Next]_vars PROVE AloneInv'
    OBVIOUS
<1>1. TypeInv /\ client \in Clients /\ links \in LinksOf /\ begun \in Nat
    BY OperationsAssumption DEF ClientInv, TypeInv, ManagerInv
<1>2. CASE UNCHANGED vars
    BY <1>1, <1>2, AloneStays DEF vars, clientVars, managerVars
<1>3. CASE ServerStep /\ UNCHANGED managerVars
    <2>1. ASSUME NEW t \in Transports, ChildExits(t)
          PROVE  \A u \in Transports : links'[u].connected = links[u].connected
        BY <1>1, <2>1 DEF ChildExits, LinksOf
    <2>2. UNCHANGED <<client, stack>>
        BY <1>3 DEF ServerStep, Respond, Deliver, TimesOut, FetchEnds, FetchAborts, FetchFails,
                    ChildExits
    <2>3. \A u \in Transports : links'[u].connected = links[u].connected
        BY <1>3, <2>1 DEF ServerStep, Respond, Deliver, TimesOut, FetchEnds, FetchAborts,
                          FetchFails
    <2> QED  BY <1>1, <1>3, <2>2, <2>3, AloneStays DEF managerVars
<1>4. ASSUME NEW t \in Transports, NEW tools \in SUBSET Tools, ToolsChange(t, tools),
             UNCHANGED managerVars
      PROVE  AloneInv'
    <2>1. client'.transport = client.transport /\ links' = links /\ stack' = stack
        BY <1>1, <1>4 DEF ToolsChange, Clients
    <2> QED  BY <1>1, <1>4, <2>1, AloneStays DEF managerVars
<1>5. ASSUME NEW c \in Callers, ClientStep(c), UNCHANGED <<begun, overlapped>>,
             abandoned' = IF GivesUp(c) THEN abandoned \cup ({client.transport} \cap Transports)
                          ELSE abandoned
      PROVE  AloneInv'
    <2>1. ~Idle(c)
        BY <1>5 DEF ClientStep, Opened, OpenFails, Handshaken, Closed, Wake, Dropped, Joined,
                    Answered, Mended, Ensured, Listed, Written, WriteFails, Resumed, At, Idle
    <2>2. begun' # 0
        BY <1>5, <2>1 DEF AloneInv
    <2>3. ~overlapped => Sound(c) /\ \A d \in Callers \ {c} : Idle(d)
        BY <2>1 DEF AloneInv, Sound
    <2>4. ~overlapped => Sound(c)'
        BY <1>5, <2>3, ClientStepSound
    <2> QED  BY <1>5, <2>2, <2>3, <2>4, AloneMoves
<1>6. ASSUME NEW c \in Callers, Operation(c) PROVE AloneInv'
    <2>1. UNCHANGED abandoned
        BY <1>6 DEF Operation, Start, RefreshTools, Reconnect, Execute, Begin, Reconnecting,
                    Executed, Connected, Discovered, managerVars
    <2>2. ~overlapped => Sound(c)'
        BY <1>6, <2>1, OperationSound DEF AloneInv, Sound
    <2>3. CASE Begin(c)
        <3>1. begun' # 0
            BY <1>1, <2>3 DEF Begin
        <3>2. overlapped' = (overlapped \/ \E d \in Callers : ~Idle(d))
            BY <2>3 DEF Begin
        <3>3. ~overlapped' => ~overlapped /\ \A d \in Callers : Idle(d)
            BY <3>2
        <3> QED  BY <1>6, <2>2, <3>1, <3>3, AloneMoves
    <2>4. CASE ~Idle(c) /\ UNCHANGED <<begun, overlapped>>
        <3>1. begun' # 0 /\ (~overlapped => \A d \in Callers \ {c} : Idle(d))
            BY <2>4 DEF AloneInv
        <3> QED  BY <1>6, <2>2, <2>4, <3>1, AloneMoves
    <2> QED  BY <1>6, <2>3, <2>4 DEF Operation, Start, RefreshTools, Reconnect, Execute,
                Reconnecting, Executed, Connected, Discovered, managerVars, Resumed, At, Idle
<1> QED  BY <1>2, <1>3, <1>4, <1>5, <1>6 DEF Next, Operation

LEMMA InitInv == Init => IInv
<1> SUFFICES ASSUME Init PROVE IInv
    OBVIOUS
<1>1. AloneInv
    BY DEF Init, ClientInit, AloneInv, Stray, TopTrue, At, Idle
<1>2. ManagerInv
    <2>1. 0 \in 0..MaxOperations
        BY OperationsAssumption
    <2> QED  BY <2>1 DEF Init, ManagerInv
<1> QED  BY <1>1, <1>2, ClientInvInit DEF IInv

LEMMA StepInv == IInv /\ [Next]_vars => IInv'
    BY ClientInvStep, ManagerInvStep, AloneInvStep DEF IInv

LEMMA Invariance == Spec => []IInv
    BY InitInv, StepInv, PTL DEF Spec

\* The promise of a request is pending until it is settled (client.ts request,
\* the pending maps of the transports), also while its caller is in the write:
\* no path of disconnect, reconnection and retry leaves a promise that nothing
\* will settle, and no pending request belongs to nobody.
THEOREM WaitsAreAlwaysHeard == Spec => []WaitsAreHeard
<1>1. IInv => WaitsAreHeard
    BY DEF IInv, ClientInv, HeardInv, Heard, WaitsAreHeard
<1> QED  BY <1>1, Invariance, PTL

\* A call that succeeds returns the other end's answer to the very request of
\* this caller and this try (stdio.ts dispatchFrame).
THEOREM AnswersAreOwn == Spec => []AnswerIsOwn
<1>1. IInv => AnswerIsOwn
    BY DEF IInv, ClientInv
<1> QED  BY <1>1, Invariance, PTL

\* The manager's tables are of their types and what it lists can be called
\* (manager.ts applyDiscovered, registry.ts register).
THEOREM ManagerIsHonest == Spec => []ManagerHonest
<1>1. ASSUME IInv PROVE ManagerHonest
    <2>1. /\ client \in Clients /\ links \in LinksOf /\ stack \in [Callers -> Stacks]
        BY <1>1 DEF IInv, ClientInv, TypeInv
    <2>2. Cardinality(client.cache) <= 1
        <3>1. client.cache = {} \/ \E l : client.cache = {l}
            BY <2>1 DEF Clients
        <3>2. Cardinality({}) = 0
            BY FS_EmptySet
        <3>3. \A l : Cardinality({l}) = 1
            BY FS_Singleton
        <3>4. Cardinality(client.cache) \in {0, 1}
            BY <3>1, <3>2, <3>3
        <3> QED  BY <3>4
    <2>3. \A c \in Callers : \A j \in DOMAIN stack[c] : stack[c][j] \in Frame
        <3>1. ASSUME NEW c \in Callers, NEW j \in DOMAIN stack[c] PROVE stack[c][j] \in Frame
            <4>1. stack[c] \in Seq(Frame)
                BY <2>1 DEF Stacks
            <4> QED  BY <3>1, <4>1, LenProperties, ElementOfSeq
        <3> QED  BY <3>1
    <2>4. ClientTypeOK
        BY <1>1, <2>1, <2>2, <2>3
           DEF IInv, ClientInv, TypeInv, ClientTypeOK, Clients, LinksOf, Replies
    <2> QED  BY <1>1, <2>4 DEF IInv, ManagerInv, ManagerHonest, TypeOK, ListedIsRegistered
<1> QED  BY <1>1, Invariance, PTL

\* While operations come one after the other, a connected transport is the
\* client's own or one that a reconnection was given up with (client.ts
\* connect, disconnect, attemptReconnect).
THEOREM NoTransportStrays == Spec => []NoStrayTransport
<1>1. IInv => NoStrayTransport
    BY DEF IInv, AloneInv, Stray, NoStrayTransport
<1> QED  BY <1>1, Invariance, PTL

-----------------------------------------------------------------------------
\* Providers: the registry of adapters, and the streams that are read from one.

\* The adapters of a configuration, in the cache or being verified.
Holders(k) == cache[k] \cup inFlight[k]

Shapes ==
  /\ cache \in [Key -> SUBSET Serial] /\ inFlight \in [Key -> SUBSET Serial]
  /\ current \in [Key -> Nat]

\* An adapter is of one configuration, and was made before.
Numbered ==
  /\ \A k \in Key : Holders(k) \subseteq 1..made
  /\ failed \subseteq 1..made
  /\ \A k, l \in Key : k # l => Holders(k) \cap Holders(l) = {}

\* The chunks of what was read of a stream.
SoFar(r) == ChunksOf(SubSeq(r.sent, 1, r.read))

StreamTrue(r) ==
  /\ r.at # "verifying" => r.key = {}
  /\ r.read <= Len(r.sent) /\ Len(r.sent) <= MaxParts
  /\ r.at = "usage" => r.read = Len(r.sent) /\ r.sdk = "ended"
  /\ \/ r.got = SoFar(r)
     \/ /\ r.at = "over"
        /\ \/ r.got = SoFar(r) \o << "usage" >> /\ r.sdk = "ended" /\ r.read = Len(r.sent)
           \/ r.got = SoFar(r) \o << "thrown" >> /\ r.sdk = "failed"

\* What a scan has of a backend comes from a port of it that has answered.
Reported(r, b) ==
  LET up == {p \in r.answered : BackendAt(p) = b}
  IN  IF up = {} THEN r.out[b] = "empty" ELSE r.out[b] \in up

ScanTrue(r) ==
  /\ \A b \in {"ollama", "lmstudio"} : Reported(r, b)
  /\ r.at \in {"listing", "over"} =>
       r.from = "env" \/ \E b \in {"ollama", "lmstudio"} : r.from = r.out[b]
  /\ r.models = "some" => r.at = "over" /\ r.from \in r.answered

PInv ==
  /\ ProvidersTypeOK /\ Shapes /\ Numbered /\ OnePerKey
  /\ \A c \in Calls : StreamTrue(call[c])
  /\ \A s \in Scans : ScanTrue(scan[s])

-----------------------------------------------------------------------------
LEMMA LeastOf ==
  ASSUME NEW T \in SUBSET Nat, T # {}
  PROVE  \E n \in T : \A m \in T : n <= m
<1>1. PICK x \in T : \A y \in T : <<y, x>> \notin OpToRel(<, Nat)
  BY WFMin, NatLessThanWellFounded, Zenon
<1>2. \A y \in T : ~(y < x)
  BY <1>1, Zenon DEF OpToRel
<1> QED  BY <1>2

\* g flattens the first n sequences of s, as FlattenSeq does.
Flattens(g, s, n) == g = [i \in 1..n |-> IF i = 1 THEN s[i] ELSE g[i - 1] \o s[i]]

LEMMA FlattensLonger ==
  ASSUME NEW s, NEW n \in Nat, NEW g, Flattens(g, s, n)
  PROVE  \E h : Flattens(h, s, n + 1)
<1> DEFINE h == [i \in 1..(n + 1) |-> IF i \in 1..n THEN g[i]
                                      ELSE IF i = 1 THEN s[i] ELSE g[i - 1] \o s[i]]
<1>1. \A i \in 1..n : g[i] = IF i = 1 THEN s[i] ELSE g[i - 1] \o s[i]
  BY DEF Flattens
<1>2. \A i \in 1..(n + 1) : h[i] = IF i = 1 THEN s[i] ELSE h[i - 1] \o s[i]
  BY <1>1
<1>3. h = [i \in 1..(n + 1) |-> h[i]]
  OBVIOUS
<1> HIDE DEF h
<1>4. h = [i \in 1..(n + 1) |-> IF i = 1 THEN s[i] ELSE h[i - 1] \o s[i]]
  BY <1>2, <1>3
<1> QED  BY <1>4 DEF Flattens

LEMMA FlattensExists ==
  ASSUME NEW s, NEW n \in Nat
  PROVE  \E g : Flattens(g, s, n)
<1> DEFINE T == {m \in Nat : ~ \E g : Flattens(g, s, m)}
<1> SUFFICES ASSUME T # {} PROVE FALSE
  OBVIOUS
<1>1. PICK m \in T : \A k \in T : m <= k
  BY LeastOf
<1>2. Flattens(<< >>, s, 0)
  BY DEF Flattens
<1>3. m # 0 /\ m \in Nat
  BY <1>2
<1>4. m - 1 \in Nat /\ m - 1 \notin T /\ (m - 1) + 1 = m
  BY <1>1, <1>3
<1>5. PICK g : Flattens(g, s, m - 1)
  BY <1>4
<1>6. \E h : Flattens(h, s, (m - 1) + 1)
  BY <1>4, <1>5, FlattensLonger
<1> QED  BY <1>4, <1>6

\* What was flattened of one sequence was flattened of all that begin like it.
LEMMA FlattensAgree ==
  ASSUME NEW s, NEW t, NEW n \in Nat, NEW m \in Nat, m <= n,
         NEW g, NEW h, Flattens(g, s, n), Flattens(h, t, m),
         \A i \in 1..m : t[i] = s[i]
  PROVE  \A i \in 1..m : h[i] = g[i]
<1> DEFINE T == {i \in 1..m : h[i] # g[i]}
<1> SUFFICES ASSUME T # {} PROVE FALSE
  OBVIOUS
<1>1. PICK i \in T : \A k \in T : i <= k
  <2>1. T \in SUBSET Nat
    OBVIOUS
  <2> HIDE DEF T
  <2> QED  BY <2>1, LeastOf
<1>2. h[i] = IF i = 1 THEN t[i] ELSE h[i - 1] \o t[i]
  <2>1. \A k \in 1..m : h[k] = IF k = 1 THEN t[k] ELSE h[k - 1] \o t[k]
    BY DEF Flattens
  <2> QED  BY <2>1
<1>3. g[i] = IF i = 1 THEN s[i] ELSE g[i - 1] \o s[i]
  <2>1. \A k \in 1..n : g[k] = IF k = 1 THEN s[k] ELSE g[k - 1] \o s[k]
    BY DEF Flattens
  <2>2. i \in 1..n
    OBVIOUS
  <2> QED  BY <2>1, <2>2
<1>4. i # 1 => i - 1 \in 1..m /\ i - 1 \notin T
  BY <1>1
<1> QED  BY <1>2, <1>3, <1>4

LEMMA FlattenIs ==
  ASSUME NEW s, Len(s) \in Nat \ {0}
  PROVE  \E g : Flattens(g, s, Len(s)) /\ FlattenSeq(s) = g[Len(s)]
<1> DEFINE g == CHOOSE g : Flattens(g, s, Len(s))
<1>1. FlattenSeq(s) = g[Len(s)]
  BY DEF FlattenSeq, Flattens
<1>2. \E h : Flattens(h, s, Len(s))
  BY FlattensExists
<1>3. Flattens(g, s, Len(s))
  BY <1>2
<1> QED  BY <1>1, <1>3

LEMMA FlattenLast ==
  ASSUME NEW s, NEW t, NEW n \in Nat, Len(s) = n + 1, Len(t) = n,
         \A i \in 1..n : t[i] = s[i]
  PROVE  FlattenSeq(s) = IF n = 0 THEN s[1] ELSE FlattenSeq(t) \o s[n + 1]
<1>1. PICK g : Flattens(g, s, n + 1) /\ FlattenSeq(s) = g[n + 1]
  BY FlattenIs
<1>2. \A i \in 1..(n + 1) : g[i] = IF i = 1 THEN s[i] ELSE g[i - 1] \o s[i]
  BY <1>1 DEF Flattens
<1>a. n + 1 \in 1..(n + 1) /\ (n + 1 = 1 <=> n = 0) /\ (n + 1) - 1 = n
  OBVIOUS
<1>b. g[n + 1] = IF n = 0 THEN s[n + 1] ELSE g[n] \o s[n + 1]
  BY <1>2, <1>a
<1>3. CASE n = 0
  BY <1>1, <1>b, <1>3
<1>4. CASE n # 0
  <2>1. PICK h : Flattens(h, t, n) /\ FlattenSeq(t) = h[n]
    BY <1>4, FlattenIs
  <2>2. h[n] = g[n]
    <3>1. n + 1 \in Nat /\ n <= n + 1 /\ n \in 1..n
      BY <1>4
    <3>2. \A i \in 1..n : h[i] = g[i]
      BY <1>1, <2>1, <3>1, FlattensAgree
    <3> QED  BY <3>1, <3>2
  <2>3. FlattenSeq(s) = g[n] \o s[n + 1]
    BY <1>1, <1>b, <1>4
  <2> QED  BY <1>4, <2>1, <2>2, <2>3
<1> QED  BY <1>3, <1>4

-----------------------------------------------------------------------------
\* The chunks of one part more.
LEMMA ChunksOfNext ==
  ASSUME NEW s \in Seq(Parts), NEW n \in Nat, n < Len(s)
  PROVE  ChunksOf(SubSeq(s, 1, n + 1)) = ChunksOf(SubSeq(s, 1, n)) \o ChunkOf(s[n + 1])
<1> DEFINE cs(k) == [i \in DOMAIN SubSeq(s, 1, k) |-> ChunkOf(SubSeq(s, 1, k)[i])]
<1>1. \A k \in 0..Len(s) : Len(SubSeq(s, 1, k)) = k /\ \A i \in 1..k : SubSeq(s, 1, k)[i] = s[i]
  OBVIOUS
<1>2. \A k \in 0..Len(s) : DOMAIN SubSeq(s, 1, k) = 1..k
  OBVIOUS
<1>3. \A k \in 0..Len(s) : cs(k) = [i \in 1..k |-> ChunkOf(s[i])]
  BY <1>1, <1>2
<1>4. n \in 0..Len(s) /\ n + 1 \in 0..Len(s)
  OBVIOUS
<1>5. Len(cs(n)) = n /\ Len(cs(n + 1)) = n + 1
  BY <1>3, <1>4
<1>6. \A i \in 1..n : cs(n)[i] = cs(n + 1)[i]
  BY <1>3, <1>4
<1>7. cs(n + 1)[n + 1] = ChunkOf(s[n + 1]) /\ (n = 0 => cs(n + 1)[1] = ChunkOf(s[n + 1]))
  BY <1>3, <1>4
<1>8. /\ ChunksOf(SubSeq(s, 1, n)) = FlattenSeq(cs(n))
      /\ ChunksOf(SubSeq(s, 1, n + 1)) = FlattenSeq(cs(n + 1))
  BY DEF ChunksOf
<1>9. n = 0 => FlattenSeq(cs(n)) = << >>
  <2>1. n = 0 => cs(n) = << >>
    BY <1>3, <1>4
  <2> HIDE DEF cs
  <2> QED  BY <1>5, <2>1 DEF FlattenSeq
<1>10. ChunkOf(s[n + 1]) \in Seq(Parts)
  BY DEF ChunkOf
<1> HIDE DEF cs
<1>11. FlattenSeq(cs(n + 1)) = IF n = 0 THEN cs(n + 1)[1] ELSE FlattenSeq(cs(n)) \o cs(n + 1)[n + 1]
  BY <1>5, <1>6, FlattenLast
<1>12. CASE n = 0
  <2>1. FlattenSeq(cs(n + 1)) = ChunkOf(s[n + 1])
    BY <1>7, <1>11, <1>12
  <2>2. << >> \o ChunkOf(s[n + 1]) = ChunkOf(s[n + 1])
    BY <1>10
  <2> QED  BY <1>8, <1>9, <1>12, <2>1, <2>2
<1>13. CASE n # 0
  BY <1>7, <1>8, <1>11, <1>13
<1> QED  BY <1>12, <1>13

LEMMA NothingRead == ChunksOf(<< >>) = << >>
<1> DEFINE cs == [i \in DOMAIN << >> |-> ChunkOf(<< >>[i])]
<1>1. cs = << >>
  OBVIOUS
<1>2. FlattenSeq(cs) = cs
  BY <1>1 DEF FlattenSeq
<1> QED  BY <1>1, <1>2 DEF ChunksOf

LEMMA OneOf ==
  ASSUME NEW S, NEW x \in S
  PROVE  << x >> \in Seq(S)
  OBVIOUS

LEMMA CallIs == PInv => \A c \in Calls : call[c] \in Call /\ StreamTrue(call[c])
  BY DEF PInv, ProvidersTypeOK

LEMMA OneCall ==
  ASSUME PInv, NEW c \in Calls, NEW r \in Call, StreamTrue(r),
         call' = [call EXCEPT ![c] = r], UNCHANGED << registryVars, scan >>
  PROVE  PInv'
<1>1. call' \in [Calls -> Call]
  BY DEF PInv, ProvidersTypeOK
<1>2. ProvidersTypeOK'
  BY <1>1 DEF PInv, ProvidersTypeOK, registryVars, history
<1>3. Shapes' /\ Numbered' /\ OnePerKey'
  BY DEF PInv, Shapes, Numbered, Holders, OnePerKey, registryVars, history
<1>4. \A d \in Calls : StreamTrue(call'[d])
  BY DEF PInv, ProvidersTypeOK
<1>5. \A s \in Scans : ScanTrue(scan'[s])
  BY DEF PInv
<1> QED  BY <1>2, <1>3, <1>4, <1>5 DEF PInv

\* What a stream's part of r does not touch.
LEMMA SameStream ==
  ASSUME NEW r \in Call, StreamTrue(r), NEW q \in Call,
         q.sent = r.sent, q.read = r.read, q.got = r.got,
         q.sdk = r.sdk, q.at = "verifying" \/ q.key = {} \/ (q.key = r.key /\ r.at # "verifying"),
         r.at # "over", q.at = "usage" => r.read = Len(r.sent) /\ r.sdk = "ended"
  PROVE  StreamTrue(q)
  BY DEF StreamTrue, SoFar

LEMMA OpenInv == ASSUME PInv, NEW c \in Calls, Open(c) PROVE PInv'
<1> DEFINE q == [call[c] EXCEPT !.at = "opening"]
<1>1. call[c] \in Call /\ StreamTrue(call[c])
  BY CallIs
<1>2. q \in Call /\ q.key = call[c].key
      /\ q.sent = call[c].sent /\ q.read = call[c].read /\ q.got = call[c].got
      /\ q.sdk = call[c].sdk /\ q.at = "opening" /\ call[c].at = "ready"
  BY <1>1 DEF Open, Call
<1>3. call' = [call EXCEPT ![c] = q] /\ UNCHANGED << registryVars, scan >>
  BY DEF Open, Set
<1> HIDE DEF q
<1>4. StreamTrue(q)
  BY <1>1, <1>2, SameStream
<1> QED  BY <1>2, <1>3, <1>4, OneCall

LEMMA AcceptedInv == ASSUME PInv, NEW c \in Calls, Accepted(c) PROVE PInv'
<1> DEFINE q == [call[c] EXCEPT !.at = "reading"]
<1>1. call[c] \in Call /\ StreamTrue(call[c])
  BY CallIs
<1>2. q \in Call /\ q.key = call[c].key
      /\ q.sent = call[c].sent /\ q.read = call[c].read /\ q.got = call[c].got
      /\ q.sdk = call[c].sdk /\ q.at = "reading" /\ call[c].at = "opening"
  BY <1>1 DEF Accepted, Call
<1>3. call' = [call EXCEPT ![c] = q] /\ UNCHANGED << registryVars, scan >>
  BY DEF Accepted, Set
<1> HIDE DEF q
<1>4. StreamTrue(q)
  BY <1>1, <1>2, SameStream
<1> QED  BY <1>2, <1>3, <1>4, OneCall

LEMMA DrainedInv == ASSUME PInv, NEW c \in Calls, Drained(c) PROVE PInv'
<1> DEFINE q == [call[c] EXCEPT !.at = "usage"]
<1>1. call[c] \in Call /\ StreamTrue(call[c])
  BY CallIs
<1>2. q \in Call /\ q.key = call[c].key
      /\ q.sent = call[c].sent /\ q.read = call[c].read /\ q.got = call[c].got
      /\ q.sdk = call[c].sdk /\ q.at = "usage" /\ call[c].at = "reading"
      /\ call[c].read = Len(call[c].sent) /\ call[c].sdk = "ended"
  BY <1>1 DEF Drained, Call
<1>3. call' = [call EXCEPT ![c] = q] /\ UNCHANGED << registryVars, scan >>
  BY DEF Drained, Set
<1> HIDE DEF q
<1>4. StreamTrue(q)
  BY <1>1, <1>2, SameStream
<1> QED  BY <1>2, <1>3, <1>4, OneCall

LEMMA AbortInv == ASSUME PInv, NEW c \in Calls, Abort(c) PROVE PInv'
<1> DEFINE q == [call[c] EXCEPT !.aborted = TRUE]
<1>1. call[c] \in Call /\ StreamTrue(call[c])
  BY CallIs
<1>2. q \in Call /\ q.key = call[c].key
      /\ q.sent = call[c].sent /\ q.read = call[c].read /\ q.got = call[c].got
      /\ q.sdk = call[c].sdk /\ q.at = call[c].at /\ call[c].at \notin {"over", "verifying"}
  BY <1>1 DEF Abort, Call
<1>3. call' = [call EXCEPT ![c] = q] /\ UNCHANGED << registryVars, scan >>
  BY DEF Abort, Set
<1> HIDE DEF q
<1>4. StreamTrue(q)
  BY <1>1, <1>2, SameStream DEF StreamTrue
<1> QED  BY <1>2, <1>3, <1>4, OneCall

LEMMA EndsInv == ASSUME PInv, NEW c \in Calls, Ends(c) PROVE PInv'
<1>1. call[c] \in Call /\ StreamTrue(call[c])
  BY CallIs
<1>2. PICK end \in {"ended", "failed"} : call' = [call EXCEPT ![c]["sdk"] = end]
  BY DEF Ends, Set
<1> DEFINE q == [call[c] EXCEPT !.sdk = end]
<1>3. q \in Call /\ q.key = call[c].key
      /\ q.sent = call[c].sent /\ q.read = call[c].read /\ q.got = call[c].got
      /\ q.at = "reading" /\ call[c].at = "reading"
  BY <1>1 DEF Ends, Call
<1>4. call' = [call EXCEPT ![c] = q] /\ UNCHANGED << registryVars, scan >>
  BY <1>2 DEF Ends
<1> HIDE DEF q
<1>5. StreamTrue(q)
  BY <1>1, <1>3 DEF StreamTrue, SoFar
<1> QED  BY <1>3, <1>4, <1>5, OneCall

LEMMA SettlesInv == ASSUME PInv, NEW c \in Calls, Settles(c) PROVE PInv'
<1>1. call[c] \in Call /\ StreamTrue(call[c])
  BY CallIs
<1>2. PICK how \in {"given", "none"} : call' = [call EXCEPT ![c]["usage"] = how]
  BY DEF Settles, Set
<1> DEFINE q == [call[c] EXCEPT !.usage = how]
<1>3. q \in Call /\ q.key = call[c].key
      /\ q.sent = call[c].sent /\ q.read = call[c].read /\ q.got = call[c].got
      /\ q.sdk = call[c].sdk /\ q.at = call[c].at /\ call[c].at \notin {"over", "verifying"}
  BY <1>1 DEF Settles, Call
<1>4. call' = [call EXCEPT ![c] = q] /\ UNCHANGED << registryVars, scan >>
  BY <1>2 DEF Settles
<1> HIDE DEF q
<1>5. StreamTrue(q)
  BY <1>1, <1>3, SameStream DEF StreamTrue
<1> QED  BY <1>3, <1>4, <1>5, OneCall

LEMMA SendsInv == ASSUME PInv, NEW c \in Calls, Sends(c) PROVE PInv'
<1>1. call[c] \in Call /\ StreamTrue(call[c]) /\ call[c].at = "reading" /\ Len(call[c].sent) < MaxParts
  BY CallIs DEF Sends
<1>2. PICK part \in Parts : call' = [call EXCEPT ![c]["sent"] = Append(call[c].sent, part)]
  BY DEF Sends, Set
<1> DEFINE q == [call[c] EXCEPT !.sent = Append(call[c].sent, part)]
<1>3. call[c].sent \in Seq(Parts) /\ call[c].read \in 0..MaxParts
  BY <1>1 DEF Call
<1>4. q \in Call /\ q.key = call[c].key
      /\ q.sent = Append(call[c].sent, part) /\ q.read = call[c].read
      /\ q.got = call[c].got /\ q.sdk = call[c].sdk /\ q.at = "reading"
  <2>1. Append(call[c].sent, part) \in Seq(Parts)
    BY <1>3
  <2> QED  BY <1>1, <2>1 DEF Call
<1>5. call' = [call EXCEPT ![c] = q] /\ UNCHANGED << registryVars, scan >>
  BY <1>2 DEF Sends
<1> HIDE DEF q
<1>a. Len(q.sent) = Len(call[c].sent) + 1
  BY <1>3, <1>4
<1>6. SubSeq(q.sent, 1, q.read) = SubSeq(call[c].sent, 1, call[c].read)
  BY <1>1, <1>3, <1>4 DEF StreamTrue
<1>7. StreamTrue(q)
  <2>1. q.read <= Len(q.sent) /\ Len(q.sent) <= MaxParts
    BY <1>1, <1>3, <1>4, <1>a, ProvidersAssumption DEF StreamTrue
  <2>2. q.got = SoFar(q)
    BY <1>1, <1>4, <1>6 DEF StreamTrue, SoFar
  <2> QED  BY <1>1, <1>4, <2>1, <2>2 DEF StreamTrue
<1> QED  BY <1>4, <1>5, <1>7, OneCall

\* What is handled of a part, or of what ends a stream.
LEMMA HandleType ==
  ASSUME NEW c \in Calls, call[c] \in Call, NEW chunks \in Seq(Chunk)
  PROVE  Handle(c, chunks) \in Seq(Chunk)
  BY DEF Handle, Call

LEMMA ReadInv == ASSUME PInv, NEW c \in Calls, Read(c) PROVE PInv'
<1> DEFINE part == call[c].sent[call[c].read + 1]
           n == call[c].read
           stop == [call[c] EXCEPT !.at = "over"]
           next == [call[c] EXCEPT !.read = @ + 1, !.got = Handle(c, ChunkOf(part))]
<1>1. call[c] \in Call /\ StreamTrue(call[c]) /\ call[c].at = "reading" /\ n < Len(call[c].sent)
  BY CallIs DEF Read
<1>2. UNCHANGED << registryVars, scan >>
  BY DEF Read
<1>3. call[c].sent \in Seq(Parts) /\ n \in 0..MaxParts /\ n + 1 \in 0..MaxParts /\ part \in Parts
  BY <1>1, ProvidersAssumption DEF Call, StreamTrue
<1>4. CASE call[c].aborted /\ ChunkOf(part) # << >>
  <2>1. call' = [call EXCEPT ![c] = stop]
    BY <1>4 DEF Read, Set
  <2>2. stop \in Call /\ stop.key = call[c].key /\ stop.sent = call[c].sent /\ stop.read = call[c].read
        /\ stop.got = call[c].got /\ stop.at = "over" /\ stop.sdk = call[c].sdk
    BY <1>1 DEF Call
  <2> HIDE DEF stop
  <2>3. StreamTrue(stop)
    BY <1>1, <2>2, SameStream
  <2> QED  BY <1>2, <2>1, <2>2, <2>3, OneCall
<1>5. CASE ~(call[c].aborted /\ ChunkOf(part) # << >>)
  <2>1. call' = [call EXCEPT ![c] = next]
    BY <1>5 DEF Read
  <2>2. ChunkOf(part) \in Seq(Chunk) /\ (ChunkOf(part) # << >> => ~call[c].aborted)
    <3>1. part \in {"text", "tool", "error", "other"}
      BY <1>3, ProvidersAssumption
    <3>2. part # "other" => part \in Chunk
      BY <3>1 DEF Chunk
    <3>3. part # "other" => << part >> \in Seq(Chunk)
      BY <3>2, OneOf
    <3> QED  BY <1>5, <3>3 DEF ChunkOf
  <2>3. Handle(c, ChunkOf(part)) \in Seq(Chunk)
    BY <1>1, <2>2, HandleType
  <2>4. next \in Call /\ next.key = call[c].key /\ next.sent = call[c].sent /\ next.read = n + 1
        /\ next.got = Handle(c, ChunkOf(part)) /\ next.at = "reading" /\ next.sdk = call[c].sdk
    BY <1>1, <1>3, <2>3 DEF Call
  <2>5. call[c].got = SoFar(call[c]) /\ call[c].got \in Seq(Chunk)
    BY <1>1 DEF StreamTrue, Call
  <2>6. ChunksOf(SubSeq(call[c].sent, 1, n + 1)) = call[c].got \o ChunkOf(part)
    <3>1. n \in Nat /\ n < Len(call[c].sent) /\ call[c].sent \in Seq(Parts)
      BY <1>1, <1>3
    <3>2. ChunksOf(SubSeq(call[c].sent, 1, n + 1))
            = ChunksOf(SubSeq(call[c].sent, 1, n)) \o ChunkOf(call[c].sent[n + 1])
      BY <3>1, ChunksOfNext
    <3> QED  BY <2>5, <3>2 DEF SoFar
  <2>7. Handle(c, ChunkOf(part)) = call[c].got \o ChunkOf(part)
    BY <2>2, <2>5 DEF Handle
  <2> HIDE DEF next, part
  <2>8. next.got = SoFar(next)
    BY <2>4, <2>6, <2>7 DEF SoFar
  <2>9. StreamTrue(next)
    BY <1>1, <1>3, <2>4, <2>8 DEF StreamTrue
  <2> QED  BY <1>2, <2>1, <2>4, <2>9, OneCall
<1> QED  BY <1>4, <1>5

LEMMA RejectedInv == ASSUME PInv, NEW c \in Calls, Rejected(c) PROVE PInv'
<1> DEFINE q == [call[c] EXCEPT !.at = "over", !.sdk = "failed", !.got = Handle(c, << "thrown" >>)]
<1>1. call[c] \in Call /\ StreamTrue(call[c]) /\ call[c].at = "opening"
  BY CallIs DEF Rejected
<1>2. Handle(c, << "thrown" >>) \in Seq(Chunk)
  <2>1. << "thrown" >> \in Seq(Chunk)
    BY OneOf DEF Chunk
  <2> QED  BY <1>1, <2>1, HandleType
<1>3. q \in Call /\ q.key = call[c].key
      /\ q.sent = call[c].sent /\ q.read = call[c].read /\ q.at = "over"
      /\ q.sdk = "failed" /\ q.got = Handle(c, << "thrown" >>)
  BY <1>1, <1>2 DEF Call
<1>4. call' = [call EXCEPT ![c] = q] /\ UNCHANGED << registryVars, scan >>
  BY DEF Rejected
<1> HIDE DEF q
<1>5. StreamTrue(q)
  BY <1>1, <1>3 DEF StreamTrue, SoFar, Handle
<1> QED  BY <1>3, <1>4, <1>5, OneCall

LEMMA BreaksInv == ASSUME PInv, NEW c \in Calls, Breaks(c) PROVE PInv'
<1> DEFINE q == [call[c] EXCEPT !.at = "over", !.got = Handle(c, << "thrown" >>)]
<1>1. call[c] \in Call /\ StreamTrue(call[c]) /\ call[c].at = "reading" /\ call[c].sdk = "failed"
  BY CallIs DEF Breaks
<1>2. Handle(c, << "thrown" >>) \in Seq(Chunk)
  <2>1. << "thrown" >> \in Seq(Chunk)
    BY OneOf DEF Chunk
  <2> QED  BY <1>1, <2>1, HandleType
<1>3. q \in Call /\ q.key = call[c].key
      /\ q.sent = call[c].sent /\ q.read = call[c].read /\ q.at = "over"
      /\ q.sdk = "failed" /\ q.got = Handle(c, << "thrown" >>)
  BY <1>1, <1>2 DEF Call
<1>4. call' = [call EXCEPT ![c] = q] /\ UNCHANGED << registryVars, scan >>
  BY DEF Breaks
<1> HIDE DEF q
<1>5. StreamTrue(q)
  BY <1>1, <1>3 DEF StreamTrue, SoFar, Handle
<1> QED  BY <1>3, <1>4, <1>5, OneCall

LEMMA UsageInv == ASSUME PInv, NEW c \in Calls, Usage(c) PROVE PInv'
<1> DEFINE told == IF call[c].usage = "given" THEN << "usage" >> ELSE << >>
           q == [call[c] EXCEPT !.at = "over", !.got = Handle(c, told)]
<1>1. call[c] \in Call /\ StreamTrue(call[c]) /\ call[c].at = "usage"
  BY CallIs DEF Usage
<1>2. told \in Seq(Chunk) /\ told \in {<< >>, << "usage" >>}
  <2>1. << "usage" >> \in Seq(Chunk) /\ << >> \in Seq(Chunk)
    BY OneOf DEF Chunk
  <2> QED  BY <2>1
<1>3. Handle(c, told) \in Seq(Chunk)
  BY <1>1, <1>2, HandleType
<1>4. q \in Call /\ q.key = call[c].key
      /\ q.sent = call[c].sent /\ q.read = call[c].read /\ q.at = "over"
      /\ q.sdk = call[c].sdk /\ q.got = Handle(c, told)
  BY <1>1, <1>3 DEF Call
<1>5. call' = [call EXCEPT ![c] = q] /\ UNCHANGED << registryVars, scan >>
  BY DEF Usage
<1>6. Handle(c, told) \in {call[c].got, call[c].got \o << "usage" >>}
  <2>1. call[c].got \o << >> = call[c].got
    BY <1>1 DEF Call
  <2> QED  BY <1>2, <2>1 DEF Handle
<1> HIDE DEF q, told
<1>7. StreamTrue(q)
  BY <1>1, <1>4, <1>6 DEF StreamTrue, SoFar
<1> QED  BY <1>4, <1>5, <1>7, OneCall

-----------------------------------------------------------------------------
\* Of the invariant, what is about the registry alone.
Registered ==
  /\ \A k \in Key : Cardinality(cache[k]) <= 1 /\ Cardinality(inFlight[k]) <= 1
  /\ made \in 0..MaxAdapters /\ failed \subseteq Serial
  /\ Shapes /\ Numbered /\ OnePerKey

LEMMA PInvParts ==
  PInv <=> /\ Registered /\ call \in [Calls -> Call] /\ scan \in [Scans -> Scan]
           /\ \A c \in Calls : StreamTrue(call[c])
           /\ \A s \in Scans : ScanTrue(scan[s])
  BY DEF PInv, Registered, ProvidersTypeOK, Shapes

LEMMA PInvNext ==
  ASSUME Registered', call' \in [Calls -> Call], scan' \in [Scans -> Scan],
         \A c \in Calls : StreamTrue(call'[c]), \A s \in Scans : ScanTrue(scan'[s])
  PROVE  PInv'
  BY DEF PInv, Registered, ProvidersTypeOK, Shapes

\* One call is as far as q, whatever the registry does.
LEMMA CallAndRegistry ==
  ASSUME PInv, Registered', NEW c \in Calls, NEW q \in Call, StreamTrue(q),
         call' = [call EXCEPT ![c] = q], scan' = scan
  PROVE  PInv'
<1>1. call' \in [Calls -> Call] /\ \A d \in Calls : call'[d] = q \/ call'[d] = call[d]
  BY PInvParts
<1>2. /\ \A d \in Calls : StreamTrue(call[d])
      /\ scan \in [Scans -> Scan] /\ \A s \in Scans : ScanTrue(scan[s])
  BY PInvParts
<1>3. \A d \in Calls : StreamTrue(call'[d])
  BY <1>1, <1>2
<1> QED  BY <1>1, <1>2, <1>3, PInvNext

\* What a get() of k does to the registry, whatever is being verified.
LEMMA GetInv ==
  ASSUME Registered, NEW k \in Key, Get(k, Handed(k)),
         inFlight' = inFlight \/ inFlight' = [inFlight EXCEPT ![k] = Handed(k)]
  PROVE  Registered'
<1> DEFINE h == Handed(k)
<1>1. /\ cache' = [cache EXCEPT ![k] = h] /\ failed' = failed
      /\ made' = IF cache[k] = {} THEN made + 1 ELSE made
      /\ current' = IF cache[k] = {} THEN [current EXCEPT ![k] = @ + 1] ELSE current
      /\ cache[k] = {} => made < MaxAdapters
  BY DEF Get
<1>2. /\ cache \in [Key -> SUBSET Serial] /\ inFlight \in [Key -> SUBSET Serial]
      /\ current \in [Key -> Nat] /\ made \in 0..MaxAdapters /\ made \in Nat /\ MaxAdapters \in Nat
  BY ProvidersAssumption DEF Registered, Shapes
<1>3. made' \in 0..MaxAdapters /\ made <= made' /\ made' \in Nat
  BY <1>1, <1>2
<1>4. h \subseteq 1..made' /\ h \subseteq Serial
  BY <1>1, <1>2 DEF Handed, Registered, Numbered, Holders, Serial
<1>5. \A l \in Key : l # k => h \cap Holders(l) = {}
  <2>1. CASE cache[k] = {}
    BY <1>2, <2>1 DEF Handed, Registered, Numbered
  <2>2. CASE cache[k] # {}
    BY <2>2 DEF Handed, Registered, Numbered, Holders
  <2> QED  BY <2>1, <2>2
<1>6. h \cap failed = {}
  BY <1>2 DEF Handed, Registered, Numbered, OnePerKey
<1>7. Cardinality(h) <= 1
  <2>1. Cardinality({made + 1}) = 1
    BY FS_Singleton
  <2> QED  BY <2>1 DEF Handed, Registered
<1>8. cache' \in [Key -> SUBSET Serial] /\ inFlight' \in [Key -> SUBSET Serial]
      /\ current' \in [Key -> Nat]
  BY <1>1, <1>2, <1>4
<1>9. \A l \in Key : /\ cache'[l] = IF l = k THEN h ELSE cache[l]
                     /\ inFlight'[l] = inFlight[l] \/ (l = k /\ inFlight'[l] = h)
  BY <1>1, <1>2
<1>10. current'[k] = Cardinality(cache'[k])
  <2>1. CASE cache[k] = {}
    <3>1. current[k] = 0
      BY <2>1, FS_EmptySet DEF Registered, OnePerKey
    <3>2. Cardinality({made + 1}) = 1
      BY FS_Singleton
    <3> QED  BY <1>1, <1>2, <1>9, <2>1, <3>1, <3>2 DEF Handed
  <2>2. CASE cache[k] # {}
    BY <1>1, <1>9, <2>2 DEF Handed, Registered, OnePerKey
  <2> QED  BY <2>1, <2>2
<1>11. \A l \in Key : l # k => current'[l] = current[l]
  BY <1>1, <1>2
<1> HIDE DEF h
<1>12. OnePerKey'
  BY <1>1, <1>6, <1>9, <1>10, <1>11 DEF OnePerKey, Registered
<1>13. \A l \in Key : Holders(l)' \subseteq Holders(l) \cup (IF l = k THEN h ELSE {})
  BY <1>9 DEF Holders
<1>14. Numbered'
  <2>1. \A l \in Key : Holders(l)' \subseteq 1..made'
    <3>1. 1..made \subseteq 1..made'
      BY <1>2, <1>3
    <3> QED  BY <1>4, <1>13, <3>1 DEF Registered, Numbered
  <2>2. failed' \subseteq 1..made'
    BY <1>1, <1>2, <1>3 DEF Registered, Numbered
  <2>3. \A l, m \in Key : l # m => Holders(l)' \cap Holders(m)' = {}
    BY <1>5, <1>13 DEF Registered, Numbered
  <2> QED  BY <2>1, <2>2, <2>3 DEF Numbered
<1>15. \A l \in Key : Cardinality(cache'[l]) <= 1 /\ Cardinality(inFlight'[l]) <= 1
  BY <1>7, <1>9 DEF Registered
<1> QED  BY <1>1, <1>3, <1>8, <1>12, <1>14, <1>15 DEF Registered, Shapes, Serial

LEMMA ResolvedIsKey == \A t \in Types : Resolved(t) \in Key
  BY DEF Key

LEMMA TakeInv == ASSUME PInv, NEW c \in Calls, Take(c) PROVE PInv'
<1>1. PICK t \in Types : Get(Resolved(t), Handed(Resolved(t)))
  BY DEF Take
<1>2. Registered'
  BY <1>1, ResolvedIsKey, GetInv, PInvParts DEF Take
<1> DEFINE q == [call[c] EXCEPT !.at = "ready"]
<1>3. call[c] \in Call /\ StreamTrue(call[c])
  BY CallIs
<1>4. q \in Call /\ q.key = call[c].key
      /\ q.sent = call[c].sent /\ q.read = call[c].read /\ q.got = call[c].got
      /\ q.sdk = call[c].sdk /\ q.at = "ready" /\ call[c].at = "idle"
  BY <1>3 DEF Take, Call
<1>5. call' = [call EXCEPT ![c] = q] /\ scan' = scan
  BY DEF Take
<1> HIDE DEF q
<1>6. StreamTrue(q)
  BY <1>3, <1>4, SameStream
<1> QED  BY <1>2, <1>4, <1>5, <1>6, CallAndRegistry

LEMMA VerifyInv == ASSUME PInv, NEW c \in Calls, Verify(c) PROVE PInv'
<1>1. PICK t \in Types :
        /\ IF inFlight[Resolved(t)] # {}
           THEN UNCHANGED registryVars
           ELSE /\ Get(Resolved(t), Handed(Resolved(t)))
                /\ inFlight' = [inFlight EXCEPT ![Resolved(t)] = Handed(Resolved(t))]
        /\ call' = [call EXCEPT ![c].at = "verifying", ![c].key = {Resolved(t)}]
  BY DEF Verify
<1>2. Registered'
  <2>1. CASE UNCHANGED registryVars
    BY <2>1, PInvParts DEF Registered, Shapes, Numbered, Holders, OnePerKey, registryVars, history
  <2>2. CASE ~UNCHANGED registryVars
    BY <1>1, <2>2, ResolvedIsKey, GetInv, PInvParts
  <2> QED  BY <2>1, <2>2
<1> DEFINE q == [call[c] EXCEPT !.at = "verifying", !.key = {Resolved(t)}]
<1>3. call[c] \in Call /\ StreamTrue(call[c])
  BY CallIs
<1>4. q \in Call /\ q.sent = call[c].sent /\ q.read = call[c].read /\ q.got = call[c].got
      /\ q.sdk = call[c].sdk /\ q.at = "verifying" /\ call[c].at = "idle"
  BY <1>3, ResolvedIsKey DEF Verify, Call
<1>5. call' = [call EXCEPT ![c] = q] /\ scan' = scan
  BY <1>1 DEF Verify
<1> HIDE DEF q
<1>6. StreamTrue(q)
  BY <1>3, <1>4, SameStream
<1> QED  BY <1>2, <1>4, <1>5, <1>6, CallAndRegistry

\* An adapter that fails its verification is of no other configuration.
LEMMA ProbedInv == ASSUME PInv, NEW k \in Key, NEW ok \in BOOLEAN, Probed(k, ok) PROVE PInv'
<1>1. /\ cache \in [Key -> SUBSET Serial] /\ inFlight \in [Key -> SUBSET Serial]
      /\ current \in [Key -> Nat] /\ call \in [Calls -> Call]
      /\ Registered /\ \A c \in Calls : StreamTrue(call[c])
  BY PInvParts DEF Registered, Shapes
<1>2. inFlight' = [inFlight EXCEPT ![k] = {}] /\ made' = made /\ scan' = scan
  BY DEF Probed
<1>3. \A l \in Key : inFlight'[l] = IF l = k THEN {} ELSE inFlight[l]
  BY <1>1, <1>2
<1>4. Cardinality({}) = 0
  BY FS_EmptySet
<1>5. /\ cache' \in [Key -> SUBSET Serial] /\ current' \in [Key -> Nat] /\ failed' \subseteq 1..made
      /\ \A l \in Key : cache'[l] = IF l = k /\ ~ok THEN {} ELSE cache[l]
      /\ \A l \in Key : current'[l] = Cardinality(cache'[l]) /\ cache'[l] \cap failed' = {}
  <2>1. CASE ok
    BY <1>1, <2>1 DEF Probed, Registered, Numbered, OnePerKey
  <2>2. CASE ~ok
    <3>1. /\ cache' = [cache EXCEPT ![k] = {}]
          /\ current' = [current EXCEPT ![k] = @ - Cardinality(cache[k])]
          /\ failed' = failed \cup inFlight[k]
      BY <2>2 DEF Probed
    <3>2. current[k] - Cardinality(cache[k]) = 0
      BY <1>1 DEF Registered, OnePerKey
    <3>3. /\ cache' \in [Key -> SUBSET Serial] /\ current' \in [Key -> Nat]
          /\ \A l \in Key : cache'[l] = IF l = k THEN {} ELSE cache[l]
          /\ \A l \in Key : current'[l] = IF l = k THEN 0 ELSE current[l]
      BY <1>1, <3>1, <3>2
    <3>4. failed' \subseteq 1..made
      BY <3>1, <1>1 DEF Registered, Numbered, Holders
    <3>5. \A l \in Key : l # k => cache[l] \cap inFlight[k] = {}
      BY <1>1 DEF Registered, Numbered, Holders
    <3> QED  BY <1>1, <1>4, <2>2, <3>1, <3>3, <3>4, <3>5 DEF Registered, OnePerKey
  <2> QED  BY <2>1, <2>2
<1>6. Registered'
  <2>1. Shapes'
    BY <1>1, <1>2, <1>5 DEF Shapes, Serial
  <2>2. Numbered'
    BY <1>1, <1>2, <1>3, <1>5 DEF Numbered, Holders, Registered
  <2>3. OnePerKey'
    BY <1>5 DEF OnePerKey
  <2>4. \A l \in Key : Cardinality(cache'[l]) <= 1 /\ Cardinality(inFlight'[l]) <= 1
    BY <1>1, <1>3, <1>4, <1>5 DEF Registered
  <2>5. made' \in 0..MaxAdapters /\ failed' \subseteq Serial
    BY <1>1, <1>2, <1>5, ProvidersAssumption DEF Registered, Serial
  <2> QED  BY <2>1, <2>2, <2>3, <2>4, <2>5 DEF Registered, Serial
<1>7. call' = [c \in Calls |-> IF k \in call[c].key
                               THEN [call[c] EXCEPT !.at = "ready", !.key = {}] ELSE call[c]]
  BY DEF Probed
<1>8. \A c \in Calls : call'[c] \in Call /\ StreamTrue(call'[c])
  <2> TAKE c \in Calls
  <2> DEFINE q == [call[c] EXCEPT !.at = "ready", !.key = {}]
  <2>1. call'[c] = IF k \in call[c].key THEN q ELSE call[c]
    BY <1>7
  <2>2. call[c] \in Call /\ StreamTrue(call[c])
    BY <1>1
  <2>3. q \in Call /\ q.sent = call[c].sent /\ q.read = call[c].read /\ q.got = call[c].got
        /\ q.sdk = call[c].sdk /\ q.at = "ready" /\ q.key = {}
    BY <2>2 DEF Call
  <2> HIDE DEF q
  <2>4. call[c].at # "over" => StreamTrue(q)
    BY <2>2, <2>3 DEF StreamTrue, SoFar
  <2>5. k \in call[c].key => call[c].at # "over"
    <3>1. call[c].at # "verifying" => call[c].key = {}
      BY <2>2 DEF StreamTrue
    <3>2. "over" # "verifying"
      OBVIOUS
    <3>3. call[c].at = "over" => k \notin call[c].key
      BY <3>1, <3>2
    <3> QED  BY <3>3
  <2> QED  BY <2>1, <2>2, <2>3, <2>4, <2>5
<1>9. call' \in [Calls -> Call]
  BY <1>7, <1>8
<1> QED  BY <1>2, <1>6, <1>8, <1>9, PInvNext, PInvParts

LEMMA ClearInv == ASSUME PInv, Clear PROVE PInv'
<1>1. /\ cache \in [Key -> SUBSET Serial] /\ inFlight \in [Key -> SUBSET Serial]
      /\ current \in [Key -> Nat] /\ Registered
  BY PInvParts DEF Registered, Shapes
<1>2. \A k \in Key : current[k] - Cardinality(cache[k]) = 0
  BY <1>1 DEF Registered, OnePerKey
<1>3. /\ cache' = [k \in Key |-> {}] /\ current' = [k \in Key |-> 0]
      /\ UNCHANGED << inFlight, made, failed, call, scan >>
  BY <1>2 DEF Clear
<1>4. Cardinality({}) = 0
  BY FS_EmptySet
<1>5. Registered'
  BY <1>1, <1>3, <1>4 DEF Registered, Shapes, Numbered, Holders, OnePerKey, Serial
<1> QED  BY <1>3, <1>5, PInvNext, PInvParts

-----------------------------------------------------------------------------
\* The scans of the local ports.
LEMMA OneScan ==
  ASSUME PInv, Registered', NEW s \in Scans, NEW r \in Scan, ScanTrue(r),
         scan' = [scan EXCEPT ![s] = r], call' = call
  PROVE  PInv'
<1>1. /\ scan \in [Scans -> Scan] /\ \A z \in Scans : ScanTrue(scan[z])
      /\ call \in [Calls -> Call] /\ \A c \in Calls : StreamTrue(call[c])
  BY PInvParts
<1>2. scan' \in [Scans -> Scan] /\ \A z \in Scans : scan'[z] = r \/ scan'[z] = scan[z]
  BY <1>1
<1>3. \A z \in Scans : ScanTrue(scan'[z])
  BY <1>1, <1>2
<1> QED  BY <1>1, <1>2, <1>3, PInvNext

LEMMA RegistryStays == ASSUME Registered, UNCHANGED registryVars PROVE Registered'
  BY DEF Registered, Shapes, Numbered, Holders, OnePerKey, registryVars, history

LEMMA ScanIs == PInv => \A s \in Scans : scan[s] \in Scan /\ ScanTrue(scan[s])
  BY PInvParts

LEMMA DetectInv == ASSUME PInv, NEW s \in Scans, Detect(s) PROVE PInv'
<1> DEFINE r == [scan[s] EXCEPT !.at = "probing", !.asked = Ports]
<1>1. scan[s] \in Scan /\ ScanTrue(scan[s])
  BY ScanIs
<1>2. /\ r \in Scan /\ r.out = scan[s].out /\ r.answered = scan[s].answered /\ r.at = "probing"
      /\ r.models = scan[s].models /\ r.from = scan[s].from /\ scan[s].at = "idle"
  BY <1>1 DEF Detect, Scan
<1>3. scan' = [scan EXCEPT ![s] = r] /\ call' = call /\ UNCHANGED registryVars
  BY DEF Detect
<1> HIDE DEF r
<1>4. ScanTrue(r)
  BY <1>1, <1>2 DEF ScanTrue, Reported
<1> QED  BY <1>2, <1>3, <1>4, OneScan, RegistryStays, PInvParts

\* A probe of one backend leaves what is known of the other.
LEMMA AnswersInv ==
  ASSUME PInv, NEW s \in Scans, NEW port \in Ports, NEW ok \in BOOLEAN, Answers(s, port, ok)
  PROVE  PInv'
<1> DEFINE b == BackendAt(port)
           out == [scan[s].out EXCEPT ![b] = IF ok /\ @ = "empty" THEN port ELSE @]
           up == IF ok THEN scan[s].answered \cup {port} ELSE scan[s].answered
           r == [scan[s] EXCEPT !.asked = @ \ {port}, !.answered = up, !.out = out]
<1>1. scan[s] \in Scan /\ ScanTrue(scan[s])
  BY ScanIs
<1>2. b \in {"ollama", "lmstudio"}
  BY DEF BackendAt
<1>3. out \in [{"ollama", "lmstudio"} -> Ports \cup {"empty"}] /\ up \subseteq Ports
  BY <1>1, <1>2 DEF Scan
<1>4. /\ r \in Scan /\ r.out = out /\ r.answered = up /\ r.at = "probing"
      /\ r.models = scan[s].models /\ r.from = scan[s].from /\ scan[s].at = "probing"
  BY <1>1, <1>3 DEF Answers, Scan
<1>5. scan' = [scan EXCEPT ![s] = r] /\ call' = call /\ UNCHANGED registryVars
  BY <1>1 DEF Answers, Scan
<1>6. \A d \in {"ollama", "lmstudio"} :
        out[d] = IF d = b /\ ok /\ scan[s].out[d] = "empty" THEN port ELSE scan[s].out[d]
  BY <1>1, <1>2 DEF Scan
<1>7. \A p \in up : p \in scan[s].answered \/ (ok /\ p = port)
  OBVIOUS
<1>8. scan[s].answered \subseteq up /\ (ok => port \in up)
  OBVIOUS
<1>9. "empty" \notin scan[s].answered
  BY <1>1 DEF Scan, Ports
<1>10. BackendAt(port) = b
  OBVIOUS
<1> HIDE DEF r, out, up, b
<1>11. \A d \in {"ollama", "lmstudio"} : Reported(r, d)
  <2> TAKE d \in {"ollama", "lmstudio"}
  <2> DEFINE was == {p \in scan[s].answered : BackendAt(p) = d}
             is == {p \in up : BackendAt(p) = d}
  <2>1. IF was = {} THEN scan[s].out[d] = "empty" ELSE scan[s].out[d] \in was
    BY <1>1 DEF ScanTrue, Reported
  <2>2. was \subseteq is /\ \A p \in is : p \in was \/ (ok /\ p = port)
    BY <1>7, <1>8
  <2>3. ok /\ d = b => port \in is
    BY <1>8, <1>10
  <2>4. d # b => is = was
    BY <1>10, <2>2
  <2>5. "empty" \notin was
    BY <1>9
  <2>a. port \in is => d = b
    BY <1>10
  <2> HIDE DEF was, is
  <2>6. IF is = {} THEN out[d] = "empty" ELSE out[d] \in is
    <3>1. CASE d # b
      BY <1>6, <2>1, <2>4, <3>1
    <3>2. CASE d = b /\ was = {}
      BY <1>6, <2>1, <2>2, <2>3, <3>2
    <3>3. CASE d = b /\ was # {}
      BY <1>6, <2>1, <2>2, <2>5, <3>3
    <3> QED  BY <3>1, <3>2, <3>3
  <2> QED  BY <1>4, <2>6 DEF Reported, is
<1>12. ScanTrue(r)
  BY <1>1, <1>4, <1>11 DEF ScanTrue
<1> QED  BY <1>4, <1>5, <1>12, OneScan, RegistryStays, PInvParts

\* The configuration a route asks for is one the registry knows.
LEMMA AskedIsKey ==
  ASSUME NEW r \in Scan, ScanTrue(r), NEW b \in Backends,
         NEW base, base = IF b = "custom" THEN "env" ELSE r.out[b]
  PROVE  Config(b, base, TRUE) \in Key /\ base \in Bases
<1>1. CASE b = "custom"
  BY <1>1 DEF Key, Bases
<1>2. CASE b # "custom" /\ base = "empty"
  BY <1>2 DEF Key, Bases
<1>3. CASE b # "custom" /\ base # "empty"
  <2>1. b \in {"ollama", "lmstudio"} /\ base = r.out[b]
    BY <1>3 DEF Backends
  <2>2. base \in {p \in r.answered : BackendAt(p) = b}
    BY <1>3, <2>1 DEF ScanTrue, Reported
  <2>3. base \in Ports /\ BackendAt(base) = b
    BY <2>2 DEF Scan
  <2>4. Config(b, base, TRUE) \in {Config(BackendAt(p), p, TRUE) : p \in Ports}
    BY <2>3
  <2> QED  BY <2>3, <2>4 DEF Key, Bases
<1> QED  BY <1>1, <1>2, <1>3

LEMMA AsksInv == ASSUME PInv, NEW s \in Scans, Asks(s) PROVE PInv'
<1>1. PICK b \in Backends :
        LET base == IF b = "custom" THEN "env" ELSE scan[s].out[b]
        IN /\ Get(Config(b, base, TRUE), Handed(Config(b, base, TRUE)))
           /\ scan' = [scan EXCEPT ![s].at = "listing", ![s].from = base]
  BY DEF Asks
<1> DEFINE base == IF b = "custom" THEN "env" ELSE scan[s].out[b]
           r == [scan[s] EXCEPT !.at = "listing", !.from = base]
<1>2. scan[s] \in Scan /\ ScanTrue(scan[s]) /\ scan[s].at = "probing"
  BY ScanIs DEF Asks
<1>3. /\ Get(Config(b, base, TRUE), Handed(Config(b, base, TRUE)))
      /\ scan' = [scan EXCEPT ![s] = r]
  BY <1>1
<1>4. inFlight' = inFlight /\ call' = call
  BY DEF Asks
<1>5. base = "env" \/ \E d \in {"ollama", "lmstudio"} : base = scan[s].out[d]
  BY DEF Backends
<1> HIDE DEF base
<1>6. Config(b, base, TRUE) \in Key /\ base \in Bases
  BY <1>2, AskedIsKey DEF base
<1>7. Registered'
  BY <1>3, <1>4, <1>6, GetInv, PInvParts
<1>8. /\ r \in Scan /\ r.out = scan[s].out /\ r.answered = scan[s].answered /\ r.at = "listing"
      /\ r.models = scan[s].models /\ r.from = base
  BY <1>2, <1>6 DEF Scan
<1> HIDE DEF r
<1>9. ScanTrue(r)
  BY <1>2, <1>5, <1>8 DEF ScanTrue, Reported
<1> QED  BY <1>3, <1>4, <1>7, <1>8, <1>9, OneScan

LEMMA ModelsListedInv == ASSUME PInv, NEW s \in Scans, ModelsListed(s) PROVE PInv'
<1>1. PICK models \in {"none", "some"} :
        /\ models = "some" => scan[s].from \in Ports
        /\ scan' = [scan EXCEPT ![s].at = "over", ![s].models = models]
  BY DEF ModelsListed
<1> DEFINE r == [scan[s] EXCEPT !.at = "over", !.models = models]
<1>2. scan[s] \in Scan /\ ScanTrue(scan[s]) /\ scan[s].at = "listing"
  BY ScanIs DEF ModelsListed
<1>3. /\ r \in Scan /\ r.out = scan[s].out /\ r.answered = scan[s].answered /\ r.at = "over"
      /\ r.models = models /\ r.from = scan[s].from
  BY <1>2 DEF Scan
<1>4. scan' = [scan EXCEPT ![s] = r] /\ call' = call /\ UNCHANGED registryVars
  BY <1>1 DEF ModelsListed
<1>5. models = "some" => scan[s].from \in scan[s].answered
  <2>1. "env" \notin Ports /\ "empty" \notin Ports
    BY DEF Ports
  <2>2. scan[s].from \in Ports =>
          \E b \in {"ollama", "lmstudio"} : scan[s].from = scan[s].out[b]
    BY <1>2, <2>1 DEF ScanTrue
  <2>3. \A b \in {"ollama", "lmstudio"} : scan[s].out[b] \in Ports => scan[s].out[b] \in scan[s].answered
    BY <1>2, <2>1 DEF ScanTrue, Reported
  <2> QED  BY <1>1, <2>2, <2>3
<1> HIDE DEF r
<1>6. ScanTrue(r)
  BY <1>2, <1>3, <1>5 DEF ScanTrue, Reported
<1> QED  BY <1>3, <1>4, <1>6, OneScan, RegistryStays, PInvParts

-----------------------------------------------------------------------------
LEMMA PInit == ProvidersInit => PInv
<1> SUFFICES ASSUME ProvidersInit PROVE PInv
  OBVIOUS
<1>1. NoCall \in Call
  BY ProvidersAssumption DEF NoCall, Call
<1>2. NoScan \in Scan
  BY DEF NoScan, Scan, Bases
<1>3. StreamTrue(NoCall)
  <2>1. SubSeq(<< >>, 1, 0) = << >>
    OBVIOUS
  <2>2. SoFar(NoCall) = << >>
    BY <2>1, NothingRead DEF SoFar, NoCall
  <2> QED  BY <2>2, ProvidersAssumption DEF StreamTrue, NoCall
<1>4. ScanTrue(NoScan)
  BY DEF ScanTrue, Reported, NoScan
<1>5. Cardinality({}) = 0
  BY FS_EmptySet
<1>6. Registered
  BY <1>5, ProvidersAssumption DEF ProvidersInit, Registered, Shapes, Numbered, Holders, OnePerKey, Serial
<1> QED  BY <1>1, <1>2, <1>3, <1>4, <1>6, PInvParts DEF ProvidersInit

LEMMA PStutter == PInv /\ UNCHANGED providersVars => PInv'
<1> SUFFICES ASSUME PInv, UNCHANGED providersVars PROVE PInv'
  OBVIOUS
<1>1. Registered' /\ call' = call /\ scan' = scan
  BY RegistryStays, PInvParts DEF providersVars, registryVars, history
<1> QED  BY <1>1, PInvNext, PInvParts

LEMMA PStep == PInv /\ [ProvidersNext]_providersVars => PInv'
<1> SUFFICES ASSUME PInv, [ProvidersNext]_providersVars PROVE PInv'
  OBVIOUS
<1>1. CASE UNCHANGED providersVars
  BY <1>1, PStutter
<1>2. ASSUME NEW c \in Calls, Take(c) \/ Verify(c) \/ Open(c) \/ Accepted(c) \/ Rejected(c)
                              \/ Read(c) \/ Drained(c)
      PROVE  PInv'
  BY <1>2, TakeInv, VerifyInv, OpenInv, AcceptedInv, RejectedInv, ReadInv, DrainedInv
<1>3. ASSUME NEW c \in Calls, Breaks(c) \/ Usage(c) \/ Abort(c) \/ Sends(c) \/ Ends(c) \/ Settles(c)
      PROVE  PInv'
  BY <1>3, BreaksInv, UsageInv, AbortInv, SendsInv, EndsInv, SettlesInv
<1>4. ASSUME NEW k \in Key, NEW ok \in BOOLEAN, Probed(k, ok) PROVE PInv'
  BY <1>4, ProbedInv
<1>5. CASE Clear
  BY <1>5, ClearInv
<1>6. ASSUME NEW s \in Scans, Detect(s) \/ Asks(s) \/ ModelsListed(s) PROVE PInv'
  BY <1>6, DetectInv, AsksInv, ModelsListedInv
<1>7. ASSUME NEW s \in Scans, NEW port \in Ports, NEW ok \in BOOLEAN, Answers(s, port, ok) PROVE PInv'
  BY <1>7, AnswersInv
<1> QED  BY <1>1, <1>2, <1>3, <1>4, <1>5, <1>6, <1>7 DEF ProvidersNext

LEMMA ProvidersInvariant == ProvidersSpec => []PInv
<1>1. ProvidersInit => PInv
  BY PInit
<1>2. PInv /\ [ProvidersNext]_providersVars => PInv'
  BY PStep
<1> QED  BY <1>1, <1>2, PTL DEF ProvidersSpec

\* The registry holds at most one live adapter of a configuration, none that
\* failed its verification, and a scan reports ports that have answered.
THEOREM RegistryIsHonest == ProvidersSpec => []RegistryHonest
<1>1. PInv => RegistryHonest
  BY DEF PInv, RegistryHonest, DetectHonest, ScanTrue, Reported
<1> QED  BY <1>1, ProvidersInvariant, PTL

\* A run that is aborted handles nothing more.
LEMMA NothingWhenAborted ==
  ASSUME PInv, [ProvidersNext]_providersVars, NEW c \in Calls, call[c].aborted
  PROVE  call'[c].got = call[c].got
<1>1. call \in [Calls -> Call]
  BY PInvParts
<1>2. \A chunks : Handle(c, chunks) = call[c].got
  BY DEF Handle
<1>3. CASE call' = call
  BY <1>3
<1>4. ASSUME NEW d \in Calls, Take(d) \/ Verify(d)
      PROVE  call'[c].got = call[c].got
  <2>1. CASE Take(d)
    <3>1. call' = [call EXCEPT ![d].at = "ready"]
      BY <2>1 DEF Take
    <3> QED  BY <1>1, <3>1 DEF Call
  <2>2. CASE Verify(d)
    <3>1. \E k : call' = [call EXCEPT ![d].at = "verifying", ![d].key = {k}]
      BY <2>2 DEF Verify
    <3> QED  BY <1>1, <3>1 DEF Call
  <2> QED  BY <1>4, <2>1, <2>2
<1>5. ASSUME NEW d \in Calls, Open(d) \/ Accepted(d) \/ Drained(d) \/ Abort(d) \/ Sends(d) \/ Ends(d)
                              \/ Settles(d)
      PROVE  call'[c].got = call[c].got
  <2>1. call[d] \in Call
    BY <1>1
  <2>2. \E field \in {"at", "aborted", "sent", "sdk", "usage"} :
          \E v : call' = [call EXCEPT ![d][field] = v]
    BY <1>5 DEF Open, Accepted, Drained, Abort, Sends, Ends, Settles, Set
  <2>a. PICK field \in {"at", "aborted", "sent", "sdk", "usage"} :
          \E v : call' = [call EXCEPT ![d][field] = v]
    BY <2>2
  <2>3. PICK v : call' = [call EXCEPT ![d][field] = v]
    BY <2>a
  <2>4. [call[d] EXCEPT ![field] = v].got = call[d].got
    BY <2>1, <2>3 DEF Call
  <2> QED  BY <1>1, <2>3, <2>4
<1>6. ASSUME NEW d \in Calls, Rejected(d) PROVE call'[c].got = call[c].got
  BY <1>1, <1>2, <1>6 DEF Rejected, Call
<1>7. ASSUME NEW d \in Calls, Read(d) PROVE call'[c].got = call[c].got
  <2> DEFINE stop == [call[d] EXCEPT !.at = "over"]
             more == ChunkOf(call[d].sent[call[d].read + 1])
             next == [call[d] EXCEPT !.read = @ + 1, !.got = Handle(d, more)]
  <2>1. call' = [call EXCEPT ![d] = stop] \/ call' = [call EXCEPT ![d] = next]
    BY <1>7 DEF Read, Set
  <2>2. call[d] \in Call
    BY <1>1
  <2>3. stop.got = call[d].got /\ next.got = Handle(d, more)
    BY <2>2 DEF Call
  <2> HIDE DEF stop, next, more
  <2> QED  BY <1>1, <1>2, <2>1, <2>3
<1>8. ASSUME NEW d \in Calls, Breaks(d) PROVE call'[c].got = call[c].got
  BY <1>1, <1>2, <1>8 DEF Breaks, Call
<1>9. ASSUME NEW d \in Calls, Usage(d) PROVE call'[c].got = call[c].got
  BY <1>1, <1>2, <1>9 DEF Usage, Call
<1>10. ASSUME NEW k \in Key, NEW ok \in BOOLEAN, Probed(k, ok) PROVE call'[c].got = call[c].got
  BY <1>1, <1>10 DEF Probed, Call
<1>11. CASE UNCHANGED providersVars \/ Clear
  BY <1>3, <1>11 DEF providersVars, Clear
<1>12. ASSUME NEW s \in Scans, \/ Detect(s) \/ Asks(s) \/ ModelsListed(s)
                               \/ \E port \in Ports, ok \in BOOLEAN : Answers(s, port, ok)
       PROVE  call'[c].got = call[c].got
  BY <1>3, <1>12 DEF Detect, Asks, ModelsListed, Answers
<1> QED  BY <1>4, <1>5, <1>6, <1>7, <1>8, <1>9, <1>10, <1>11, <1>12 DEF ProvidersNext

\* What the loop handles is what the SDK sent, in order and once, and nothing
\* once the run is aborted.
THEOREM StreamsAreHonest == ProvidersSpec => StreamHonest
<1>1. ASSUME PInv, PInv', [ProvidersNext]_providersVars, NEW c \in Calls
      PROVE  LET had == call[c].got
                 has == call'[c].got
                 sent == ChunksOf(SubSeq(call'[c].sent, 1, call'[c].read))
             IN /\ call[c].aborted => has = had
                /\ \/ has = sent
                   \/ has = sent \o << "usage" >> /\ call'[c].sdk = "ended"
                        /\ call'[c].read = Len(call'[c].sent)
                   \/ has = sent \o << "thrown" >> /\ call'[c].sdk = "failed"
                /\ call'[c].at = "usage" => has = ChunksOf(call'[c].sent) \/ call'[c].aborted
  <2>1. call'[c] \in Call /\ StreamTrue(call'[c])
    BY <1>1 DEF PInv, ProvidersTypeOK
  <2>2. call[c].aborted => call'[c].got = call[c].got
    BY <1>1, NothingWhenAborted
  <2> DEFINE r == call'[c]
  <2>3. r.at = "usage" => r.got = ChunksOf(r.sent)
    <3>1. SubSeq(r.sent, 1, Len(r.sent)) = r.sent
      BY <2>1 DEF Call
    <3> QED  BY <2>1, <3>1 DEF StreamTrue, SoFar
  <2> QED  BY <2>1, <2>2, <2>3 DEF StreamTrue, SoFar
<1>2. PInv /\ PInv' /\ [ProvidersNext]_providersVars =>
        [\A c \in Calls :
           LET had == call[c].got
               has == call'[c].got
               sent == ChunksOf(SubSeq(call'[c].sent, 1, call'[c].read))
           IN /\ call[c].aborted => has = had
              /\ \/ has = sent
                 \/ has = sent \o << "usage" >> /\ call'[c].sdk = "ended"
                      /\ call'[c].read = Len(call'[c].sent)
                 \/ has = sent \o << "thrown" >> /\ call'[c].sdk = "failed"
              /\ call'[c].at = "usage" => has = ChunksOf(call'[c].sent) \/ call'[c].aborted
        ]_providersVars
  BY <1>1
<1> QED  BY <1>2, ProvidersInvariant, PTL DEF ProvidersSpec, StreamHonest
=============================================================================
