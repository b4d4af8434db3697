----------------------------- MODULE McpClient -----------------------------
(***************************************************************************)
(* The client of one MCP server (server/src/mcp/client.ts) over its stdio  *)
(* or HTTP transport (mcp/transport/stdio.ts, mcp/transport/http.ts), with *)
(* the server at the other end.                                            *)
(*                                                                         *)
(* Several operations run on one client at once, so each caller has a      *)
(* stack of the async functions it is in, the innermost first, and `ret`,  *)
(* what the innermost call has just returned. A frame names the await its  *)
(* function is at; a step runs from one await to the next. What a promise   *)
(* that has been settled leads to runs before any timer, answer or request *)
(* that comes in (Quiet); callers that run at the same time run in any     *)
(* order.                                                                  *)
(*                                                                         *)
(* The other end is free: it answers in any order, late, with an error or  *)
(* never, its process dies at any time, and starting it may fail.          *)
(***************************************************************************)
EXTENDS Integers, Sequences, FiniteSets, FiniteSetsExt

CONSTANTS
    Callers,                \* the asynchronous activities that use the client
    Tools,                  \* tools the server may offer
    MaxTransports,          \* bound: transports whose connect() succeeds
    MaxReconnectAttempts

ASSUME McpAssumption ==
    /\ IsFiniteSet(Callers)
    /\ MaxTransports \in Nat /\ MaxReconnectAttempts \in Nat \ {0}

NoTransport == -1
Refused == 0                \* a transport whose connect() fails
Transports == 0..MaxTransports

Method == {"initialize", "tools/list", "tools/call"}

(* How a call ends. "timeout" is the error request_timeout, "lost" an      *)
(* error whose text says aborted, closed or disconnected.                  *)
NoRet == "none"
NoReply == [to |-> {}, list |-> {}]
Returned == {"ok", "timeout", "lost", "other"}

Request(at, m, try, t, id) == [at |-> at, m |-> m, try |-> try, t |-> t, id |-> id]
Opening(t) == [at |-> "opening", t |-> t]
Closing(t, kills) == [at |-> "closing", t |-> t, kills |-> kills]
Attempt(at, n) == [at |-> at, n |-> n]      \* sleeping, dropping or joining
For(at, m) == [at |-> at, m |-> m]          \* mending or ensuring
Await(at) == [at |-> at]

Sending == {"writing", "request"}           \* in the write, then waiting for the answer

Frame ==
    [at : Sending, m : Method, try : 1..2, t : Transports, id : Nat]
    \cup [at : {"opening"}, t : Transports]
    \cup [at : {"closing"}, t : Transports, kills : BOOLEAN]
    \cup [at : {"sleeping", "dropping", "joining"}, n : 1..MaxReconnectAttempts]
    \cup [at : {"mending", "ensuring"}, m : Method]
    \cup [at : {"handshake", "listing", "connecting", "discovering", "calling",
                "disconnecting"}]

VARIABLES
    kind,       \* the transport's type in mcp.json
    client,     \* McpClient: transport, ready (initializeResult), cache (toolCache), dirty
    links,      \* each transport: connectedFlag, its child
    pending,    \* requests whose promise is not settled
    asked,      \* requests the other end has not answered
    offered,    \* the tools the server offers now
    stack, ret,
    reply       \* what each caller got last, a tool list, and what request that answers

clientVars == <<kind, client, links, pending, asked, offered, stack, ret, reply>>
net == <<kind, links, pending, asked, offered>>

Pending == [t : Transports, id : Nat, m : Method, c : Callers]

(* toolCache is null or one list: the empty set or a singleton.            *)
ClientTypeOK ==
    /\ kind \in {"stdio", "http"}
    /\ client \in [transport : Transports \cup {NoTransport}, ready : BOOLEAN,
                   cache : SUBSET SUBSET Tools, dirty : BOOLEAN]
    /\ Cardinality(client.cache) <= 1
    /\ links \in [Transports -> [connected : BOOLEAN,
                                 child : {"unused", "starting", "live", "dead"}]]
    /\ pending \subseteq Pending
    /\ asked \subseteq Pending
    /\ offered \subseteq Tools
    /\ \A c \in Callers : /\ \A j \in DOMAIN stack[c] : stack[c][j] \in Frame
                          /\ ret[c] \in Returned \cup {NoRet}
                          /\ reply[c] \in [to : SUBSET Pending, list : SUBSET Tools]

ClientInit ==
    /\ kind \in {"stdio", "http"}
    /\ client = [transport |-> NoTransport, ready |-> FALSE, cache |-> {}, dirty |-> FALSE]
    /\ links = [t \in Transports |-> [connected |-> FALSE, child |-> "unused"]]
    /\ pending = {}
    /\ asked = {}
    /\ offered = Tools
    /\ stack = [c \in Callers |-> <<>>]
    /\ ret = [c \in Callers |-> NoRet]
    /\ reply = [c \in Callers |-> NoReply]

-----------------------------------------------------------------------------
At(c, at) == stack[c] # <<>> /\ Head(stack[c]).at = at
Resumed(c, at) == At(c, at) /\ ret[c] # NoRet
Top(c) == Head(stack[c])
Own(c) == [t |-> Top(c).t, id |-> Top(c).id, m |-> Top(c).m, c |-> c]
Rest(c) == Tail(stack[c])

Goto(c, frames) ==
    /\ stack' = [stack EXCEPT ![c] = frames]
    /\ ret' = [ret EXCEPT ![c] = NoRet]

ReturnTo(c, frames, how) ==
    /\ stack' = [stack EXCEPT ![c] = frames]
    /\ ret' = [ret EXCEPT ![c] = how]

Link(cl) == links[cl.transport]
IsConnected(cl) ==
    cl.transport # NoTransport /\ Link(cl).connected /\ ~cl.dirty

(* The calls below are made with the client in state cl; `k` is what is    *)
(* left to do when they return.                                            *)
Unused == {t \in Transports \ {Refused} : links[t].child = "unused"}
NewTransport == CHOOSE t \in Unused : TRUE

Connect(c, cl, k) ==
    /\ UNCHANGED <<kind, pending, asked, offered>>
    /\ IF IsConnected(cl)
       THEN client' = cl /\ ReturnTo(c, k, "ok") /\ UNCHANGED links
       ELSE \/ /\ client' = [cl EXCEPT !.transport = Refused]
               /\ Goto(c, <<Opening(Refused)>> \o k)
               /\ UNCHANGED links
            \/ /\ Unused # {}
               /\ client' = [cl EXCEPT !.transport = NewTransport]
               /\ links' = [links EXCEPT ![NewTransport].child = "starting"]
               /\ Goto(c, <<Opening(NewTransport)>> \o k)

(* A stdio transport that is disconnected hears no more responses.         *)
Disconnect(c, cl, k) ==
    /\ client' = cl
    /\ UNCHANGED <<kind, pending, offered>>
    /\ IF cl.transport = NoTransport
       THEN ReturnTo(c, k, "ok") /\ UNCHANGED <<links, asked>>
       ELSE /\ asked' = {q \in asked : kind = "http" \/ q.t # cl.transport}
            /\ links' = [links EXCEPT ![cl.transport].connected = FALSE]
            /\ Goto(c, <<Closing(cl.transport, kind = "stdio" /\ Link(cl).connected)>> \o k)

AttemptReconnect(c, cl, k) ==
    /\ client' = cl
    /\ UNCHANGED net
    /\ IF IsConnected(cl)
       THEN ReturnTo(c, k, "ok")
       ELSE Goto(c, <<Attempt("sleeping", 1)>> \o k)

(* nextId counts; here an id is taken that no request still known on either *)
(* side has.                                                               *)
FreshId(t) ==
    CHOOSE n \in 1..Cardinality(Callers) + Cardinality(asked) + 1 :
        \A q \in pending \cup asked : ~(q.t = t /\ q.id = n)

(* transport.sendRequest, with the transports in state ls. Over stdio the  *)
(* request is pending, and its timer runs, before the write is awaited. A  *)
(* dead child receives nothing.                                            *)
Send(c, cl, ls, m, try, k) ==
    /\ client' = cl
    /\ links' = ls
    /\ UNCHANGED <<kind, offered>>
    /\ LET t == cl.transport
           up == t # NoTransport /\ (t \in Transports => ls[t].connected)
           p == [t |-> t, id |-> FreshId(t), m |-> m, c |-> c]
       IN  IF up
           THEN /\ pending' = pending \cup {p}
                /\ asked' = IF ls[t].child = "live" THEN asked \cup {p} ELSE asked
                /\ Goto(c, <<Request(IF kind = "stdio" THEN "writing" ELSE "request",
                                     m, try, t, p.id)>> \o k)
           ELSE /\ ReturnTo(c, k, "other")
                /\ UNCHANGED <<pending, asked>>

EnsureConnected(c, cl, k) ==
    IF cl.transport = NoTransport THEN Connect(c, cl, k) ELSE AttemptReconnect(c, cl, k)

ListTools(c, cl, k) == EnsureConnected(c, cl, <<For("ensuring", "tools/list")>> \o k)
CallTool(c, cl, k) == EnsureConnected(c, cl, <<For("ensuring", "tools/call")>> \o k)

(* The write has returned, or failed, which ends the request whatever has   *)
(* become of it. A promise settled meanwhile is heard of only now.         *)
Sent(c) == [Top(c) EXCEPT !.at = "request"]

(* A bug Written could have: it waits for an answer that has been.         *)
WrittenWaits(c) ==
    /\ At(c, "writing")
    /\ Goto(c, <<Sent(c)>> \o Rest(c))
    /\ UNCHANGED <<client, net, reply>>

Written(c) ==
    /\ At(c, "writing")
    /\ stack' = [stack EXCEPT ![c] = <<Sent(c)>> \o Rest(c)]
    /\ UNCHANGED <<client, net, ret, reply>>

WriteFails(c, how) ==
    /\ At(c, "writing") /\ links[Top(c).t].child = "dead"
    /\ pending' = pending \ {Own(c)}
    /\ ReturnTo(c, <<Sent(c)>> \o Rest(c), how)
    /\ UNCHANGED <<kind, client, links, asked, offered, reply>>

-----------------------------------------------------------------------------
(* connect(): the transport is up, or it failed; then the handshake.       *)
Opened(c) ==
    /\ At(c, "opening") /\ Top(c).t # Refused
    /\ Send(c, [client EXCEPT !.dirty = FALSE],
            [links EXCEPT ![Top(c).t].connected = TRUE, ![Top(c).t].child = "live"],
            "initialize", 1, <<Await("handshake")>> \o Rest(c))
    /\ UNCHANGED reply

OpenFails(c) ==
    /\ At(c, "opening") /\ Top(c).t = Refused
    /\ client' = [client EXCEPT !.transport = NoTransport]
    /\ ReturnTo(c, Rest(c), "other")
    /\ UNCHANGED <<net, reply>>

Handshaken(c) ==
    /\ Resumed(c, "handshake")
    /\ client' = [client EXCEPT !.ready = @ \/ ret[c] = "ok"]
    /\ ReturnTo(c, Rest(c), ret[c])
    /\ UNCHANGED <<net, reply>>

(* disconnect(): the stdio transport waits until its child has exited and  *)
(* then rejects what is pending on it. The fields are reset whatever       *)
(* another operation has made of them meanwhile.                           *)
PendingOn(t) == {p \in pending : p.t = t}
Reset == [client EXCEPT !.transport = NoTransport, !.ready = FALSE, !.cache = {}]

Closed(c) ==
    /\ At(c, "closing")
    /\ Top(c).kills => links[Top(c).t].child = "dead"
    /\ client' = Reset
    /\ LET gone == IF Top(c).kills THEN PendingOn(Top(c).t) ELSE {}
       IN  /\ pending' = pending \ gone
           /\ stack' = [stack EXCEPT ![c] = Tail(@)]
           /\ ret' = [d \in Callers |-> IF d = c THEN "ok"
                                        ELSE IF \E p \in gone : p.c = d THEN "lost"
                                        ELSE ret[d]]
    /\ UNCHANGED <<kind, links, asked, offered, reply>>

-----------------------------------------------------------------------------
(* attemptReconnect(): up to MaxReconnectAttempts times sleep, disconnect  *)
(* and connect.                                                            *)

(* A bug Wake could have: it connects without disconnecting first.         *)
WakeConnects(c) ==
    /\ At(c, "sleeping")
    /\ Connect(c, client, <<Attempt("joining", Top(c).n)>> \o Rest(c))
    /\ UNCHANGED reply

Wake(c) ==
    /\ At(c, "sleeping")
    /\ Disconnect(c, client, <<Attempt("dropping", Top(c).n)>> \o Rest(c))
    /\ UNCHANGED reply

Dropped(c) ==
    /\ Resumed(c, "dropping")
    /\ Connect(c, client, <<Attempt("joining", Top(c).n)>> \o Rest(c))
    /\ UNCHANGED reply

Joined(c) ==
    /\ Resumed(c, "joining")
    /\ \/ /\ ret[c] = "ok"
          /\ client' = [client EXCEPT !.dirty = FALSE]
          /\ ReturnTo(c, Rest(c), "ok")
       \/ /\ ret[c] # "ok" /\ Top(c).n < MaxReconnectAttempts
          /\ Goto(c, <<Attempt("sleeping", Top(c).n + 1)>> \o Rest(c))
          /\ UNCHANGED client
       \/ /\ ret[c] # "ok" /\ Top(c).n = MaxReconnectAttempts
          /\ client' = [client EXCEPT !.transport = NoTransport]
          /\ ReturnTo(c, Rest(c), "ok")
    /\ UNCHANGED <<net, reply>>

(* Giving up forgets the transport of the last attempt, which stays        *)
(* connected if only its handshake failed.                                 *)
GivesUp(c) ==
    Resumed(c, "joining") /\ ret[c] # "ok" /\ Top(c).n = MaxReconnectAttempts

-----------------------------------------------------------------------------
(* request(): the answer is passed on; a timeout or a lost connection      *)
(* leads to a reconnection and one more try.                               *)
Answered(c) ==
    /\ Resumed(c, "request")
    /\ LET f == Top(c)
           retry == <<For("mending", f.m)>> \o Rest(c)
       IN  \/ /\ ret[c] = "ok" \/ ret[c] = "other" \/ f.try = 2
              /\ ReturnTo(c, Rest(c), IF ret[c] = "ok" THEN "ok" ELSE "other")
              /\ UNCHANGED <<client, net>>
           \/ /\ f.try = 1 /\ ret[c] = "timeout"
              /\ AttemptReconnect(c, client, retry)
           \/ /\ f.try = 1 /\ ret[c] = "lost"
              /\ AttemptReconnect(c, [client EXCEPT !.dirty = TRUE], retry)
    /\ reply' = [reply EXCEPT ![c].to = {}]

Mended(c) ==
    /\ Resumed(c, "mending")
    /\ Send(c, client, links, Top(c).m, 2, Rest(c))
    /\ UNCHANGED reply

(* listTools() and callTool() once ensureConnected() has returned.         *)
Ensured(c) ==
    /\ Resumed(c, "ensuring")
    /\ LET m == Top(c).m
       IN  \/ /\ ret[c] # "ok"
              /\ ReturnTo(c, Rest(c), "other")
              /\ UNCHANGED <<client, net, reply>>
           \/ /\ ret[c] = "ok" /\ m = "tools/list" /\ client.cache # {}
              /\ reply' = [reply EXCEPT ![c] = [to |-> {}, list |-> CHOOSE l \in client.cache : TRUE]]
              /\ ReturnTo(c, Rest(c), "ok")
              /\ UNCHANGED <<client, net>>
           \/ /\ ret[c] = "ok" /\ m = "tools/list" /\ client.cache = {}
              /\ Send(c, client, links, m, 1, <<Await("listing")>> \o Rest(c))
              /\ UNCHANGED reply
           \/ /\ ret[c] = "ok" /\ m = "tools/call"
              /\ Send(c, client, links, m, 1, Rest(c))
              /\ UNCHANGED reply

Listed(c) ==
    /\ Resumed(c, "listing")
    /\ client' = IF ret[c] = "ok" THEN [client EXCEPT !.cache = {reply[c].list}] ELSE client
    /\ ReturnTo(c, Rest(c), ret[c])
    /\ UNCHANGED <<net, reply>>

-----------------------------------------------------------------------------
(* The promise of request p is settled.                                    *)
Settle(p, how) ==
    /\ pending' = pending \ {p}
    /\ ret' = [ret EXCEPT ![p.c] = how]

(* Over stdio: a line of the child. Once the transport is disconnected its *)
(* pump has stopped; a response to a request that is not pending is        *)
(* dropped. An error response is an error of its own or has one of the     *)
(* texts that request() takes for a lost connection.                       *)
Hears(t) == links[t].connected

(* The response to q reaches the pending requests `hit`.                   *)
Deliver(q, how, hit) ==
    /\ pending' = pending \ hit
    /\ ret' = [c \in Callers |-> IF \E p \in hit : p.c = c THEN how ELSE ret[c]]
    /\ reply' = [c \in Callers |-> IF \E p \in hit : p.c = c
                                   THEN [to |-> {q}, list |-> offered] ELSE reply[c]]
    /\ asked' = asked \ {q}
    /\ UNCHANGED <<kind, client, links, offered, stack>>

(* A bug Respond could have: a response goes to a pending request of its   *)
(* method.                                                                 *)
RespondByMethod(q, how) ==
    /\ kind = "stdio" /\ Hears(q.t)
    /\ Deliver(q, how, {p \in PendingOn(q.t) : p.m = q.m})

Respond(q, how) ==
    /\ kind = "stdio" /\ Hears(q.t)
    /\ Deliver(q, how, {p \in PendingOn(q.t) : p.id = q.id})

TimesOut(p) ==
    /\ kind = "stdio"
    /\ Settle(p, "timeout")
    /\ UNCHANGED <<kind, client, links, asked, offered, stack, reply>>

(* Over HTTP each request is a fetch of its own, which a disconnect leaves *)
(* running. It ends with the body or event of its response, or with an     *)
(* error: a status, another id, or a stream that closed before its event.  *)
FetchEnds(p, how) ==
    /\ kind = "http" /\ p \in asked
    /\ asked' = asked \ {p}
    /\ Settle(p, how)
    /\ reply' = [reply EXCEPT ![p.c] = [to |-> {p}, list |-> offered]]
    /\ UNCHANGED <<kind, client, links, offered, stack>>

(* The timer aborts it, or the connection breaks.                          *)
FetchAborts(p) ==
    /\ kind = "http"
    /\ asked' = asked \ {p}
    /\ Settle(p, "lost")
    /\ UNCHANGED <<kind, client, links, offered, stack, reply>>

FetchFails(p) ==
    /\ kind = "http" /\ links[p.t].child = "dead"
    /\ Settle(p, "other")
    /\ UNCHANGED <<kind, client, links, asked, offered, stack, reply>>

(* The child exits by itself, or was sent SIGTERM; or the HTTP server goes *)
(* down. Nothing tells the transport.                                      *)
ChildExits(t) ==
    /\ links[t].child = "live"
    /\ links' = [links EXCEPT ![t].child = "dead"]
    /\ asked' = {q \in asked : q.t # t}
    /\ UNCHANGED <<kind, client, pending, offered, stack, ret, reply>>

(* The server changes its tools and may say so (tools/list_changed), over  *)
(* HTTP only in the event stream that answers a request.                   *)
ToolsChange(t, tools) ==
    /\ links[t].child = "live"
    /\ tools # offered
    /\ offered' = tools
    /\ \/ /\ IF kind = "stdio" THEN Hears(t) ELSE PendingOn(t) # {}
          /\ client' = [client EXCEPT !.cache = {}]
       \/ UNCHANGED client
    /\ UNCHANGED <<kind, links, pending, asked, stack, ret, reply>>

(* No settled promise is left to act on.                                   *)
Quiet ==
    \A c \in Callers : /\ ret[c] # NoRet => At(c, "writing")
                       /\ ~At(c, "opening")
                       /\ At(c, "closing") => Top(c).kills

ClientStep(c) ==
    \/ Opened(c) \/ OpenFails(c) \/ Handshaken(c)
    \/ At(c, "closing") /\ (Top(c).kills => Quiet) /\ Closed(c)
    \/ Quiet /\ Wake(c)
    \/ Written(c)
    \/ Quiet /\ \E how \in {"lost", "other"} : WriteFails(c, how)
    \/ Dropped(c) \/ Joined(c) \/ Answered(c) \/ Mended(c) \/ Ensured(c) \/ Listed(c)

ServerStep ==
    /\ Quiet
    /\ \/ \E q \in asked, how \in {"ok", "lost", "other"} : Respond(q, how)
       \/ \E p \in pending : TimesOut(p)
       \/ \E p \in pending, how \in {"ok", "lost", "other"} : FetchEnds(p, how)
       \/ \E p \in pending : FetchAborts(p)
       \/ \E p \in pending : FetchFails(p)
       \/ \E t \in Transports : ChildExits(t)

-----------------------------------------------------------------------------
(* The promise of the caller's request is not settled.                     *)
Waiting(c) == stack[c] # <<>> /\ Top(c).at \in Sending /\ ret[c] = NoRet

(* A promise that is not settled is pending, in the write as after it, so  *)
(* that the answer, the timer or the end of the transport reaches it; and  *)
(* what is pending is a promise of that kind. So no path of disconnect,    *)
(* reconnect and retry, and no settlement while the write is still going   *)
(* on, leaves a caller that waits for a promise nothing will settle. What  *)
(* this does not say is that the write itself ends: until it does, a       *)
(* caller does not hear of a promise that has been settled.                *)
WaitsAreHeard ==
    /\ \A c \in Callers : Waiting(c) => Own(c) \in pending
    /\ \A p \in pending : Waiting(p.c) /\ p = Own(p.c)

(* A call that succeeds returns what the other end answered to this very   *)
(* request, this caller's and this try's, however many requests of the     *)
(* same method share the transport and however late an earlier try's       *)
(* answer comes.                                                           *)
AnswerIsOwn ==
    \A c \in Callers :
        stack[c] # <<>> /\ Top(c).at \in Sending /\ ret[c] = "ok" => reply[c].to = {Own(c)}

(* No operation makes more reconnection attempts than configured: "3       *)
(* attempts by default" (client.ts:10). The attempts made so far are the   *)
(* n-th of each attemptReconnect() the caller is in.                       *)
Attempting(c) == {j \in DOMAIN stack[c] : stack[c][j].at \in {"sleeping", "dropping", "joining"}}
ReconnectGivesUp ==
    \A c \in Callers :
        MapThenSumSet(LAMBDA j : stack[c][j].n, Attempting(c)) <= MaxReconnectAttempts
=============================================================================
