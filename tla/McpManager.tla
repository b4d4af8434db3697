---------------------------- MODULE McpManager -----------------------------
(***************************************************************************)
(* The manager (server/src/mcp/manager.ts) over one server's client, with  *)
(* the conversion of names (mcp/discovery.ts) and the registry the model's *)
(* tools are looked up in (tools/registry.ts). Its operations come from    *)
(* the start of the process, from runs (before each model call, and for    *)
(* each call of an MCP tool) and from the reconnect route, and overlap.    *)
(***************************************************************************)
EXTENDS McpClient

CONSTANTS
    MaxOperations       \* bound: operations begun

ASSUME OperationsAssumption == MaxOperations \in Nat

VARIABLES
    begun,      \* operations begun so far
    overlapped, \* two operations have been under way at once
    abandoned,  \* the transports attemptReconnect() has given up with
    known,      \* managed.toolNames
    error,      \* managed.error is set
    registry    \* the names in the shared ToolRegistry

managerVars == <<begun, overlapped, abandoned, known, error, registry>>
vars == <<clientVars, managerVars>>

TypeOK ==
    /\ ClientTypeOK
    /\ begun \in 0..MaxOperations
    /\ overlapped \in BOOLEAN
    /\ abandoned \subseteq Transports
    /\ known \subseteq Tools
    /\ error \in BOOLEAN
    /\ registry \subseteq Tools

(* What each mcp.json says of the server; a file that is missing or cannot *)
(* be parsed says nothing. The project's entry wins.                       *)
McpFile == {"stdio", "http", "absent"}
MergeConfigs(global, project) == IF project = "absent" THEN global ELSE project

Init ==
    /\ ClientInit
    /\ \E global, project \in McpFile : kind = MergeConfigs(global, project)
    /\ begun = 0
    /\ overlapped = FALSE
    /\ abandoned = {}
    /\ known = {}
    /\ error = FALSE
    /\ registry = {}

-----------------------------------------------------------------------------
Idle(c) == stack[c] = <<>>

Begin(c) ==
    /\ Quiet /\ Idle(c)
    /\ begun < MaxOperations
    /\ begun' = begun + 1
    /\ overlapped' = (overlapped \/ \E d \in Callers : ~Idle(d))
    /\ UNCHANGED <<abandoned, known, error, registry, reply>>

(* start(): the first thing the process does with the manager.             *)
Start(c) ==
    /\ begun = 0
    /\ Begin(c)
    /\ Connect(c, client, <<Await("connecting")>>)

(* refreshTools(): nothing for a client that is not connected.             *)
RefreshTools(c) ==
    /\ begun > 0
    /\ IsConnected(client)
    /\ Begin(c)
    /\ ListTools(c, client, <<Await("discovering")>>)

(* POST /mcp/servers/:name/reconnect.                                      *)
Reconnect(c) ==
    /\ begun > 0
    /\ Begin(c)
    /\ Disconnect(c, client, <<Await("disconnecting")>>)

Reconnecting(c) ==
    /\ Resumed(c, "disconnecting")
    /\ Connect(c, client, <<Await("connecting")>>)
    /\ UNCHANGED <<reply, managerVars>>

(* The model calls a registered tool.                                      *)
Execute(c) ==
    /\ begun > 0
    /\ registry # {}
    /\ Begin(c)
    /\ CallTool(c, client, <<Await("calling")>>)

Finish(c) ==
    /\ Goto(c, <<>>)
    /\ reply' = [reply EXCEPT ![c] = NoReply]
    /\ UNCHANGED <<client, net>>

Executed(c) ==
    /\ Resumed(c, "calling")
    /\ Finish(c)
    /\ UNCHANGED managerVars

(* connectOne() and reconnect() after client.connect(): refreshServer().   *)
Connected(c) ==
    /\ Resumed(c, "connecting")
    /\ UNCHANGED <<begun, overlapped, abandoned, known, registry>>
    /\ IF ret[c] = "ok"
       THEN error' = FALSE /\ UNCHANGED reply /\ ListTools(c, client, <<Await("discovering")>>)
       ELSE error' = TRUE /\ Finish(c)

(* A bug Apply could have: the list is remembered before it is compared.   *)
ApplyRemembersFirst(tools) ==
    /\ known' = tools
    /\ registry' = registry \cup (tools \ known')

(* applyDiscovered(): a tool that is gone is to be replaced by a stub,     *)
(* which register() refuses because the name is taken; the error is only   *)
(* logged. New names are registered.                                       *)
Register(reg, tools) == reg \cup tools

Apply(tools) ==
    /\ registry' = Register(registry, tools \ registry)
    /\ known' = tools

Discovered(c) ==
    /\ Resumed(c, "discovering")
    /\ Finish(c)
    /\ UNCHANGED <<begun, overlapped, abandoned>>
    /\ IF ret[c] = "ok"
       THEN Apply(reply[c].list) /\ UNCHANGED error
       ELSE error' = TRUE /\ UNCHANGED <<known, registry>>

-----------------------------------------------------------------------------
Next ==
    \/ \E c \in Callers :
           \/ Start(c) \/ RefreshTools(c) \/ Reconnect(c) \/ Execute(c)
           \/ Reconnecting(c) \/ Executed(c) \/ Connected(c) \/ Discovered(c)
           \/ /\ ClientStep(c)
              /\ abandoned' = IF GivesUp(c) THEN abandoned \cup ({client.transport} \cap Transports)
                              ELSE abandoned
              /\ UNCHANGED <<begun, overlapped, known, error, registry>>
    \/ ServerStep /\ UNCHANGED managerVars
    \/ \E t \in Transports, tools \in SUBSET Tools : Quiet /\ ToolsChange(t, tools) /\ UNCHANGED managerVars

Spec == Init /\ [][Next]_vars

-----------------------------------------------------------------------------
(* What the manager lists for a server can be called: every name in        *)
(* toolNames is in the registry.                                           *)
ListedIsRegistered == known \subseteq registry

(* The manager's tables are of their types and its list is the registry's. *)
ManagerHonest == TypeOK /\ ListedIsRegistered

(* While operations come one after the other, no transport is left behind: *)
(* one that is connected is the client's own, or the one the last           *)
(* reconnection was given up with.                                         *)
NoStrayTransport ==
    ~overlapped =>
        \A t \in Transports : links[t].connected => client.transport = t \/ t \in abandoned
=============================================================================
