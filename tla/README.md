# Aficax in TLA+

TLA+ models of the Aficax coding agent (`src/aficax`), the TLC configurations
that check them on small instances, and theorems that TLAPS proves for every
value of the constants. Paths below are relative to
`src/aficax/packages/server/src` unless they say otherwise.

    tlc -workers 2 -config MCPendingApprovals.cfg MCPendingApprovals
    tlapm UserProofs.tla

`PROJECT.json` lists the components, the runs, the mutations that break each
property, the lines each definition stands for, the hazards and the theorems.

## The system

Aficax is a server (Hono, on one Node event loop) with a terminal client. A
client posts a message to a session; the server runs an agent loop for it and
streams the loop's events back as server-sent events. The loop calls a model,
runs the tools it asks for, each behind a permission gate that may prompt the
user through the client, and calls the model again with the results. Nothing is
parallel, but every `await` lets another request, timer, stream or abort in.

| component | state | operations | what is hard | what makes it correct |
|---|---|---|---|---|
| pending approvals (`events/bus.ts`) | map id -> wait; per wait: settled flag, timer, abort listener | register, resolve, timer, abort, cancelAll | five ways to end a wait, ids that repeat, a signal already aborted | one outcome per wait, from its own cause; nothing left armed; every wait ends |
| permission engine and allowlist (`permissions/engine.ts`, `allowlist.ts`) | per run: cached entries of two files; the files | checkPermission, requestApproval, look-up, add, approve route, delete route | file reads and writes between decision and verdict, several runs on the same files, prompts of all sessions in one registry | nothing runs without a licence of its own; an answer is honoured and remembered |
| sub-agents (`agents/spawner.ts`, `worker.ts`, `tools/spawn-agent.ts`) | semaphore and queue, handles, active list, workers, timers | spawn, run, abort, time out, wait, DELETE, disconnect | workers that spawn workers under one semaphore; two timers and two aborts per call | permits counted, none idle, no task lost; every call returns, every task ends |
| sessions and storage (`session/manager.ts`, `storage/*`) | cache, rows, message rows, titles, transcript files | create, get, update, addMessage, resume, delete, message route | an await in the middle of addMessage, no lock per session, restarts, failing appends | cache in the database's order; the loop is given only the past; no orphan rows |
| query loop (`loop/query-engine.ts`) | history, turn, stream buffers, tool outcomes, events | run, runOneTurn, runOneTool, abort | many ways out of a turn; tools that fail, are denied, blocked or unknown | well-formed history for the model, nested events for the client, termination |
| compaction and budget (`loop/compaction.ts`, `token-budget.ts`) | used tokens, failure count, breaker | micro, auto and full compaction | levels that suffice, change nothing or fail; an abort during a summary | the request survives; the breaker trips on time; failures are reported truthfully |
| event bus, streaming routes (`events/bus.ts` 17-93, `server.ts`) | subscribers per session; per connection its queue | subscribe, publish, POST route, DELETE | a lost client, a loop that throws, several connections of a session | a run is on the bus exactly as long as it goes on and is listened to |
| terminal client (`packages/tui`) | boot status, store, current message, controller; per stream its connection | boot, keys, send, interrupt, /clear, read, retry, finish | the client posts again when a stream breaks; an old stream's end resets a new one | text stays in its message; an interrupted stream is silent; the input bar comes back |
| MCP client and transports (`mcp/client.ts`, `mcp/transport/*`) | transport, handshake, cached list; per transport its child and pending requests | connect, request, retry, reconnect, list, call, disconnect, notification | a child that dies, nested reconnections, a transport replaced under others | every request can be settled, by its own answer; no transport is left behind |
| MCP manager and tool registry (`mcp/manager.ts`, `discovery.ts`, `tools/registry.ts`) | names listed, names registered, error | start, refresh, reconnect, execute | a tool list that changes; names the registry will not give up | what is listed can be called |
| hooks (`hooks/*`) | two files, their cache, the merged list, a dirty flag; per dispatch its child | watch, reload, dispatch, run one hook | reloads that race changes, children that ignore signals | a block stays, failures count, hooks are stale only by a race |
| checkpoints (`storage/checkpoints.ts`, `tools/write-file.ts`) | files, snapshot files | write, rewind | names by millisecond, paths matched by suffix, crashes | what a write replaced can be had back |
| memory (`memory/store.ts`, `extractor.ts`, `loop/prompt-builder.ts`) | file, temporary files, the builder's cache | read, append, write, commit, cached read | read-modify-write, failed reads and renames, equal times | never half a file; nothing read is lost; prompts have what the file held |
| sandbox (`sandbox/*`, `tools/bash.ts`) | what the probes found; per command its shell, clocks and signal | init, execute, kill, status | probes that overlap, two clocks, a signal before its listener, descendants | wrapped when it can be; a command returns |
| providers (`providers/*`, routes in `server.ts`) | adapter cache, probes in flight; per call its stream | get, getVerified, clear, detect, list, stream | streams that fail, stall or are aborted; scans answered in any order | one adapter per configuration; every chunk once |
| mode registry (`server.ts` 74-100) | session -> mode | get, set, PATCH | PATCH after DELETE; mode captured when a run starts | a run keeps the mode it began with |
| index (`indexer/*`), coordinator (`agents/coordinator.ts`) | a cache; a task graph | search, map, run | not used by the server | see *Not modelled* |

How they interact: the message route (`server.ts` 673-773) reads the session,
adds the message, builds an engine with a permission engine and an allowlist
store of its own, and drives the loop with an abort signal that fires when the
client disconnects. The loop consults compaction, hooks and MCP before each
call of the model, then the gate before each tool. The gate registers a wait
and publishes the request on the bus; the approve route resolves the wait. The
`spawn_agent` tool spawns a worker that drives a loop of the same kind; `bash`
goes through the sandbox, `write_file` takes checkpoints, and MCP tools go
through the manager to the client of their server. The model is called through
an adapter that the provider registry shares, and the terminal reads the loop's
events from the bus. The modules cut the system at these calls: what a module
leaves free (an answer, a stream that ends or fails, a tool's result) is what
the module on the other side may do.

The hazards, each at its line with the properties that would catch it going
wrong, are in `PROJECT.json`.

## Modules

* `ApprovalPromise`: the abstract promise. A wait is accepted or refused, and
  an accepted one gets one outcome that never changes.
* `PendingApprovals`: the registry. One action per method and per callback it
  installs; `ResolveEntries` is the closure `entry.resolve` (168-178).
  `settled`, `timer` and `listening` are the closure's flag, timeout and
  listener; `pending` is the map; `cause` is a history variable, the event (an
  answer under an id, the timer of a wait, a signal, cancelAll) that ended each
  wait. It implements `ApprovalPromise` (`ImplementsPromise`): `asked` are the
  waits that register() accepted, `refused` those for which it threw, `answer`
  what the promise resolved to.
* `PermissionEngine`: `checkPermission` as a chain of `stage`s, one step per
  await: the project file (`LookUpProject`), the global file and everything up
  to the prompt (`LookUpGlobal`), the wait (`Wake`), the write (`Save`). It
  instantiates `PendingApprovals`, one registry for every session. `Matches`
  compares the tool and not the list of an entry, as `matchBucket` does. A run
  is one message: its mode is captured at its start and its store is its own.
  The approve route is two steps, its session check (`PostAnswer`) and, once
  the body is there, the look-up and `resolve` (`Answer`).
* `SubAgents`: the semaphore (`queue`, `inFlight`), the loops of messages and
  workers, each call of `spawn_agent` (`call`, `listening`), the worker's
  status and timer, the handle and what `wait()` answered, and the active list.
* `Sessions`: `addMessage` in two steps, before and after it awaits the
  transcript; `current` is the session it read before. The message route adds
  one await, the body. `Restart` keeps the database and the files; `DeleteDies`
  is a process that dies between the three statements of `delete()`, each of
  which commits by itself. History variables: `disturbed`, the sessions in
  which an add overlapped another, failed, or was crossed by a crash;
  `removed`, the rows each deletion removed; `crossed`, the sessions deleted
  under an add of theirs; `cut`, those whose deletion the process died in.
* `QueryEngine`: the loop from await to await, with the three compaction
  levels. A history entry has a kind, a tool-call id and a length (long or
  not); the budget counts up to its threshold.
* `McpClient`: the client of one server over stdio or HTTP. Each caller has a
  `stack` of the async functions it is in, `ret` is what the innermost call
  returned, and a step runs from one await to the next, so that a reconnection
  inside a request inside a reconnection is simply a deeper stack. `links` are
  the transports and their children, `pending` their requests. Over stdio a
  request is pending while its line is still being written (`Send`, then
  `Written` or `WriteFails`): an answer, the timer or a disconnect may settle
  it before the caller waits for it. `reply` notes which request the answer a
  caller got was to. The server answers late, in any order, wrongly or never.
* `McpManager` extends it with the manager's list, the registry and the
  operations that start, refresh, reconnect and call.
* `Console`: the terminal client (`boot`, `store`, `streams`, `ref`,
  `controllerRef`) and the POST route with the bus (`runs`). Stream s is the
  s-th message; each post of it is a run of its own. `shown` is what the
  mounted key handler sees of the store, one render old at most. The loop
  behind a run is an environment that opens and closes messages, prompts, fails
  and ends; it may emit them in more orders than the loop of `QueryEngine`
  does. Its own events go to its own connection (`Emit`), a prompt and its
  answer to every connection of the session (`Ask`, `Approve`, through
  `Published`).
* `Hooks`: the two files, the watcher's notice, the registry's `cache`,
  `merged` and `dirty`, and each dispatch (`run`) with the child it waits for,
  first for its exit, then for the end of its pipes, which a process it left
  behind (`kin`) may hold. `raced` is a history variable. `Put` is the Map.set
  of `mergeHooks`, keyed by command (an instance has one event).
* `Sandbox`: the host (`platform`, `installed`, `policy`), what the probes
  `found`, and each command with its two clocks, its signal, its shell and the
  descendants that hold the shell's pipes (`kin`).
* `FileHistory`: `write_file` and rewind, each split at its file operations;
  history variables: `undo`, what the latest write of a file replaced;
  `replaced`, what every write replaced, with its checkpoint; `lost`, those of
  them that the write, or a later one of the same name and millisecond, left
  without a copy; per call, whether others used its file (`alone`) or wrote to
  it (`intact`).
* `Memory`: one memory file, its temporary files, its writers from operation to
  operation, and the prompt builder's cached read. The store reads up to `Cap`
  of a file (50 KB), the builder up to `PromptCap` (64 KB). `reused` and
  `exposed` are history variables for what modification times and temporary
  names, both in milliseconds, cannot tell apart.
* `Providers`: the registry's cache and probes, the scan for local servers, and
  for each call the parts the SDK `sent`, those `read` and the chunks the loop
  `got`. The four adapters read the SDK alike: one action per step.
* Theorems: `UserProofs` (`PendingApprovals` and `Console`, which wait for the
  user), `LoopProofs` (`QueryEngine` and `Hooks`), `RemoteProofs` (`McpClient`
  and `McpManager`, and `Providers`), `HostProofs` (`Sandbox` and `Memory`),
  `PermissionEngineProofs`, `SubAgentsProofs`, `SessionsProofs`,
  `FileHistoryProofs`. A module that extends two models needs names that do not
  collide, so the second one's initial predicate, next-state relation,
  specification and types carry its name: `ConsoleSpec`, `HooksSpec`,
  `ProvidersSpec`, `MemorySpec`, and `ConsoleInit`, `HooksTypeOK` and so on.
* `MC*`: the instances for TLC.

Operators introduced by "A bug X could have" are plausible mistakes in the
operator X. They are not part of a specification; each is used to see that a
property fails when the code is wrong.

An invariant that a run checks is often a conjunction of named parts
(`RegistryTidy`, `GateHonest`, `PermitsInOrder`, `HandlesTrue`, `CacheTrue`,
`PromptWellFormed`, `RunWellFormed`, `ManagerHonest`, `StreamsInStep`,
`DispatchHonest`, `RunsAsTold`, `Recoverable`, `MemoryHonest`,
`RegistryHonest`), the module's `TypeOK` among them; each part is commented
where it is defined.

## Runs

All runs have `CHECK_DEADLOCK FALSE`: a finite number of waits, calls, workers,
messages, operations or faults is used up and the modelled system then really
stops.

| run | instance | shows |
|---|---|---|
| approvals | 4 waits, 2 ids, 2 signals, one wait without a signal | one outcome per wait, from its own cause; nothing stale or leaked; every wait ends; `ApprovalPromise` is implemented |
| permission | 2 runs (full and plan mode) of a session, 4 calls, one id used by both, files that may fail, 1 answer in progress | licences, honoured and remembered answers, no call hangs |
| subagents | 1 message, 3 workers, 1 permit | permits, queue, active list, answers; nested workers end |
| sessions | 2 sessions, 3 + 1 messages, 1 restart, also in a delete, failing appends | order, pastness and completeness of what is served |
| query | 3 model calls, 3 tools, breaker at 2 failures | history, events, breaker, termination |
| mcp | 2 activities, 2 operations, 2 transports, 2 attempts, 1 tool | every request is heard, in the write or after it, and gets the answer to itself; no stray transport; what is listed is registered |
| console | 2 messages, 2 attempts each, 1 health check, 1 token and 1 other event, 1 on the way, 1 fault | text, silence after an interrupt, bus, input bar |
| hooks | 2 agents, 2 dispatches, a global and a project file of two hooks each, replies that change the context or try to, children that leave one behind, 1 edit | blocks, failures, staleness, every dispatch ends |
| sandbox | 2 agents, 2 commands, Linux, macOS and Windows with their tools, 3 policies | wrapping, both clocks, aborts, every command returns |
| history | 2 callers, 3 operations, 2 values, 2 milliseconds, 1 edit or crash | what was replaced stays in its own checkpoint, but for two named cases, and is what a rewind brings back |
| memory | 2 writers, 2 operations, 2 milliseconds, 2 bullets of which the store's read takes in one, the builder's both, 1 fault | no half file, nothing lost by a commit, fresh prompts |
| providers | 2 calls, the streams of one followed, 1 scan, a keyed remote and a local type, 2 adapters, streams of up to 2 parts of 2 kinds | sharing, verification, detection, listing; chunks once and in order, the error or usage last, every stream ends |

Counterexample configurations. Some statements of the code's documents and
comments are defined in the modules and are *not* true of them; each has a
configuration with which TLC shows the behaviour. They are no part of the runs:

| configuration | module | statement | behaviour found |
|---|---|---|---|
| `MCApproveAlways` | `MCPermissionEngine` | `ApproveAlwaysHolds` | after approve_always the next call of the tool is denied |
| `MCSavesKeep` | `MCPermissionEngine` | `SavesKeepEntries` | a run overwrites an entry another run saved |
| `MCDeleteEnds` | `MCPermissionEngine` | `DeleteEndsOwnPrompts` | deleting one session ends another's prompts |
| `MCHandleWindow` | `MCSubAgents` | `HeldForAWindow` | a handle leaves the active list in the step that gives it its result |
| `MCHandleStatus` | `MCSubAgents` | `RunningWhenRunning` | a handle whose worker runs is still pending |
| `MCCacheComplete` | `MCSessions` | `CacheIsComplete` | a stored message is missing from what is served |
| `MCDeletedForgotten` | `MCSessions` | `DeletedIsForgotten` | a session deleted during an add is served again |
| `MCCompactionFails` | `MCQueryEngine` | `FailureIsFailure` | a failure is reported although the budget was brought below the threshold |
| `MCReconnectGivesUp` | `MCMcp` | `ReconnectGivesUp` | nested reconnections make more attempts than configured |
| `MCHookTimeLimit` | `MCHooks` | `TimeLimitHolds` | the dispatcher waits for ever for the end of a pipe |
| `MCPromptSurfaces` | `MCConsole` | `PromptSurfaces` | a prompt is stored and never shown |
| `MCNeverTwoOpen` | `MCConsole` | `NeverTwoOpen` | two streams are read at once |

Why these bounds suffice. *Approvals*: two waits under an id show reuse, one
after the other and at once; two signals show that an abort is selective; a
wait without a signal shows the timer alone. *Permission*: two calls of one
tool in one run are needed for anything to be remembered, and two runs for
files and ids to be shared; a third run adds only a second copy of an
interleaving, and so does a second answer in progress, since what may happen
during the first's await is already everything else. *Sub-agents*: one permit
and three workers give a worker that holds the permit while it waits for a
queued worker, and one more behind it. *Sessions*: two messages overlap, the
third comes before or after them; a restart separates what is stored from what
is cached, and cuts a deletion. *Query*: two turns are needed for a turn's
results to be sent, the third reaches `maxTurns`; three tools allow a repeated
id; the breaker's own threshold (3) is lowered to 2, which leaves room for it
to trip and for a turn after that. *MCP*: two callers share a transport, one
replaces it under the other; two attempts are needed for one to fail and one to
succeed. *Console*: two messages for an old stream to meet a new one, two posts
of each for a retry, a token and an event that opens a message for text to go
astray, one fault because each kind of it is already a different story.
*Hooks*: two dispatches overlap two reloads; the global file has a hook that
comes after one that may block, the project file a blank one and one that
disables a global hook. *Sandbox*: two commands for overlapping probes; a host
without tools, or of another platform, has nothing to find, and Linux with one
tool is macOS by another name. *File history*: two writes and a rewind; two
milliseconds, so that checkpoints can be ordered and can collide. *Memory*: a
commit and a PUT, or two of either; a file that the store cuts and the builder
does not (with a third bullet both cut it; that takes five times as long and
shows the same). *Providers*: a second call adds nothing to the first's stream,
only to the cache, so only one is followed; of two unlike parts one can be
overtaken, repeated or dropped; two adapters are one for each type, or one that
is dropped and made again.

Bounds of the models, not of the code: `MaxAnswers`, `MaxRestarts`, `MaxCalls`,
`MaxTurns` of the instance, `MaxTransports`, `MaxOperations`, `MaxSends`,
`MaxTokens`, `MaxEvents`, `MaxQueue`, `MaxHealthChecks`, `MaxEdits`,
`MaxDispatches`, `MaxCommands`, `MaxTime`, `MaxFaults`, `MaxParts`,
`MaxAdapters`, `Followed`, and `used`, which stops at `Threshold`. Symmetry is
used for the interchangeable messages of `Sessions` and the callers of
`McpClient` and of `FileHistory`, with the values of its files, and the writers
and bullets of `Memory`, in runs without liveness properties.

Fairness. `PendingApprovals`: an armed timer fires; nobody has to answer.
`PermissionEngine`: file operations complete, a resolved promise wakes its
waiter, timers fire. `SubAgents`: promises run their reactions, timers fire,
and a loop whose signal has aborted ends (stream, shell and prompts honour the
signal); a loop that nobody aborts owes nothing. `QueryEngine`: every await
ends, because a provider's stream ends or throws, hooks end, prompts end
(module `PendingApprovals`) and tools return. `Console`: renders, timers and
the client's own reactions happen, a loop ends (`QueryEngine`), and a
connection delivers or breaks; this is one condition on all of these steps
together. `Hooks`: file reads complete, a process that does not ignore signals
exits, and pipes at their end are read; a process that a hook left behind owes
nothing. `Sandbox`: probes end, clocks fire, a taskkill ends, and a child that
is over is closed; no shell or descendant owes an end of its own. `Providers`:
what the SDK has sent, ended or failed is read; the SDK only owes that it
honours the abort signal and settles the usage of a stream that has ended: a
provider may stall for ever. `Sessions`, `McpManager`, `FileHistory` and
`Memory` state safety only. Users, clients and models are never assumed to act.

## What the code says and does not do

* After `approve_always` the next call of the tool is *denied*
  (`ApproveAlwaysHolds`): the look-up ignores which list an entry is on, and
  the deny question is asked first. What does hold is `AlwaysNeverAsksAgain`
  and `DenyAlwaysHolds`.
* A run saves its allowlist from a cache that may predate another run's entry
  (`SavesKeepEntries`).
* Deleting a session ends the prompts of all sessions (`DeleteEndsOwnPrompts`).
* A handle is never `running` (`RunningWhenRunning`). `spawner.ts:194-196` says
  that a finished handle is held in the active list for a short window, for a
  late `list()` or `get()`; `onSettled`, which setResult, setError and abort
  all call, has removed it by then, and the timer finds nothing
  (`HeldForAWindow`). `HandlesTrue` states what the code does.
* Overlapping adds, or a failed transcript append, leave a stored message out
  of the cache until a restart (`CacheIsComplete`); a session deleted during an
  add is cached again (`DeletedIsForgotten`). What does hold is that the cache
  never shows a message the database lacks, nor another order, and of a deleted
  session only messages that the deletion removed, in their order, and only if
  an add was awaiting then (`CacheInOrder`); and that an undisturbed session is
  served exactly as stored (`ServedAsStored`).
* `delete()` (`storage/sessions.ts:134-140`) is three statements without a
  transaction: a process that dies in it leaves the session with its title and
  without its messages, and later messages never replace that title.
* Compaction is reported as failed when measuring the history alone brought the
  budget below the threshold (`FailureIsFailure`).
* MCP: "3 attempts by default" (`mcp/client.ts:10`) is per nesting: a handshake
  that times out inside a reconnection starts another one (`ReconnectGivesUp`),
  and the transport it gives up with is dropped but not closed
  (`client.ts:324`; `abandoned` in `McpManager`). A list_changed that arrives
  during a fetch is overwritten by the older list. The time limit of a request
  does not end a write that does not end: `stdio.ts:250-261` hears of the
  rejected promise only after `writeLine` has returned. (Node may take a
  promise rejected meanwhile for an unhandled rejection and end the process,
  which is not modelled.)
* Terminal: a prompt is stored and never shown (`PromptSurfaces`), and would be
  answered under an id of another form than the server's (`useStream.ts:400`);
  "we never have two open at once" (`useStream.ts:150`) is not so
  (`NeverTwoOpen`), and the end of a replaced stream resets what its successor
  uses (220-229); keys that `useInput.ts:142-144` calls always available are
  off while a stream is on; a post answered with an error is retried although
  `sse.ts:59` calls such errors final, so a message may be stored more than
  once.
* Hooks: the dispatcher waits for the child's exit before it arms the time
  limit (`dispatcher.ts:392`), so the limit is never enforced, and a hook whose
  child is signalled before it answers has no reply; after the exit it awaits
  the end of both pipes (426), for ever if a process the hook left behind holds
  them, although `dispatcher.ts:13` says "until EOF or the timeout fires"
  (`TimeLimitHolds`); a change that is reported during a reload is lost
  (`StaleOnlyByRace` says when).
* Checkpoints: what is written to a file between its copy and the write
  (`write-file.ts:74-79`), or after it was found missing, is replaced without a
  copy; two writes of one millisecond share a name; a path whose name ends as
  another's does is taken for it; sub-agents write theirs under a session of
  their own; a torn copy is the newest. `RewindReverts` says what is left of
  "the most recent write".
* Memory: `store.ts:61-63` calls every helper safe to call concurrently, but of
  two overlapping appends one is lost; a failed read is taken for an empty
  file, which the append then replaces; a file longer than the read cap loses
  its tail. `AppendKeeps` says what is left.
* Sandbox: an invalid policy makes `execute` and its fallback call each other
  until the stack overflows (`sandbox/index.ts:295`); a working directory is
  ignored off Windows; a signal that fired before the listener was installed is
  heard only by the manager's clock; a probe that timed out replaces a better
  one; a shell that cannot be spawned takes the server down.
* Providers: `custom` never lists models; lmstudio and custom without
  AFICAX_LOCAL_URL go to Ollama's port (`server.ts:288-297`), mistral without a
  base URL to OpenAI's; the fallback in `server.ts:885` is never taken; the
  catch for models without tools (`local.ts:182-197`) is not reached, because
  the SDK throws later; a failed probe may drop a newer adapter.
* Modes: a PATCH whose body arrives after DELETE leaves a mode in the registry
  for good (`server.ts:445`); `/mode` of the terminal changes only the
  terminal.

## Proofs

TLAPS proves these for every value of the constants, from the assumptions the
modules name, which TLC evaluates in the runs:

| module | assumptions |
|---|---|
| `PendingApprovals` | `WaitAssumption`, `OutcomeAssumption`: each wait has an id and at most one signal; the values that stand for "none" are apart from the others |
| `PermissionEngine` | `CallAssumption`, `NoneAssumption`, `VerdictAssumption`: the same, and each call has a run, a tool and an id |
| `SubAgents` | `WorkerAssumption`, `ReasonAssumption`: finitely many workers, a natural limit |
| `Sessions` | `MessageAssumption`, `CacheAssumption`: each message is of one session |
| `QueryEngine` | `LoopAssumption`: natural limits, a positive threshold, a positive number of failures |
| `McpClient`, `McpManager` | `McpAssumption`, `OperationsAssumption`: finitely many callers, at least one reconnection attempt |
| `Sandbox` | `SandboxAssumption`: a host has only tools its platform can have |
| `FileHistory` | `FileHistoryAssumption`: some file; the name of a file answers to a request for it |
| `Memory` | `MemoryAssumption`: natural bounds |
| `Console` | `ConsoleAssumption`: at least one message, post, health check and event on the way |
| `Hooks` | `HooksAssumption`: finitely many callers; a file holds a list of hooks, or none |
| `Providers` | `ProvidersAssumption`: the types, keyed ones and parts are those the code knows; natural bounds |

One theorem has a hypothesis of its own: `HandlesAreTrue` assumes `UniqueIds`,
because `makeHandleId` gives each handle an id with a time and a random part.

*Pending approvals.* `TypeOK`, `NoOrphanWait`, `NoStaleEntry`, `NoLeak` and
`OneWaitPerId`. The inductive invariant says of each wait what each phase
means: an idle or refused wait has nothing; an open wait is unsettled, armed,
listening if it has a signal that has not aborted, and is the entry of its id;
a settled wait is resolved and disarmed; and every entry of the map is open.
`NoLeak` and `NoStaleEntry` need each other: an entry that outlived its wait
would let cancelAll settle it again, and a timer that outlived it would remove
the entry of its successor. Uniqueness per id is then a corollary: two open
waits are both *the* entry of the id. `EndedByItsOwn` follows step by step:
what each kind of step resolves is the entry of an id, a wait whose timer is
armed, the listeners of a signal, or every entry, and by the invariant an armed
timer, a listener and an entry belong to a wait that is open. `cause` names the
event, so that the answer is tied to the id it was posted under and the timer
to the wait it was set for. The refinement of `ApprovalPromise` is proved step
by step too: a register() that throws is `Refuse`, one that finds the signal
aborted is `AskAnswered`, any other is `Ask`; an answer, a timer, an abort and
cancelAll are `Deliver` to the waits they resolve, and a step that resolves
none stutters.

*Permission gate.* `GateHonest` (`Licensed`, `AnswerHonoured`,
`OnlyUsersWriteLists`), `AlwaysNeverAsksAgain` and `DenyAlwaysHolds`. The
invariant says what each stage of `checkPermission` knows (`StageTrue`: a stage
before the prompt has no wait, one that saves has an answer for good), where a
verdict comes from (`VerdictTrue`), that the run's own store has what was
answered for good *before* the write (`StoreTrue`), that every entry anywhere
is some user's decision (`ListsTrue`), and that a run makes one call at a time
(`OneAtATime`). `VerdictTrue` shows that an allowlist match is never a verdict:
an entry that names the tool has denied the call before that question is asked.
`DenyAlwaysHolds` needs no file: it is the store of the run that remembers.

*Sub-agents.* `TypeOK`, `PermitsBounded`, `NoIdlePermit`, `NoTaskLost` and
`OneCallPerLoop`, for any number of workers and permits. The argument for the
permits is that `inFlight` is the cardinality of the set of running tasks,
which changes by one element in each step, and that a permit which is passed on
removes one element and adds another; that needs the queue to hold exactly the
spawned tasks that have not started, each once. For the calls it needs that a
loop is `calling` exactly while it has a waiting call. `HandlesTrue` adds that
a result is set exactly as the task ends, that a worker that is aborted has an
aborted signal, that one that has ended has answered (`HandleTrue`), and that
the active list holds only spawned handles, under their own ids (`Listed`).
Without unique ids `ListedWhileLive` is not provable: a second handle of the
same id would take the first one's place.

*Sessions.* `TypeOK`, `NoOrphanRows`, `CacheInOrder`, `HistoryIsPast` and
`ServedAsStored`, for any sessions, messages, overlap, failures and restarts.
`CacheInOrder` alone is not inductive: the cache is overwritten by an add that
read the session before it awaited. The invariant therefore says three things
relative to the rows: what the cache holds is in their order; what an awaiting
add *will* put into the cache (the session it read, with its message appended)
is too; and what a message was given precedes its row. Rows are only ever
appended, or deleted all at once, so the order of two rows, once established,
stays. For a session deleted under an add the same two things are said of the
rows that the deletion removed. `Fresh` adds that an id that was never handed
out has left nothing behind, so that a created session starts empty. For
`ServedAsStored` every undisturbed session is in one of two states: settled
(the cache, if any, is the row and the title is the first message, or was left
by a deletion that the process died in), or with exactly one add in progress,
whose row alone is ahead of the cache.

*Query loop.* `TypeOK`, `BreakerTrips`, `CallsArePaired` and `RequestKept`, for
any number of turns, tools and failures and any budget. The invariant extends
the pairing to the three sequences a later history is made of (`messages`,
`working`, `done`); concatenation keeps it because no sequence ends in a call
without its result. The request is found by compaction because it is the last
user message (`HasRequest`), which what the loop appends, calls, results and
text, cannot change; replacement and truncation keep it. The breaker is exact
because the automatic level is only tried while it is closed. `RunWellFormed`
rests on two more facts: outside a streamed message the events so far are
closed, and inside one they are closed but for its start (`EventInv`); and
while tools run, the first n calls of the turn have their results in order,
where n is half the length of what the turn has produced (`ReplyInv`).

*MCP.* `WaitsAreHeard` and `AnswerIsOwn` of the client, `ManagerHonest` and
`NoStrayTransport` of the client and its manager together. The invariant keeps
the shape of the stacks (`CalledFrom`: which function can be called from which
await), without which nothing is known of what a return returns to. A pending
request is, in all its parts, the one its caller waits for or is writing
(`HeardInv`), so that an answer that is late or repeated finds nothing, and one
that finds it is to that very request; that the id of a new request is not
pending uses that there are fewer pending requests than ids. For
`NoStrayTransport` one operation is alone: then the top of its stack says what
the client's transport is (`TopTrue`).

*Sandbox.* `RunsAsTold`. Once the manager has probed, what it believes in is
what the host has, unless some probe was blind (`FoundTrue`); overlapping
probes overwrite each other, so this is said of the manager and not of one
command. A command before its launch has no shell and hears nothing
(`Unlaunched`); a running shell was wrapped by what was then found (`WrapTrue`)
and was spared neither by a signal it heard nor by the clock (`SignalTrue`).

*Checkpoints.* `Recoverable` and `RewindReverts`. Neither is inductive. What
was replaced, and is not among `lost`, is `Saved` in the checkpoint of the
write that replaced it: the checkpoint holds it and nobody is writing to it.
Only a copy writes to a checkpoint, and a copy that begins on one adds to
`lost` what was replaced with it, so this stays; that two copies in progress to
one checkpoint are neither of them intact (`KeysInv`) is what the copy's end
needs. A call knows that its checkpoint holds what the file holds from the end
of its copy on, as long as nobody writes to either (`Kept`): so what `Replaces`
notes as not lost is there. For the rewind, an undisturbed call on a file whose
name is no other's also knows that its checkpoint is the newest of the name
(`Alone`), and `undo` is in the newest one (`UndoInv`): the checkpoint that a
rewind finds and the one that holds `undo` have the same time and the same
name, so they are the same.

*Memory.* `MemoryHonest` and `AppendKeeps`. While every temporary file has had
one writer and no rename has failed (`Atomic`), no two writers fill files of
the same time, what is about to be renamed is there and whole, and so the file
always is. A commit that has read the file since its last change is about to
write all of it and what it learned (`Keeps`); any step that changes the file
ends that. For the prompts the invariant relates the cache to the file: unless
a time is one of two versions, what is cached under the file's time was read of
it (`CacheTrue`), and a build between its stat and its read counts what the
file holds among what it has held (`BuildTrue`).

*Providers.* `RegistryHonest` and `StreamHonest`. That an adapter which failed
its verification is never served needs that adapters are numbered: each was
made before, and is of one configuration only (`Numbered`), so that dropping
one, or failing it, says nothing of another's. A scan has of a backend what
some port of it answered, and a route lists models of a port that a scan
reported (`ScanTrue`). A call has got the chunks of what was read so far and,
only when it is over, the usage or the error after them (`StreamTrue`). A read
adds one part, so the proof needs that the chunks of a sequence and one more
part are the chunks of the sequence and those of the part; `ChunksOf` flattens
with the recursive function of the library, of which that is proved first.

*Console.* `StreamsInStep`, `TokensStayHome` and `AbortedIsSilent`. That the
bus has the connection of a run that goes on and is listened to is a fact of
each run alone (`RunTrue`), with `Attempts`, by which a post that was not made
yet has no run. The text of a message is of its own stream or of one that was
open at the same time; for that, all streams that are heard must have been
noted to be open together (`HeardTogether`), and the message that tokens go to
must be of a stream that was open together with every stream still heard
(`RefTrue`): a stream that opens is noted with all that are heard, and one that
reads a token is heard.

*Hooks.* `DispatchHonest`, `StaleOnlyByRace` and `BlockedStays`. A failed hook
is counted the moment it fails and no later step of the dispatch forgets it
(`Counts`, `RunTrue`). While no change is waiting to be reported and none was
reported in a reload, every reload has read what the files hold
(`ReadersTrue`), so that the last one to end leaves a true list (`RestTrue`).
What that list is, for any two lists of hooks: each command once, with the hook
listed last, so that the project's replaces the global one (`MergeIsLast`); and
a dispatch runs the enabled ones, all of them, once and in their order
(`EnabledIsExact`).

Induction over a sequence is done as a least counterexample: the natural
numbers are well founded (`WFMin`), so a claim that fails somewhere fails first
somewhere (`LeastOf`), and the step before that gives the contradiction.
Recursive functions are shown to exist and to be unique in the same way.

The conjunctions that the runs check follow from their parts: `RegistryIsTidy`,
`GateIsHonest`, `PermitsStayInOrder`, `HandlesAreTrue`, `CacheIsTrue`,
`PromptsAreWellFormed`, `RunsAreWellFormed`, `ManagerIsHonest`,
`StreamsAreInStep`, `DispatchIsHonest`, `RegistryIsHonest`.

Every invariant and every action property that a run checks is thus a theorem,
and so is the refinement of `ApprovalPromise`. Only model-checked: liveness
(`EveryWaitEnds`, `EveryCheckReturns`, `EveryTaskEnds`, `EveryCallReturns`,
`EveryRunEnds`, `InputComesBack`, `EveryDispatchEnds`, `EveryCommandReturns`,
`EveryStreamEnds`), because fairness speaks of ENABLED, which is out of TLAPS's
reach.

## Not modelled

The danger classifier and patterns (regular expressions over text: the gate's
model has their verdicts), most of the prompt builder, skills, custom agents
and configuration (text assembled or parsed once), searching and parsing of the
index, command line and rendering. The file cache and the memory's watcher are
not used by the server, the coordinator is not constructed, and the memory's
loader (`GET /memory`, `server.ts:540-541`) and the repository map read the
files afresh for each call, so there is no state of theirs to check. Of the
modelled components: the MCP manager's stop() and listing route, the streaming
GET route, the mode registry's own map with PATCH, session status, tags, token
totals and listing, the terminal's other slash commands, screens and
unmounting, `PromptBuilder.invalidate`, the sandbox's `setPolicy` (nothing
calls it). Within the modelled parts: wording and layout of events and results,
the contents of requests. Two database rows of one millisecond are given an
order of their own, which SQLite provides but the query does not ask for; the
clock of `FileHistory` and `Memory` does not go back. Every timer is free to
fire at any time after it is armed, so no property depends on how long anything
takes.
