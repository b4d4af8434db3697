------------------------------- MODULE Hooks -------------------------------
(***************************************************************************)
(* The hook registry (packages/server/src/hooks/registry.ts) and the hook  *)
(* dispatcher (packages/server/src/hooks/dispatcher.ts), the registry      *)
(* being the dispatcher's provider.  Several agents dispatch the same      *)
(* event at once through one dispatcher; each dispatch asks the registry   *)
(* for its hooks, which re-reads the two hooks.json files when the file    *)
(* watcher has reported a change, and then runs the hooks one at a time as *)
(* child processes.  One event is modelled: the hooks of the others are    *)
(* filtered out of every list.                                             *)
(***************************************************************************)
EXTENDS Naturals, Sequences, FiniteSets

CONSTANTS Callers,        \* the agents that dispatch the event
          Commands,       \* the command lines a hook may name
          Blank,          \* those that tokenise to an empty argv
          GlobalFiles,    \* what ~/.aficax/hooks.json may hold: lists of hooks
          ProjectFiles,   \* what the project's hooks.json may hold
          Changes,        \* what a hook may do to the context it answers with
          MaxEdits,       \* bound: changes of the two files
          MaxDispatches   \* bound: dispatches of the event

Sources == {"global", "project"}
Policies == {"abort", "continue"}
Hook == [command : Commands, onFailure : Policies, enabled : BOOLEAN]

\* A missing, unreadable or malformed file holds no hook.
NoHooks == << >>
Unread == << [command |-> "unread"] >>

ASSUME HooksAssumption ==
  /\ IsFiniteSet(Callers) /\ Blank \subseteq Commands
  /\ \A f \in GlobalFiles \cup ProjectFiles : f \in Seq(Hook)
  /\ NoHooks \in GlobalFiles \cap ProjectFiles
  /\ Changes \subseteq {"none", "object", "other"}
  /\ MaxEdits \in Nat /\ MaxDispatches \in Nat

\* How a hook's process ends: with an answer on its output (an empty output
\* answers nothing), with a code other than 0, or with output that holds no
\* JSON object.
Answer == [kind : {"reply"}, block : BOOLEAN, change : Changes]
Failure(kind) == [kind |-> kind, block |-> FALSE]
Ending == Answer \cup {Failure("exit_nonzero"), Failure("invalid_json")}

VARIABLES
  disk,       \* source -> the hooks its file holds
  notice,     \* the watcher has a change it has not reported yet
  dirty,      \* HookRegistry.dirty
  cache,      \* HookRegistry.global and .project
  merged,     \* HookRegistry.merged
  run,        \* caller -> its dispatch
  raced,      \* history: a change was reported, or a read failed, in a reload
  edits,      \* changes so far
  dispatches  \* dispatches so far

registry == << disk, notice, dirty, cache, merged, raced, edits >>
hooksVars == << registry, run, dispatches >>

Run == [at : {"idle", "global", "project", "hook", "write", "exit", "pipes"},
        seen : GlobalFiles \cup ProjectFiles \cup {Unread},
        todo : Seq(Hook),
        context : Seq(Commands),        \* the hooks whose changes it carries
        blocked : BOOLEAN,
        child : {"none", "running", "stubborn", "ended"},
        kin : BOOLEAN,                  \* a descendant of the child has its pipes open
        errors : SUBSET Commands,       \* the hooks that errors names
        failed : SUBSET Hook]           \* history: the hooks that failed

Resting == [at |-> "idle", seen |-> Unread, todo |-> << >>, context |-> << >>,
            blocked |-> FALSE, child |-> "none", kin |-> FALSE, errors |-> {}, failed |-> {}]

HooksTypeOK ==
  /\ disk \in [global : GlobalFiles, project : ProjectFiles]
  /\ cache \in [global : GlobalFiles, project : ProjectFiles]
  /\ notice \in BOOLEAN /\ dirty \in BOOLEAN /\ raced \in BOOLEAN
  /\ merged \in Seq(Hook)
  /\ run \in [Callers -> Run]
  /\ edits \in 0..MaxEdits /\ dispatches \in 0..MaxDispatches

HooksInit ==
  /\ disk \in [global : GlobalFiles, project : ProjectFiles]
  /\ cache = [global |-> NoHooks, project |-> NoHooks]
  /\ merged = << >> /\ dirty = TRUE /\ notice = FALSE
  /\ run = [c \in Callers |-> Resting]
  /\ raced = FALSE /\ edits = 0 /\ dispatches = 0

\* Map.set, by command: the place of the first entry, the value of the last.
Put(map, hook) ==
  IF \E k \in DOMAIN map : map[k].command = hook.command
  THEN [k \in DOMAIN map |-> IF map[k].command = hook.command THEN hook ELSE map[k]]
  ELSE Append(map, hook)

\* The global hooks and then the project's are put into one map.
Merge(global, project) ==
  LET all == global \o project
      map[i \in 0..Len(all)] == IF i = 0 THEN << >> ELSE Put(map[i - 1], all[i])
  IN  map[Len(all)]

\* The hooks of the list that are enabled, in its order.
Enabled(hooks) ==
  LET passed[i \in 0..Len(hooks)] ==
        IF i = 0 THEN << >>
        ELSE IF hooks[i].enabled THEN Append(passed[i - 1], hooks[i]) ELSE passed[i - 1]
  IN  passed[Len(hooks)]

Alive(child) == child \in {"running", "stubborn"}
Reloading(c) == run[c].at \in Sources
SomeReload == \E c \in Callers : Reloading(c)

(***************************************************************************)
(* The files and their watcher.                                            *)
(***************************************************************************)
Edit(s) ==
  /\ edits < MaxEdits
  /\ \E f \in (IF s = "global" THEN GlobalFiles ELSE ProjectFiles) \ {disk[s]} :
       disk' = [disk EXCEPT ![s] = f]
  /\ notice' = TRUE /\ edits' = edits + 1
  /\ UNCHANGED << dirty, cache, merged, raced, run, dispatches >>

\* A bug Noticed could have: only a change of the global file is looked for.
NoticedGlobally ==
  /\ notice
  /\ notice' = FALSE /\ dirty' = (dirty \/ (~SomeReload /\ disk.global # cache.global))
  /\ raced' = (raced \/ SomeReload)
  /\ UNCHANGED << disk, cache, merged, edits, run, dispatches >>

Noticed ==
  /\ notice
  /\ notice' = FALSE /\ dirty' = TRUE
  /\ raced' = (raced \/ SomeReload)
  /\ UNCHANGED << disk, cache, merged, edits, run, dispatches >>

(***************************************************************************)
(* getHooks and reload: two files read one after the other.                *)
(***************************************************************************)
Dispatch(c) ==
  /\ run[c].at = "idle" /\ dispatches < MaxDispatches
  /\ dispatches' = dispatches + 1
  /\ run' = [run EXCEPT ![c] = IF dirty THEN [Resting EXCEPT !.at = "global"]
                               ELSE [Resting EXCEPT !.at = "hook", !.todo = Enabled(merged)]]
  /\ raced' = (raced /\ (SomeReload \/ ~dirty))
  /\ UNCHANGED << disk, notice, dirty, cache, merged, edits >>

ReadSource(c) ==
  /\ Reloading(c) /\ run[c].seen = Unread
  /\ \E f \in {disk[run[c].at], NoHooks} :
       /\ run' = [run EXCEPT ![c].seen = f]
       /\ raced' = (raced \/ f # disk[run[c].at])
  /\ UNCHANGED << disk, notice, dirty, cache, merged, edits, dispatches >>

GlobalRead(c) ==
  /\ run[c].at = "global" /\ run[c].seen # Unread
  /\ cache' = [cache EXCEPT !.global = run[c].seen]
  /\ run' = [run EXCEPT ![c].at = "project", ![c].seen = Unread]
  /\ UNCHANGED << disk, notice, dirty, merged, raced, edits, dispatches >>

Reloaded(c) ==
  /\ run[c].at = "project" /\ run[c].seen # Unread
  /\ cache' = [cache EXCEPT !.project = run[c].seen]
  /\ merged' = Merge(cache.global, run[c].seen)
  /\ dirty' = FALSE
  /\ run' = [run EXCEPT ![c].at = "hook", ![c].seen = Unread, ![c].todo = Enabled(merged')]
  /\ UNCHANGED << disk, notice, raced, edits, dispatches >>

(***************************************************************************)
(* runOne.  Over(r, h, failed) is the dispatch r after its hook h, which   *)
(* failed or not; under the abort policy a failure answers for the hook    *)
(* and blocks.  Once the operation is blocked a hook is only observed.     *)
(***************************************************************************)

\* A bug Over could have: a hook that failed is tried again.
OverUnlessFailed(r, h, failed) ==
  [r EXCEPT !.at = "hook", !.todo = IF failed THEN @ ELSE Tail(@), !.child = "none",
            !.kin = FALSE, !.failed = IF failed /\ ~r.blocked THEN @ \cup {h} ELSE @]

Over(r, h, failed) ==
  [r EXCEPT !.at = "hook", !.todo = Tail(@), !.child = "none", !.kin = FALSE,
            !.failed = IF failed /\ ~r.blocked THEN @ \cup {h} ELSE @]

Fails(r, h) ==
  LET over == Over(r, h, TRUE)
  IN  IF h.onFailure = "abort" THEN [over EXCEPT !.blocked = TRUE]
      ELSE [over EXCEPT !.errors = @ \cup {h.command}]

\* A bug FailsToStart could have: the failure is listed, and nothing more.
FailsToStartOpenly(r, h) ==
  [Over(r, h, TRUE) EXCEPT !.errors = @ \cup {h.command}]

\* A failure to start is listed whatever the policy; a blank command does not
\* block, whatever the policy.
FailsToStart(r, h) ==
  LET over == [Over(r, h, TRUE) EXCEPT !.errors = @ \cup {h.command}]
  IN  IF h.onFailure = "abort" /\ h.command \notin Blank
      THEN [over EXCEPT !.blocked = TRUE] ELSE over

\* The dispatch takes a reply into account.
Applies(r, h, reply) ==
  LET over == Over(r, h, FALSE)
      told == [over EXCEPT !.blocked = reply.block]
  IN  IF reply.change = "object" THEN [told EXCEPT !.context = Append(@, h.command)]
      ELSE IF reply.change = "other" THEN [told EXCEPT !.errors = @ \cup {h.command}]
      ELSE told

\* A hook that is not observed has ended, and its output was read.
Ended(r, h, out) == IF out.kind = "reply" THEN Applies(r, h, out) ELSE Fails(r, h)

Spawn(c) ==
  LET r == run[c] h == Head(r.todo) IN
  /\ r.at = "hook" /\ r.todo # << >>
  /\ \/ run' = [run EXCEPT ![c] = FailsToStart(r, h)]
     \/ /\ h.command \notin Blank
        /\ \E child \in {"running", "stubborn"} :
             run' = [run EXCEPT ![c].at = "write", ![c].child = child]
  /\ UNCHANGED << registry, dispatches >>

\* The process's own step: it may end before it is told anything, and one that
\* ignores SIGTERM ends when it likes. It may leave a process behind that has
\* its output and error pipes open.
ChildEnds(c) ==
  /\ Alive(run[c].child)
  /\ \E kin \in BOOLEAN : run' = [run EXCEPT ![c].child = "ended", ![c].kin = kin]
  /\ UNCHANGED << registry, dispatches >>

\* That process, which nobody signals, ends or closes the pipes when it likes.
KinEnds(c) ==
  /\ run[c].kin
  /\ run' = [run EXCEPT ![c].kin = FALSE]
  /\ UNCHANGED << registry, dispatches >>

\* writeLine, then kill(): SIGTERM, and wait for the process to be over.  A hook
\* that is only observed is killed whether it could be written to or not.
Write(c) ==
  /\ run[c].at = "write"
  /\ run' = [run EXCEPT ![c].at = "exit"]
  /\ UNCHANGED << registry, dispatches >>

\* The write fails: the hook has failed, and its process is left as it is, and
\* is no concern of the dispatch any more.
WriteFails(c) ==
  LET r == run[c] IN
  /\ r.at = "write" /\ ~r.blocked
  /\ run' = [run EXCEPT ![c] = Fails(r, Head(r.todo))]
  /\ UNCHANGED << registry, dispatches >>

\* A bug Exited could have: what an observed hook answers still counts.
ExitedRegardless(c) ==
  /\ run[c].at = "exit" /\ run[c].child = "ended"
  /\ run' = [run EXCEPT ![c].at = "pipes"]
  /\ UNCHANGED << registry, dispatches >>

\* kill() returned, so the process is over when it is raced with the timer, and
\* its exit code wins the race. What an observed hook has to say is not read.
Exited(c) ==
  LET r == run[c] IN
  /\ r.at = "exit" /\ r.child = "ended"
  /\ run' = [run EXCEPT ![c] = IF r.blocked THEN Over(r, Head(r.todo), FALSE)
                              ELSE [r EXCEPT !.at = "pipes"]]
  /\ UNCHANGED << registry, dispatches >>

\* Both pipes are at their end. The timer is still set, and would end nothing.
PipesRead(c) ==
  LET r == run[c] IN
  /\ r.at = "pipes" /\ ~r.kin
  /\ \E out \in Ending : run' = [run EXCEPT ![c] = Ended(r, Head(r.todo), out)]
  /\ UNCHANGED << registry, dispatches >>

\* dispatch() returns its result.
Settled(c) ==
  /\ run[c].at = "hook" /\ run[c].todo = << >>
  /\ run' = [run EXCEPT ![c] = Resting]
  /\ UNCHANGED << registry, dispatches >>

HooksNext ==
  \/ \E s \in Sources : Edit(s)
  \/ Noticed
  \/ \E c \in Callers :
       \/ Dispatch(c) \/ ReadSource(c) \/ GlobalRead(c) \/ Reloaded(c)
       \/ Spawn(c) \/ ChildEnds(c) \/ KinEnds(c) \/ Write(c) \/ WriteFails(c)
       \/ Exited(c) \/ PipesRead(c) \/ Settled(c)

\* The file system and the event loop go on, and a process that was sent
\* SIGTERM and does not ignore it ends.
Fairness ==
  \A c \in Callers :
    /\ WF_hooksVars(ReadSource(c)) /\ WF_hooksVars(GlobalRead(c) \/ Reloaded(c))
    /\ WF_hooksVars(Spawn(c)) /\ WF_hooksVars(Write(c) \/ WriteFails(c))
    /\ WF_hooksVars(ChildEnds(c) /\ run[c].at = "exit" /\ run[c].child = "running")
    /\ WF_hooksVars(Exited(c)) /\ WF_hooksVars(PipesRead(c)) /\ WF_hooksVars(Settled(c))

HooksSpec == HooksInit /\ [][HooksNext]_hooksVars /\ Fairness
-----------------------------------------------------------------------------
\* A hook that fails is never passed over in silence (dispatcher.ts runOne):
\* under the abort policy the operation is blocked, unless the command was
\* blank, and under the continue policy the result's errors name the hook.
FailuresCount ==
  \A c \in Callers : \A h \in run[c].failed :
    IF h.onFailure = "abort" /\ h.command \notin Blank
    THEN run[c].blocked ELSE h.command \in run[c].errors

\* What a dispatch promises its caller, blocked or not.
DispatchHonest == HooksTypeOK /\ FailuresCount

\* A registry at rest serves what the files hold: its hooks are stale, or its
\* merged list differs from the merge of its files, only if a change was
\* reported, or a read failed, while some reload was under way (reload() clears
\* the flag after its two reads, whatever was reported between them).
StaleOnlyByRace ==
  ~dirty /\ ~notice /\ ~SomeReload =>
    /\ merged = Merge(cache.global, cache.project)
    /\ cache = disk \/ raced

\* Once a hook has blocked the operation, the hooks that still run change
\* neither the context the caller gets back nor the decision.
BlockedStays ==
  [][\A c \in Callers :
       run[c].blocked /\ run'[c].at # "idle" =>
         run'[c].blocked /\ run'[c].context = run[c].context]_hooksVars

\* Every dispatch returns, or waits for a process that ignores SIGTERM, or for
\* one that a hook left behind with its pipes open: the timeout of a hook ends
\* neither wait.
EveryDispatchEnds ==
  \A c \in Callers :
    run[c].at # "idle" ~>
      \/ run[c].at = "idle"
      \/ run[c].at = "exit" /\ run[c].child = "stubborn"
      \/ run[c].at = "pipes" /\ run[c].kin

\* "The dispatcher reads stdout until EOF or the timeout fires"
\* (dispatcher.ts:13): it does not wait for ever.
TimeLimitHolds == \A c \in Callers : run[c].at = "pipes" ~> run[c].at # "pipes"
=============================================================================
