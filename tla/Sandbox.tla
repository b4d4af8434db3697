------------------------------ MODULE Sandbox ------------------------------
(***************************************************************************)
(* The sandbox manager (packages/server/src/sandbox) and the bash tool     *)
(* (packages/server/src/tools/bash.ts) that runs its commands through it.  *)
(* Several agents run commands at once through the one manager, which is   *)
(* still probing the host for its tools when the first of them arrive.     *)
(* A command has two clocks, the tool's and, started after it with the     *)
(* same length, the manager's; either, or the user's abort, kills it.      *)
(***************************************************************************)
EXTENDS Naturals, FiniteSets

CONSTANTS Callers,     \* the agents that run commands
          Hosts,       \* the hosts the server may run on
          Policies,    \* the policies the manager may have been built with
          MaxCommands  \* bound: commands run

Platforms == {"linux", "darwin", "win32", "other"}
Tools == {"bwrap", "firejail", "sandbox_exec"}
AllPolicies == {"strict", "off", "invalid"}

\* What a probe of this platform looks for: a tool of the host, but on Windows
\* only the platform's own name.
Probes(p) ==
  IF p = "linux" THEN {"bwrap", "firejail"}
  ELSE IF p = "darwin" THEN {"sandbox_exec"} ELSE {}

ASSUME SandboxAssumption ==
  /\ IsFiniteSet(Callers) /\ Policies \subseteq AllPolicies /\ MaxCommands \in Nat
  /\ \A h \in Hosts : h.platform \in Platforms /\ h.installed \subseteq Probes(h.platform)

VARIABLES
  platform,     \* process.platform
  installed,    \* the tools of the host that work
  policy,       \* SandboxManager.policy
  boot,         \* the server's own init() has not returned yet
  initialised,  \* SandboxManager.initialised
  found,        \* SandboxManager.linuxCap or .macCap: the tools it believes in
  blind,        \* history: a probe missed a tool of the host
  call,         \* caller -> its command
  up,           \* the server runs
  commands      \* commands so far

host == << platform, installed, policy >>
manager == << boot, initialised, found, blind >>
vars == << host, manager, call, up, commands >>

Call == [at : {"idle", "asking", "probing", "running"},
         tooLate : BOOLEAN,   \* the tool's clock has fired
         aborted : BOOLEAN,   \* the agent's signal is aborted
         heard : BOOLEAN,     \* the abort listener was there to be told
         overdue : BOOLEAN,   \* the manager's clock has fired
         shell : {"none", "running", "over"},
         kin : BOOLEAN,       \* the shell's descendants hold its output pipes
         killing : BOOLEAN,   \* a taskkill is on its way
         wrap : Tools \cup {"job", "none"}]

Resting == [at |-> "idle", tooLate |-> FALSE, aborted |-> FALSE, heard |-> FALSE,
            overdue |-> FALSE, shell |-> "none", kin |-> FALSE, killing |-> FALSE,
            wrap |-> "none"]

TypeOK ==
  /\ platform \in Platforms /\ installed \subseteq Tools /\ policy \in Policies
  /\ boot \in BOOLEAN /\ initialised \in BOOLEAN /\ blind \in BOOLEAN /\ up \in BOOLEAN
  /\ found \subseteq installed
  /\ call \in [Callers -> Call]
  /\ commands \in 0..MaxCommands

Init ==
  /\ \E h \in Hosts : platform = h.platform /\ installed = h.installed
  /\ policy \in Policies
  /\ boot = TRUE /\ initialised = FALSE /\ found = {} /\ blind = FALSE
  /\ call = [c \in Callers |-> Resting]
  /\ up = TRUE /\ commands = 0

\* The wrapper of a command, given the tools the manager believes in.
WrapLinux(tools) ==
  IF policy = "off" \/ tools = {} THEN "none"
  ELSE CHOOSE t \in tools : t = "bwrap" \/ "bwrap" \notin tools

WrapMac(tools) == IF policy = "off" \/ tools = {} THEN "none" ELSE "sandbox_exec"

WrapWindows == IF policy = "off" THEN "none" ELSE "job"

\* buildBackend.
Wrap(tools) ==
  IF platform = "linux" THEN WrapLinux(tools)
  ELSE IF platform = "darwin" THEN WrapMac(tools)
  ELSE IF platform = "win32" THEN WrapWindows ELSE "none"

(***************************************************************************)
(* init.  Nothing stops two of them from probing at once; each overwrites  *)
(* what the other has found, and a probe that fails to start, or answers   *)
(* too late, finds nothing.                                                *)
(***************************************************************************)
Learn(tools) ==
  /\ tools \subseteq installed
  /\ found' = tools /\ initialised' = TRUE
  /\ blind' = (blind \/ tools # installed)

Booted ==
  /\ up /\ boot
  /\ boot' = FALSE
  /\ \E tools \in SUBSET installed : Learn(tools)
  /\ UNCHANGED << host, call, up, commands >>

\* GET /sandbox/status: a caller that only makes the manager look.
Status(c) ==
  /\ up /\ call[c].at = "idle" /\ ~initialised
  /\ call' = [call EXCEPT ![c].at = "asking"]
  /\ UNCHANGED << host, manager, up, commands >>

StatusProbed(c) ==
  /\ up /\ call[c].at = "asking"
  /\ \E tools \in SUBSET installed : Learn(tools)
  /\ call' = [call EXCEPT ![c] = Resting]
  /\ UNCHANGED << host, boot, up, commands >>

(***************************************************************************)
(* execute: r is the call that gets to the point where it may spawn.       *)
(***************************************************************************)
Returned(c) == call' = [call EXCEPT ![c] = Resting]

\* An invalid policy sends execute and unsandboxedResult into each other until
\* the stack is full; otherwise the child is spawned, or spawn throws, or the
\* child emits an error nobody listens to, which takes the server down.
Launch(c, r, tools) ==
  \/ Returned(c) /\ UNCHANGED up
  \/ /\ policy # "invalid"
     /\ call' = [call EXCEPT ![c] = [r EXCEPT !.at = "running", !.shell = "running",
                   !.wrap = Wrap(tools), !.heard = ~r.tooLate /\ ~r.aborted]]
     /\ UNCHANGED up
  \/ policy # "invalid" /\ up' = FALSE /\ UNCHANGED call

\* A bug Execute could have: initialised is set when the probes begin.
ExecuteAtOnce(c) ==
  /\ up /\ call[c].at = "idle" /\ commands < MaxCommands
  /\ commands' = commands + 1 /\ initialised' = TRUE
  /\ \E aborted \in BOOLEAN :
       LET r == [Resting EXCEPT !.aborted = aborted]
       IN  IF initialised THEN Launch(c, r, found)
           ELSE call' = [call EXCEPT ![c] = [r EXCEPT !.at = "probing"]] /\ UNCHANGED up
  /\ UNCHANGED << host, boot, found, blind >>

\* The tool starts its clock and asks the manager, whether or not the agent's
\* signal is aborted already.
Execute(c) ==
  /\ up /\ call[c].at = "idle" /\ commands < MaxCommands
  /\ commands' = commands + 1
  /\ \E aborted \in BOOLEAN :
       LET r == [Resting EXCEPT !.aborted = aborted]
       IN  IF initialised THEN Launch(c, r, found)
           ELSE call' = [call EXCEPT ![c] = [r EXCEPT !.at = "probing"]] /\ UNCHANGED up
  /\ UNCHANGED << host, manager >>

Probed(c) ==
  /\ up /\ call[c].at = "probing"
  /\ \E tools \in SUBSET installed : Learn(tools) /\ Launch(c, call[c], tools)
  /\ UNCHANGED << host, boot, commands >>

(***************************************************************************)
(* Killing.  SIGKILL reaches the shell (or the wrapper) and no descendant; *)
(* taskkill reaches the whole tree, when it gets to run.                   *)
(***************************************************************************)
Kill(r) ==
  IF r.shell # "running" THEN r
  ELSE IF platform = "win32" THEN [r EXCEPT !.killing = TRUE]
  ELSE [r EXCEPT !.shell = "over"]

\* The composed signal fires once, for the first of its two reasons.
Signalled(r) == IF r.heard /\ ~r.tooLate /\ ~r.aborted THEN Kill(r) ELSE r

ToolTimer(c) ==
  /\ up /\ call[c].at \in {"probing", "running"} /\ ~call[c].tooLate
  /\ call' = [call EXCEPT ![c] = [Signalled(call[c]) EXCEPT !.tooLate = TRUE]]
  /\ UNCHANGED << host, manager, up, commands >>

Abort(c) ==
  /\ up /\ call[c].at \in {"probing", "running"} /\ ~call[c].aborted
  /\ call' = [call EXCEPT ![c] = [Signalled(call[c]) EXCEPT !.aborted = TRUE]]
  /\ UNCHANGED << host, manager, up, commands >>

\* A bug SandboxTimer could have: the manager's clock is stopped when the
\* signal it was given is aborted already.
SandboxTimerUnlessAborted(c) ==
  /\ up /\ call[c].at = "running" /\ call[c].tooLate /\ ~call[c].overdue /\ ~call[c].aborted
  /\ call' = [call EXCEPT ![c] = [Kill(call[c]) EXCEPT !.overdue = TRUE]]
  /\ UNCHANGED << host, manager, up, commands >>

\* The manager's clock was started after the tool's and fires after it.
SandboxTimer(c) ==
  /\ up /\ call[c].at = "running" /\ call[c].tooLate /\ ~call[c].overdue
  /\ call' = [call EXCEPT ![c] = [Kill(call[c]) EXCEPT !.overdue = TRUE]]
  /\ UNCHANGED << host, manager, up, commands >>

(***************************************************************************)
(* The processes of the host.                                              *)
(***************************************************************************)
TreeKilled(c) ==
  /\ call[c].killing
  /\ call' = [call EXCEPT ![c].killing = FALSE, ![c].kin = FALSE,
                          ![c].shell = "over"]
  /\ UNCHANGED << host, manager, up, commands >>

TreeSpared(c) ==
  /\ call[c].killing
  /\ call' = [call EXCEPT ![c].killing = FALSE]
  /\ UNCHANGED << host, manager, up, commands >>

Forks(c) ==
  /\ call[c].shell = "running" /\ ~call[c].kin
  /\ call' = [call EXCEPT ![c].kin = TRUE]
  /\ UNCHANGED << host, manager, up, commands >>

KinEnd(c) ==
  /\ call[c].kin
  /\ call' = [call EXCEPT ![c].kin = FALSE]
  /\ UNCHANGED << host, manager, up, commands >>

ShellExits(c) ==
  /\ call[c].shell = "running"
  /\ call' = [call EXCEPT ![c].shell = "over"]
  /\ UNCHANGED << host, manager, up, commands >>

\* The child closes: it is over and nobody holds its pipes.
Closed(c) ==
  LET r == call[c] IN
  /\ up /\ r.at = "running" /\ r.shell = "over" /\ ~r.kin
  /\ Returned(c)
  /\ UNCHANGED << host, manager, up, commands >>

Next ==
  \/ Booted
  \/ \E c \in Callers :
       \/ Status(c) \/ StatusProbed(c) \/ Execute(c) \/ Probed(c)
       \/ ToolTimer(c) \/ Abort(c) \/ SandboxTimer(c)
       \/ TreeKilled(c) \/ TreeSpared(c) \/ Forks(c) \/ KinEnd(c) \/ ShellExits(c)
       \/ Closed(c)

\* The probes are bounded, the clocks fire, and a child that is over is closed.
\* Nothing makes a shell or a descendant end by itself.
Fairness ==
  /\ WF_vars(Booted)
  /\ \A c \in Callers :
       /\ WF_vars(StatusProbed(c) \/ Probed(c)) /\ WF_vars(ToolTimer(c))
       /\ WF_vars(SandboxTimer(c)) /\ WF_vars(Closed(c))
       /\ WF_vars(TreeKilled(c) \/ TreeSpared(c))

Spec == Init /\ [][Next]_vars /\ Fairness
-----------------------------------------------------------------------------
Running(c) == call[c].at = "running" /\ call[c].shell = "running"
Sparing == platform = "win32"

\* A command runs outside the sandbox on a host that has the tools, under a
\* policy that asks for it, only if some probe missed a tool (index.ts:124
\* execute awaits init; the overlapping probes of the first commands may still
\* overwrite each other).
UnwrappedOnlyIfBlind ==
  \A c \in Callers :
    Running(c) /\ policy = "strict" /\ installed # {} /\ call[c].wrap = "none" => blind

\* Off Windows, a shell that still runs after the signal fired was launched
\* after the signal had: the listener was too late to be told, and the shell
\* has until the manager's own clock fires, and no longer.
OutlivesOnlyUnheard ==
  \A c \in Callers :
    Running(c) /\ ~Sparing /\ (call[c].aborted \/ call[c].tooLate) =>
      ~call[c].heard /\ ~call[c].overdue

\* What the manager promises of the commands that run.
RunsAsTold == TypeOK /\ UnwrappedOnlyIfBlind /\ OutlivesOnlyUnheard

\* Every command returns, however late its signal was looked at, unless the
\* server went down, descendants of its shell hold its pipes past the timeout,
\* or taskkill failed.
EveryCommandReturns ==
  \A c \in Callers :
    call[c].at \in {"asking", "probing", "running"} ~>
      \/ call[c].at = "idle" \/ ~up
      \/ call[c].shell = "over" /\ call[c].kin
      \/ Sparing /\ Running(c) /\ call[c].overdue
=============================================================================
