----------------------------- MODULE HostProofs -----------------------------
(***************************************************************************)
(* Proofs about the two components that deal with the host's own tools and *)
(* files. Sandbox: for every set of agents and hosts, a command runs as    *)
(* the manager says it does. Memory: for any bullets, writers and faults,  *)
(* no reader finds half a file and a commit loses nothing.                 *)
(***************************************************************************)
EXTENDS Sandbox, Memory, FiniteSetTheorems, TLAPS

\* The host has no tool its platform cannot have.
HostTrue == installed \subseteq Probes(platform)

\* What the manager believes in once it has probed is what is there, unless
\* some probe has been blind.
FoundTrue == initialised /\ ~blind => found = installed

\* Until it is launched a command has no shell and nobody to tell of its end or
\* to kill.
Unlaunched(r) ==
  r.at \in {"idle", "asking", "probing"} =>
    r.shell = "none" /\ ~r.heard /\ ~r.overdue /\ ~r.killing

\* A running shell that its wrapper was left out of.
WrapTrue(r) ==
  r.shell = "running" /\ policy = "strict" /\ installed # {} /\ r.wrap = "none" => blind

\* A running shell that a signal or the manager's clock has spared.
SignalTrue(r) ==
  r.shell = "running" /\ platform # "win32" =>
    /\ ~r.overdue
    /\ r.aborted \/ r.tooLate => ~r.heard

CallTrue(r) == Unlaunched(r) /\ WrapTrue(r) /\ SignalTrue(r)

IInv ==
  /\ TypeOK /\ HostTrue /\ FoundTrue
  /\ \A c \in Callers : CallTrue(call[c])

-----------------------------------------------------------------------------
\* The wrapper is one there is: of the tools given, of the platform, or none.
LEMMA WrapType ==
  ASSUME NEW tools \in SUBSET Tools
  PROVE  Wrap(tools) \in Tools \cup {"job", "none"}
<1>1. tools # {} => \E t \in tools : t = "bwrap" \/ "bwrap" \notin tools
  OBVIOUS
<1>2. WrapLinux(tools) \in Tools \cup {"none"}
  BY <1>1 DEF WrapLinux
<1> QED  BY <1>2 DEF Wrap, WrapMac, WrapWindows, Tools

\* Under a strict policy a host that can have tools leaves a command unwrapped
\* only if the manager believes in none of them.
LEMMA WrapStrict ==
  ASSUME NEW tools \in SUBSET Tools, platform \in {"linux", "darwin"},
         policy = "strict", Wrap(tools) = "none"
  PROVE  tools = {}
<1> SUFFICES ASSUME tools # {} PROVE FALSE
  OBVIOUS
<1>1. \E t \in tools : t = "bwrap" \/ "bwrap" \notin tools
  OBVIOUS
<1>2. WrapLinux(tools) \in tools
  BY <1>1 DEF WrapLinux
<1>3. "none" \notin tools
  BY DEF Tools
<1> QED  BY <1>2, <1>3 DEF Wrap, WrapMac

\* A call at rest is true whatever the manager believes.
LEMMA RestingTrue == Resting \in Call /\ CallTrue(Resting)
  BY DEF Resting, Call, CallTrue, Unlaunched, WrapTrue, SignalTrue, Tools

LEMMA InitInv == Init => IInv
<1> SUFFICES ASSUME Init PROVE IInv
  OBVIOUS
<1>1. PICK h \in Hosts : platform = h.platform /\ installed = h.installed
  BY DEF Init
<1>2. platform \in Platforms /\ installed \subseteq Probes(platform)
  BY <1>1, SandboxAssumption
<1>3. installed \subseteq Tools
  BY <1>2 DEF Probes, Tools
<1>4. TypeOK
  <2>1. Resting \in Call /\ 0 \in 0..MaxCommands
    BY RestingTrue, SandboxAssumption
  <2>2. call \in [Callers -> Call]
    BY <2>1 DEF Init
  <2> QED  BY <1>2, <1>3, <2>1, <2>2 DEF Init, TypeOK
<1>5. \A c \in Callers : call[c] = Resting
  BY DEF Init
<1> QED  BY <1>2, <1>4, <1>5, RestingTrue DEF Init, IInv, HostTrue, FoundTrue

-----------------------------------------------------------------------------
\* A change of the one call of c, with the rest of the state as it was.
LEMMA OneCall ==
  ASSUME IInv, NEW c \in Callers, NEW r \in Call, CallTrue(r),
         call' = [call EXCEPT ![c] = r], UNCHANGED << host, manager >>,
         up' \in BOOLEAN, commands' \in 0..MaxCommands
  PROVE  IInv'
<1>1. TypeOK'
  BY DEF IInv, TypeOK, host, manager
<1>2. HostTrue' /\ FoundTrue'
  BY DEF IInv, HostTrue, FoundTrue, host, manager
<1>3. ASSUME NEW d \in Callers PROVE CallTrue(call[d])'
  <2>1. call'[d] = IF d = c THEN r ELSE call[d]
    BY DEF IInv, TypeOK
  <2>2. CallTrue(call'[d])
    BY <2>1 DEF IInv
  <2> QED  BY <2>2 DEF CallTrue, Unlaunched, WrapTrue, SignalTrue, host, manager
<1> QED  BY <1>1, <1>2, <1>3 DEF IInv

\* A probe, whatever it finds, leaves the other calls true.
LEMMA Learned ==
  ASSUME IInv, NEW tools \in SUBSET installed, Learn(tools), UNCHANGED host,
         call' \in [Callers -> Call], boot' \in BOOLEAN, up' \in BOOLEAN,
         commands' \in 0..MaxCommands,
         \A c \in Callers : call'[c] = call[c] \/ CallTrue(call[c])'
  PROVE  IInv'
<1>1. TypeOK'
  BY DEF IInv, TypeOK, Learn, host
<1>2. HostTrue' /\ FoundTrue'
  BY DEF IInv, TypeOK, HostTrue, FoundTrue, Learn, host
<1>3. ASSUME NEW d \in Callers PROVE CallTrue(call[d])'
  <2>1. CASE call'[d] = call[d]
    <3>1. CallTrue(call[d]) /\ (blind => blind')
      BY DEF IInv, Learn
    <3> QED  BY <2>1, <3>1 DEF CallTrue, Unlaunched, WrapTrue, SignalTrue, host
  <2> QED  BY <2>1
<1> QED  BY <1>1, <1>2, <1>3 DEF IInv

\* What a launch makes of the call, when the manager believes in tools.
Launched(r, tools) ==
  [r EXCEPT !.at = "running", !.shell = "running", !.wrap = Wrap(tools),
            !.heard = ~r.tooLate /\ ~r.aborted]

\* A launch starts the command wrapped as it should be, and heard if it can be.
LEMMA LaunchedTrue ==
  ASSUME IInv, NEW r \in Call, Unlaunched(r), r.at \in {"idle", "probing"},
         NEW tools \in SUBSET installed, NEW b \in BOOLEAN, b \/ tools = installed
  PROVE  /\ Launched(r, tools) \in Call
         /\ Unlaunched(Launched(r, tools)) /\ SignalTrue(Launched(r, tools))
         /\ policy = "strict" /\ installed # {} /\ Launched(r, tools).wrap = "none" => b
<1>1. tools \subseteq Tools
  BY DEF IInv, TypeOK
<1>2. Wrap(tools) \in Tools \cup {"job", "none"}
  BY <1>1, WrapType
<1>3. Launched(r, tools) \in Call
  BY <1>2 DEF Launched, Call
<1>4. Unlaunched(Launched(r, tools)) /\ SignalTrue(Launched(r, tools))
  BY DEF Launched, Unlaunched, SignalTrue, Call
<1>5. ASSUME policy = "strict", installed # {}, Launched(r, tools).wrap = "none" PROVE b
  <2>1. platform \in {"linux", "darwin"}
    BY <1>5 DEF IInv, HostTrue, Probes
  <2>2. Wrap(tools) = "none"
    BY <1>5 DEF Launched, Call
  <2>3. tools = {}
    BY <1>1, <1>5, <2>1, <2>2, WrapStrict
  <2> QED  BY <1>5, <2>3
<1> QED  BY <1>3, <1>4, <1>5

-----------------------------------------------------------------------------
LEMMA ExecuteInv == ASSUME IInv, NEW c \in Callers, Execute(c) PROVE IInv'
<1> USE DEF Execute
<1>1. commands' \in 0..MaxCommands
  BY SandboxAssumption DEF IInv, TypeOK
<1>2. PICK aborted \in BOOLEAN :
        LET r == [Resting EXCEPT !.aborted = aborted]
        IN  IF initialised THEN Launch(c, r, found)
            ELSE call' = [call EXCEPT ![c] = [r EXCEPT !.at = "probing"]] /\ UNCHANGED up
  OBVIOUS
<1> DEFINE r == [Resting EXCEPT !.aborted = aborted]
<1>3. r \in Call /\ CallTrue(r) /\ r.at = "idle"
  BY DEF Resting, Call, CallTrue, Unlaunched, WrapTrue, SignalTrue, Tools
<1>4. CASE ~initialised
  <2> DEFINE s == [r EXCEPT !.at = "probing"]
  <2>1. s \in Call /\ CallTrue(s)
    BY DEF Resting, Call, CallTrue, Unlaunched, WrapTrue, SignalTrue, Tools
  <2>2. call' = [call EXCEPT ![c] = s] /\ up' \in BOOLEAN
    BY <1>2, <1>4 DEF IInv, TypeOK
  <2> QED  BY <1>1, <2>1, <2>2, OneCall
<1>5. CASE initialised /\ Launch(c, r, found)
  <2>1. up' \in BOOLEAN
    BY <1>5 DEF Launch, IInv, TypeOK
  <2>2. CASE call' = [call EXCEPT ![c] = Resting]
    BY <1>1, <2>1, <2>2, OneCall, RestingTrue
  <2>3. CASE UNCHANGED call
    BY <1>1, <2>1, <2>3 DEF IInv, TypeOK, HostTrue, FoundTrue, CallTrue, Unlaunched, WrapTrue,
                            SignalTrue, host, manager
  <2>4. CASE call' = [call EXCEPT ![c] = Launched(r, found)]
    <3>1. blind \/ found = installed
      BY <1>5 DEF IInv, FoundTrue
    <3>2. found \subseteq installed /\ blind \in BOOLEAN
      BY DEF IInv, TypeOK
    <3>3. Unlaunched(r)
      BY <1>3 DEF CallTrue
    <3> HIDE DEF r
    <3>4. Launched(r, found) \in Call /\ CallTrue(Launched(r, found))
      BY <1>3, <3>1, <3>2, <3>3, LaunchedTrue DEF CallTrue, WrapTrue
    <3> QED  BY <1>1, <2>1, <2>4, <3>4, OneCall
  <2> QED  BY <1>5, <2>2, <2>3, <2>4 DEF Launch, Returned, Launched
<1> QED  BY <1>2, <1>4, <1>5

LEMMA ProbedInv == ASSUME IInv, NEW c \in Callers, Probed(c) PROVE IInv'
<1>1. PICK tools \in SUBSET installed : Learn(tools) /\ Launch(c, call[c], tools)
  BY DEF Probed
<1>2. UNCHANGED << host, boot, commands >> /\ call[c].at = "probing"
  BY DEF Probed
<1>3. call[c] \in Call /\ Unlaunched(call[c]) /\ boot' \in BOOLEAN /\ commands' \in 0..MaxCommands
  BY <1>2 DEF IInv, TypeOK, CallTrue
<1>4. up' \in BOOLEAN
  BY <1>1 DEF Launch, IInv, TypeOK
<1>5. blind' \in BOOLEAN /\ (blind' \/ tools = installed)
  BY <1>1 DEF Learn, IInv, TypeOK
<1>6. CASE call' = [call EXCEPT ![c] = Resting]
  <2>1. call' \in [Callers -> Call] /\ \A d \in Callers : call'[d] = IF d = c THEN Resting ELSE call[d]
    BY <1>6, RestingTrue DEF IInv, TypeOK
  <2>2. CallTrue(Resting)'
    BY DEF Resting, CallTrue, Unlaunched, WrapTrue, SignalTrue
  <2>3. CallTrue(call[c])'
    BY <2>1, <2>2 DEF CallTrue, Unlaunched, WrapTrue, SignalTrue, Resting
  <2> QED  BY <1>1, <1>2, <1>3, <1>4, <2>1, <2>3, Learned
<1>7. CASE UNCHANGED call
  <2>1. call' \in [Callers -> Call] /\ \A d \in Callers : call'[d] = call[d]
    BY <1>7 DEF IInv, TypeOK
  <2> QED  BY <1>1, <1>2, <1>3, <1>4, <2>1, Learned
<1>8. CASE call' = [call EXCEPT ![c] = Launched(call[c], tools)]
  <2> DEFINE s == Launched(call[c], tools)
  <2>1. /\ s \in Call /\ Unlaunched(s) /\ SignalTrue(s)
        /\ policy = "strict" /\ installed # {} /\ s.wrap = "none" => blind'
    BY <1>2, <1>3, <1>5, LaunchedTrue
  <2> HIDE DEF s
  <2>2. call' \in [Callers -> Call] /\ \A d \in Callers : call'[d] = IF d = c THEN s ELSE call[d]
    BY <1>8, <2>1 DEF IInv, TypeOK, s
  <2>3. CallTrue(call[c])'
    BY <1>2, <2>1, <2>2 DEF CallTrue, Unlaunched, WrapTrue, SignalTrue, host
  <2> QED  BY <1>1, <1>2, <1>3, <1>4, <2>2, <2>3, Learned
<1> QED  BY <1>1, <1>6, <1>7, <1>8 DEF Launch, Returned, Launched

LEMMA BootedInv == ASSUME IInv, Booted PROVE IInv'
<1>1. PICK tools \in SUBSET installed : Learn(tools)
  BY DEF Booted
<1>2. call' \in [Callers -> Call] /\ boot' \in BOOLEAN /\ up' \in BOOLEAN /\ UNCHANGED host
      /\ commands' \in 0..MaxCommands /\ \A c \in Callers : call'[c] = call[c]
  BY DEF Booted, IInv, TypeOK
<1> QED  BY <1>1, <1>2, Learned

LEMMA StatusProbedInv == ASSUME IInv, NEW c \in Callers, StatusProbed(c) PROVE IInv'
<1>1. PICK tools \in SUBSET installed : Learn(tools)
  BY DEF StatusProbed
<1>2. call' \in [Callers -> Call] /\ boot' \in BOOLEAN /\ up' \in BOOLEAN /\ UNCHANGED host
      /\ commands' \in 0..MaxCommands
      /\ \A d \in Callers : call'[d] = IF d = c THEN Resting ELSE call[d]
  BY RestingTrue DEF StatusProbed, IInv, TypeOK
<1>3. CallTrue(call[c])'
  BY <1>2 DEF CallTrue, Unlaunched, WrapTrue, SignalTrue, Resting
<1> QED  BY <1>1, <1>2, <1>3, Learned

\* The steps of one command that touch nothing but its call.
LEMMA CallSteps ==
  ASSUME IInv, NEW c \in Callers,
         \/ Status(c) \/ ToolTimer(c) \/ Abort(c) \/ SandboxTimer(c) \/ TreeKilled(c)
         \/ TreeSpared(c) \/ Forks(c) \/ KinEnd(c) \/ ShellExits(c) \/ Closed(c)
  PROVE  IInv'
<1> DEFINE r == call[c]
<1>1. UNCHANGED << host, manager, up, commands >> /\ up' \in BOOLEAN /\ commands' \in 0..MaxCommands
  BY DEF IInv, TypeOK, Status, ToolTimer, Abort, SandboxTimer, TreeKilled, TreeSpared, Forks,
         KinEnd, ShellExits, Closed
<1>2. r \in Call /\ CallTrue(r)
  BY DEF IInv, TypeOK
<1>3. /\ Kill(r) \in Call /\ Kill(r).at = r.at /\ Kill(r).heard = r.heard
      /\ Kill(r).aborted = r.aborted /\ Kill(r).tooLate = r.tooLate /\ Kill(r).overdue = r.overdue
      /\ Kill(r).wrap = r.wrap
      /\ Kill(r).shell = "running" => r.shell = "running" /\ platform = "win32"
      /\ r.shell = "none" => Kill(r) = r
  <2>1. CASE r.shell # "running"
    BY <1>2, <2>1 DEF Kill
  <2>2. CASE r.shell = "running" /\ platform = "win32"
    <3>1. Kill(r) = [r EXCEPT !.killing = TRUE]
      BY <2>2 DEF Kill
    <3> QED  BY <1>2, <2>2, <3>1 DEF Call
  <2>3. CASE r.shell = "running" /\ platform # "win32"
    <3>1. Kill(r) = [r EXCEPT !.shell = "over"]
      BY <2>3 DEF Kill
    <3> QED  BY <1>2, <2>3, <3>1 DEF Call
  <2> QED  BY <2>1, <2>2, <2>3
<1>4. CASE Status(c)
  <2>1. [r EXCEPT !.at = "asking"] \in Call /\ CallTrue([r EXCEPT !.at = "asking"])
    BY <1>2, <1>4 DEF Status, Call, CallTrue, Unlaunched, WrapTrue, SignalTrue
  <2>2. call' = [call EXCEPT ![c] = [r EXCEPT !.at = "asking"]]
    BY <1>4 DEF Status
  <2> QED  BY <1>1, <2>1, <2>2, OneCall
<1>5. CASE ToolTimer(c)
  <2> DEFINE s == [Signalled(r) EXCEPT !.tooLate = TRUE]
  <2>1. s \in Call /\ CallTrue(s)
    BY <1>2, <1>3, <1>5 DEF ToolTimer, Signalled, Call, CallTrue, Unlaunched, WrapTrue, SignalTrue
  <2>2. call' = [call EXCEPT ![c] = s]
    BY <1>5 DEF ToolTimer
  <2> QED  BY <1>1, <2>1, <2>2, OneCall
<1>6. CASE Abort(c)
  <2> DEFINE s == [Signalled(r) EXCEPT !.aborted = TRUE]
  <2>1. s \in Call /\ CallTrue(s)
    BY <1>2, <1>3, <1>6 DEF Abort, Signalled, Call, CallTrue, Unlaunched, WrapTrue, SignalTrue
  <2>2. call' = [call EXCEPT ![c] = s]
    BY <1>6 DEF Abort
  <2> QED  BY <1>1, <2>1, <2>2, OneCall
<1>7. CASE SandboxTimer(c)
  <2> DEFINE s == [Kill(r) EXCEPT !.overdue = TRUE]
  <2>1. s \in Call /\ CallTrue(s)
    BY <1>2, <1>3, <1>7 DEF SandboxTimer, Call, CallTrue, Unlaunched, WrapTrue, SignalTrue
  <2>2. call' = [call EXCEPT ![c] = s]
    BY <1>7 DEF SandboxTimer
  <2> QED  BY <1>1, <2>1, <2>2, OneCall
<1>8. CASE TreeKilled(c)
  <2> DEFINE s == [r EXCEPT !.killing = FALSE, !.kin = FALSE, !.shell = "over"]
  <2>1. s \in Call /\ CallTrue(s)
    BY <1>2, <1>8 DEF TreeKilled, Call, CallTrue, Unlaunched, WrapTrue, SignalTrue
  <2>2. call' = [call EXCEPT ![c] = s]
    BY <1>8 DEF TreeKilled, IInv, TypeOK, Call
  <2> QED  BY <1>1, <2>1, <2>2, OneCall
<1>9. CASE TreeSpared(c)
  <2> DEFINE s == [r EXCEPT !.killing = FALSE]
  <2>1. s \in Call /\ CallTrue(s)
    BY <1>2 DEF Call, CallTrue, Unlaunched, WrapTrue, SignalTrue
  <2>2. call' = [call EXCEPT ![c] = s]
    BY <1>9 DEF TreeSpared
  <2> QED  BY <1>1, <2>1, <2>2, OneCall
<1>10. CASE Forks(c) \/ KinEnd(c)
  <2>1. \E b \in BOOLEAN : call' = [call EXCEPT ![c] = [r EXCEPT !.kin = b]]
    BY <1>10 DEF Forks, KinEnd
  <2>2. \A b \in BOOLEAN : [r EXCEPT !.kin = b] \in Call /\ CallTrue([r EXCEPT !.kin = b])
    BY <1>2 DEF Call, CallTrue, Unlaunched, WrapTrue, SignalTrue
  <2> QED  BY <1>1, <2>1, <2>2, OneCall
<1>11. CASE ShellExits(c)
  <2> DEFINE s == [r EXCEPT !.shell = "over"]
  <2>1. s \in Call /\ CallTrue(s)
    BY <1>2, <1>11 DEF ShellExits, Call, CallTrue, Unlaunched, WrapTrue, SignalTrue
  <2>2. call' = [call EXCEPT ![c] = s]
    BY <1>11 DEF ShellExits
  <2> QED  BY <1>1, <2>1, <2>2, OneCall
<1>12. CASE Closed(c)
  BY <1>1, <1>12, OneCall, RestingTrue DEF Closed, Returned
<1> QED  BY <1>4, <1>5, <1>6, <1>7, <1>8, <1>9, <1>10, <1>11, <1>12

LEMMA StepInv == IInv /\ [Next]_vars => IInv'
<1> SUFFICES ASSUME IInv, [Next]_vars PROVE IInv'
  OBVIOUS
<1>1. CASE UNCHANGED vars
  BY <1>1 DEF vars, host, manager, IInv, TypeOK, HostTrue, FoundTrue, CallTrue, Unlaunched,
              WrapTrue, SignalTrue
<1>2. CASE Booted
  BY <1>2, BootedInv
<1>3. ASSUME NEW c \in Callers, Execute(c) PROVE IInv'
  BY <1>3, ExecuteInv
<1>4. ASSUME NEW c \in Callers, Probed(c) PROVE IInv'
  BY <1>4, ProbedInv
<1>5. ASSUME NEW c \in Callers, StatusProbed(c) PROVE IInv'
  BY <1>5, StatusProbedInv
<1>6. ASSUME NEW c \in Callers,
        \/ Status(c) \/ ToolTimer(c) \/ Abort(c) \/ SandboxTimer(c) \/ TreeKilled(c)
        \/ TreeSpared(c) \/ Forks(c) \/ KinEnd(c) \/ ShellExits(c) \/ Closed(c)
      PROVE IInv'
  BY <1>6, CallSteps
<1> QED  BY <1>1, <1>2, <1>3, <1>4, <1>5, <1>6 DEF Next

\* What the manager promises of the commands that run (index.ts execute,
\* bash.ts): a command is left unwrapped on a host with tools only if a probe
\* was blind, and a shell outlives its signal only if the signal came before it,
\* and never the manager's own clock.
THEOREM CommandsRunAsTold == Spec => []RunsAsTold
<1>1. IInv => RunsAsTold
  BY DEF IInv, RunsAsTold, UnwrappedOnlyIfBlind, OutlivesOnlyUnheard, Running, Sparing,
         CallTrue, WrapTrue, SignalTrue
<1> QED  BY <1>1, InitInv, StepInv, PTL DEF Spec

-----------------------------------------------------------------------------
(***************************************************************************)
(* Memory.                                                                 *)
(***************************************************************************)
Filling(c) == op[c].at \in {"filling", "renaming"}

\* What MemoryTypeOK says, and that tmp is a function of the time.
Typed ==
  /\ file \in SUBSET Version /\ tmp \in [Times -> SUBSET Version]
  /\ op \in [Writers -> Op] /\ build \in Build
  /\ cache \in SUBSET [mtime : Times, body : Bodies]
  /\ now \in Times /\ mtimes \subseteq Times /\ reused \subseteq mtimes
  /\ exposed \in BOOLEAN /\ calls \in 0..MaxCalls /\ faults \in 0..MaxFaults

\* A file is of one version, if it is there, and so is what is cached.
Single(S) == \A v, w \in S : v = w
OneVersion == Single(file) /\ Single(cache) /\ \A t \in Times : Single(tmp[t])

\* What a writer that fills a temporary file finds in it.
OwnFile(c) ==
  /\ op[c].at \notin {"direct", "refilling"}
  /\ Filling(c) => op[c].where = "tmp" /\ tmp[op[c].time] # {}
  /\ op[c].at = "renaming" => \A v \in tmp[op[c].time] : v.whole /\ v.body = op[c].body

\* While each temporary file has had one writer and no rename has failed.
Atomic ==
  ~exposed =>
    /\ \A v \in file : v.whole
    /\ \A c \in Writers : OwnFile(c)
    /\ \A c, d \in Writers : Filling(c) /\ Filling(d) /\ op[c].time = op[d].time => c = d

\* What a commit is about to write has what it learned and what the file has,
\* as long as nobody has changed the file since it was read.
Keeps(c) ==
  op[c].at \in {"making", "filling", "renaming"} /\ op[c].append /\ op[c].current =>
    op[c].fresh \subseteq op[c].body /\ \A v \in file : v.body \subseteq op[c].body

\* The cache holds what was read of the version of its time.
CacheTrue ==
  /\ \A v \in file : v.mtime \in mtimes
  /\ \A e \in cache :
       /\ e.mtime \in mtimes
       /\ \A v \in file : v.mtime = e.mtime => e.mtime \in reused \/ e.body \in Heads(v.body, PromptCap)

\* A build between its stat and its read knows a time the file has had.
BuildTrue ==
  /\ PromptFresh
  /\ build.at = "statted" =>
       build.mtime \in mtimes /\ build.got = {} /\ Contents(file) \in build.held

MInv ==
  /\ Typed /\ OneVersion /\ Atomic /\ \A c \in Writers : Keeps(c)
  /\ CacheTrue /\ BuildTrue

-----------------------------------------------------------------------------
LEMMA SingleCardinality ==
  ASSUME NEW S, Single(S) PROVE Cardinality(S) <= 1
<1>1. CASE S = {}
  BY <1>1, FS_EmptySet
<1>2. CASE S # {}
  <2>1. PICK x : S = {x}
    BY <1>2 DEF Single
  <2> QED  BY <2>1, FS_Singleton
<1> QED  BY <1>1, <1>2

LEMMA HeadsType ==
  ASSUME NEW b \in Bodies, NEW most, NEW h \in Heads(b, most)
  PROVE  h \in Bodies /\ h \subseteq b /\ (Cardinality(b) <= most => h = b)
  BY DEF Heads, Bodies

LEMMA MInitInv == MemoryInit => MInv
<1> SUFFICES ASSUME MemoryInit PROVE MInv
  OBVIOUS
<1>a. IdleOp \in Op /\ 0 \in Times /\ IdleOp.at = "idle"
  BY MemoryAssumption DEF IdleOp, Op, Times, Bodies
<1>b. PICK b \in Bodies : file \in {{}, {[body |-> b, mtime |-> 0, whole |-> TRUE]}}
  BY DEF MemoryInit
<1>1. file \in SUBSET Version /\ Single(file) /\ \A v \in file : v.whole /\ v.mtime = 0
  <2> DEFINE r == [body |-> b, mtime |-> 0, whole |-> TRUE]
  <2>1. r \in Version /\ r.whole /\ r.mtime = 0
    BY <1>a DEF Version
  <2>2. file = {} \/ file = {r}
    BY <1>b
  <2> HIDE DEF r
  <2> QED  BY <2>1, <2>2 DEF Single
<1>2. mtimes = {v.mtime : v \in file}
  BY DEF MemoryInit
<1>3. mtimes \subseteq Times
  BY <1>a, <1>1, <1>2
<1>4. op = [c \in Writers |-> IdleOp] /\ tmp = [t \in Times |-> {}]
  BY DEF MemoryInit
<1>5. build \in Build
  BY <1>a DEF MemoryInit, Build
<1>6. cache = {} /\ now = 0 /\ reused = {} /\ exposed = FALSE /\ calls = 0 /\ faults = 0
      /\ build.at = "idle"
  BY DEF MemoryInit
<1>7. Typed
  <2>1. op \in [Writers -> Op] /\ tmp \in [Times -> SUBSET Version]
    BY <1>a, <1>4
  <2>2. 0 \in 0..MaxCalls /\ 0 \in 0..MaxFaults
    BY MemoryAssumption
  <2> QED  BY <1>a, <1>1, <1>2, <1>3, <1>5, <1>6, <2>1, <2>2 DEF Typed
<1>8. OneVersion
  BY <1>1, <1>4, <1>6 DEF OneVersion, Single
<1>9. Atomic /\ \A c \in Writers : Keeps(c)
  BY <1>a, <1>1, <1>4 DEF Atomic, OwnFile, Filling, Keeps
<1>10. CacheTrue /\ BuildTrue
  BY <1>1, <1>2, <1>6 DEF CacheTrue, BuildTrue, PromptFresh
<1> QED  BY <1>7, <1>8, <1>9, <1>10 DEF MInv

-----------------------------------------------------------------------------
\* What Becomes does, part by part.
LEMMA BecomesParts ==
  ASSUME Typed, NEW f \in SUBSET Version, NEW ops \in [Writers -> Op], Becomes(f, ops)
  PROVE  /\ file' = f
         /\ op' \in [Writers -> Op]
         /\ \A c \in Writers :
              /\ op'[c].at = ops[c].at /\ op'[c].body = ops[c].body
              /\ op'[c].time = ops[c].time /\ op'[c].where = ops[c].where
              /\ ~op'[c].current
         /\ mtimes \subseteq mtimes' /\ mtimes' \subseteq Times
         /\ reused \subseteq reused' /\ reused' \subseteq mtimes'
         /\ \A v \in f : v.mtime \in mtimes' /\ (v.mtime \in mtimes => v.mtime \in reused')
         /\ build' \in Build /\ build'.at = build.at /\ build'.mtime = build.mtime
         /\ build'.got = build.got
         /\ build.at # "statted" => build' = build
         /\ build.at = "statted" => build'.held = build.held \cup {Contents(f)}
<1>1. \A c \in Writers : ops[c] \in Op /\ [ops[c] EXCEPT !.current = FALSE] \in Op
  BY DEF Op
<1>2. op' = [c \in Writers |-> [ops[c] EXCEPT !.current = FALSE]]
  BY DEF Becomes
<1>3. \A c \in Writers : op'[c] = [ops[c] EXCEPT !.current = FALSE]
  BY <1>2
<1>4. \A c \in Writers :
        /\ op'[c].at = ops[c].at /\ op'[c].body = ops[c].body
        /\ op'[c].time = ops[c].time /\ op'[c].where = ops[c].where
        /\ ~op'[c].current
  <2>1. TAKE c \in Writers
  <2>2. ops[c] \in Op /\ op'[c] = [ops[c] EXCEPT !.current = FALSE]
    BY <1>1, <1>3
  <2> QED  BY <2>2 DEF Op
<1>5. op' \in [Writers -> Op]
  BY <1>1, <1>2
<1>6. /\ file' = f /\ mtimes' = mtimes \cup {v.mtime : v \in f}
      /\ reused' = reused \cup ({v.mtime : v \in f} \cap mtimes)
      /\ build' = (IF build.at = "statted" THEN [build EXCEPT !.held = @ \cup {Contents(f)}]
                   ELSE build)
  BY DEF Becomes
<1>7. \A v \in f : v.mtime \in Times /\ v.body \in Bodies
  BY DEF Version
<1>8. Contents(f) \in SUBSET Bodies
  BY <1>7 DEF Contents
<1>9. build \in Build /\ mtimes \subseteq Times /\ reused \subseteq mtimes
  BY DEF Typed
<1>10. build' \in Build /\ build'.at = build.at /\ build'.mtime = build.mtime
       /\ build'.got = build.got
  BY <1>6, <1>8, <1>9 DEF Build
<1>11. build.at = "statted" => build'.held = build.held \cup {Contents(f)}
  BY <1>6, <1>9 DEF Build
<1> QED  BY <1>4, <1>5, <1>6, <1>7, <1>9, <1>10, <1>11

\* The file changes, and so the commits, the cache and the build are told.
LEMMA BecomesInv ==
  ASSUME MInv, NEW f \in SUBSET Version, NEW ops \in [Writers -> Op], Becomes(f, ops),
         Single(f), cache' = cache, now' = now,
         tmp' \in [Times -> SUBSET Version], \A t \in Times : Single(tmp'[t]),
         exposed' \in BOOLEAN, calls' \in 0..MaxCalls, faults' \in 0..MaxFaults, Atomic'
  PROVE  MInv'
<1>1. Typed
  BY DEF MInv
<1>2. Typed'
  BY <1>1, BecomesParts DEF Typed
<1>3. OneVersion'
  BY <1>1, BecomesParts DEF OneVersion, Single, MInv
<1>4. \A c \in Writers : Keeps(c)'
  BY <1>1, BecomesParts DEF Keeps
<1>5. CacheTrue'
  BY <1>1, BecomesParts DEF CacheTrue, MInv
<1>6. BuildTrue'
  <2>1. CASE build.at = "statted"
    BY <1>1, <2>1, BecomesParts DEF BuildTrue, PromptFresh, MInv
  <2>2. CASE build.at # "statted"
    BY <1>1, <2>2, BecomesParts DEF BuildTrue, PromptFresh, MInv
  <2> QED  BY <2>1, <2>2
<1> QED  BY <1>2, <1>3, <1>4, <1>5, <1>6 DEF MInv

\* The file stays as it is, and so do its readers.
LEMMA SameFile ==
  ASSUME MInv, UNCHANGED << file, cache, build, mtimes, reused >>,
         tmp' \in [Times -> SUBSET Version], \A t \in Times : Single(tmp'[t]),
         op' \in [Writers -> Op], now' \in Times,
         exposed' \in BOOLEAN, calls' \in 0..MaxCalls, faults' \in 0..MaxFaults,
         Atomic', \A c \in Writers : Keeps(c)'
  PROVE  MInv'
<1>1. Typed'
  BY DEF Typed, MInv
<1>2. OneVersion'
  BY DEF OneVersion, Single, MInv
<1>3. CacheTrue' /\ BuildTrue'
  BY DEF CacheTrue, BuildTrue, PromptFresh, Contents, Heads, MInv
<1> QED  BY <1>1, <1>2, <1>3 DEF MInv

-----------------------------------------------------------------------------
(***************************************************************************)
(* The writers.                                                            *)
(***************************************************************************)
\* A caller goes on, and nothing but its operation changes.
LEMMA OneMoves ==
  ASSUME MInv, NEW c \in Writers, NEW o \in Op, op' = [op EXCEPT ![c] = o],
         UNCHANGED << file, tmp, cache, build, now, mtimes, reused >>,
         exposed' \in BOOLEAN, exposed => exposed', calls' \in 0..MaxCalls, faults' \in 0..MaxFaults,
         \/ o.at \in {"idle", "asking", "appending", "making"}
         \/ exposed',
         o.at \in {"making", "filling", "renaming"} /\ o.append /\ o.current =>
           o.fresh \subseteq o.body /\ \A v \in file : v.body \subseteq o.body
  PROVE  MInv'
<1>1. op \in [Writers -> Op] /\ op' \in [Writers -> Op]
  BY DEF MInv, Typed
<1>2. op'[c] = o /\ \A d \in Writers : d # c => op'[d] = op[d]
  BY <1>1
<1>3. \A d \in Writers : Keeps(d)'
  BY <1>2 DEF Keeps, MInv
<1>4. Atomic'
  <2> SUFFICES ASSUME ~exposed' PROVE Atomic'
    BY DEF Atomic
  <2>1. Atomic /\ ~exposed /\ o.at \notin {"filling", "renaming", "direct", "refilling"}
    BY DEF MInv
  <2> QED  BY <1>2, <2>1 DEF Atomic, OwnFile, Filling
<1>5. tmp' \in [Times -> SUBSET Version] /\ now' \in Times /\ \A t \in Times : Single(tmp'[t])
  BY DEF MInv, Typed, OneVersion
<1> QED  BY <1>1, <1>3, <1>4, <1>5, SameFile

\* What a read returns: the one version there is, or its first bytes.
LEMMA ReadWhole ==
  ASSUME MInv, NEW was \in Found
  PROVE  /\ was \in Bodies
         /\ (\A v \in file : Cardinality(v.body) <= Cap) => \A v \in file : v.body = was
<1>1. Single(file) /\ \A v \in file : v.body \in Bodies
  BY DEF MInv, OneVersion, Typed, Version
<1>2. CASE file = {}
  BY <1>2 DEF Bodies, Found
<1>3. CASE file # {}
  <2>1. PICK v \in file : was \in Heads(v.body, Cap)
    BY <1>3 DEF Found
  <2> QED  BY <1>1, <2>1, HeadsType DEF Single
<1> QED  BY <1>2, <1>3

LEMMA CommitInv ==
  ASSUME NEW c \in Writers
  PROVE  MInv /\ (Commit(c) \/ CommitMisreads(c) \/ AppendReads(c) \/ AppendMisreads(c) \/ Fails(c)
                  \/ \E b \in Bodies : Asked(c, b) \/ Put(c, b)) => MInv'
<1> USE DEF ghosts, bounds, Busy
<1>a. MInv => op[c] \in Op /\ calls \in 0..MaxCalls /\ faults \in 0..MaxFaults /\ exposed \in BOOLEAN
  BY DEF MInv, Typed
<1>b. IdleOp \in Op /\ IdleOp.at = "idle" /\ ~IdleOp.append
  BY MemoryAssumption DEF IdleOp, Op, Times, Bodies
<1>c. \A b \in Bodies, e \in Bodies : b \cup e \in Bodies /\ b \ e \in Bodies
  BY DEF Bodies
<1>1. ASSUME MInv, Commit(c) PROVE MInv'
  <2>1. PICK was \in Found :
          op' = [op EXCEPT ![c] = [IdleOp EXCEPT !.at = "asking", !.append = TRUE,
                                                  !.body = was]]
    BY <1>1 DEF Commit
  <2> DEFINE o == [IdleOp EXCEPT !.at = "asking", !.append = TRUE, !.body = was]
  <2>2. o \in Op /\ o.at = "asking"
    BY <1>1, <1>b, ReadWhole DEF Op
  <2>3. calls' \in 0..MaxCalls
    BY <1>1, <1>a, MemoryAssumption DEF Commit
  <2> HIDE DEF o
  <2>4. op' = [op EXCEPT ![c] = o]
    BY <2>1 DEF o
  <2> QED  BY <1>1, <1>a, <2>2, <2>3, <2>4, OneMoves DEF Commit
<1>2. ASSUME MInv, AppendReads(c) PROVE MInv'
  <2>1. PICK was \in Found :
          op' = [op EXCEPT ![c].at = "making", ![c].body = was \cup op[c].fresh,
                           ![c].current = \A v \in file : Cardinality(v.body) <= Cap]
    BY <1>2 DEF AppendReads
  <2> DEFINE o == [op[c] EXCEPT !.at = "making", !.body = was \cup op[c].fresh,
                                !.current = \A v \in file : Cardinality(v.body) <= Cap]
  <2>2. was \in Bodies /\ ((\A v \in file : Cardinality(v.body) <= Cap) => \A v \in file : v.body = was)
    BY <1>2, ReadWhole
  <2>3. /\ o.at = "making" /\ o.body = was \cup op[c].fresh /\ o.fresh = op[c].fresh
        /\ o.current = (\A v \in file : Cardinality(v.body) <= Cap)
    BY <1>2, <1>a DEF Op
  <2>4. o \in Op
    <3>1. op[c].fresh \in Bodies
      BY <1>2, <1>a DEF Op
    <3>2. was \cup op[c].fresh \in Bodies
      BY <1>c, <2>2, <3>1
    <3> QED  BY <1>2, <1>a, <3>2 DEF Op
  <2>5. op' = [op EXCEPT ![c] = o]
    BY <1>2, <2>1 DEF MInv, Typed
  <2> HIDE DEF o
  <2>6. o.current => o.fresh \subseteq o.body /\ \A v \in file : v.body \subseteq o.body
    BY <2>2, <2>3
  <2> QED  BY <1>2, <1>a, <2>3, <2>4, <2>5, <2>6, OneMoves DEF AppendReads
<1>3. ASSUME MInv, AppendMisreads(c) PROVE MInv'
  <2> DEFINE o == [op[c] EXCEPT !.at = "making", !.body = op[c].fresh, !.current = FALSE]
  <2>1. o \in Op /\ o.at = "making" /\ ~o.current
    BY <1>3, <1>a DEF Op
  <2>2. op' = [op EXCEPT ![c] = o]
    BY <1>3 DEF AppendMisreads, MInv, Typed
  <2>3. faults' \in 0..MaxFaults
    BY <1>3, <1>a, MemoryAssumption DEF AppendMisreads, Fault
  <2> HIDE DEF o
  <2> QED  BY <1>3, <1>a, <2>1, <2>2, <2>3, OneMoves DEF AppendMisreads
<1>4. ASSUME MInv, Fails(c) PROVE MInv'
  BY <1>4, <1>a, <1>b, OneMoves DEF Fails
<1>5. ASSUME MInv, NEW b \in Bodies, Asked(c, b) PROVE MInv'
  <2> DEFINE o == [op[c] EXCEPT !.at = "appending", !.fresh = b \ op[c].body]
  <2>1. op[c].body \in Bodies
    BY <1>5, <1>a DEF Op
  <2>2. o \in Op /\ o.at = "appending"
    BY <1>5, <1>a, <1>c, <2>1 DEF Op
  <2>3. op' = [op EXCEPT ![c] = o]
    BY <1>5 DEF Asked, MInv, Typed
  <2> HIDE DEF o
  <2> QED  BY <1>5, <1>a, <2>2, <2>3, OneMoves DEF Asked
<1>6. ASSUME MInv, NEW b \in Bodies, Put(c, b) PROVE MInv'
  <2> DEFINE o == [IdleOp EXCEPT !.at = "making", !.body = b]
  <2>1. o \in Op /\ o.at = "making" /\ ~o.append
    BY <1>b DEF Op
  <2>2. calls' \in 0..MaxCalls
    BY <1>6, <1>a, MemoryAssumption DEF Put
  <2>3. op' = [op EXCEPT ![c] = o]
    BY <1>6 DEF Put
  <2> HIDE DEF o
  <2> QED  BY <1>6, <1>a, <2>1, <2>2, <2>3, OneMoves DEF Put
<1>7. ASSUME MInv, CommitMisreads(c) PROVE MInv'
  <2> DEFINE o == [IdleOp EXCEPT !.at = "asking", !.append = TRUE]
  <2>1. o \in Op /\ o.at = "asking"
    BY <1>b DEF Op
  <2>2. calls' \in 0..MaxCalls /\ faults' \in 0..MaxFaults
    BY <1>7, <1>a, MemoryAssumption DEF CommitMisreads, Fault
  <2>3. op' = [op EXCEPT ![c] = o]
    BY <1>7 DEF CommitMisreads
  <2> HIDE DEF o
  <2> QED  BY <1>7, <1>a, <2>1, <2>2, <2>3, OneMoves DEF CommitMisreads
<1> QED  BY <1>1, <1>2, <1>3, <1>4, <1>5, <1>6, <1>7

\* A writer that opens a temporary file in this millisecond is its only one, or
\* has exposed another.
LEMMA OpensInv == ASSUME NEW c \in Writers PROVE MInv /\ Opens(c) => MInv'
<1> SUFFICES ASSUME MInv, Opens(c) PROVE MInv'
  OBVIOUS
<1> USE DEF bounds, Busy
<1>a. op \in [Writers -> Op] /\ op[c] \in Op /\ now \in Times /\ tmp \in [Times -> SUBSET Version]
  BY DEF MInv, Typed
<1> DEFINE o == [op[c] EXCEPT !.at = "filling", !.time = now, !.where = "tmp"]
<1>1. /\ o \in Op /\ o.at = "filling" /\ o.time = now /\ o.where = "tmp" /\ o.append = op[c].append
      /\ o.current = op[c].current /\ o.fresh = op[c].fresh /\ o.body = op[c].body
  BY <1>a DEF Op
<1>2. op' = [op EXCEPT ![c] = o]
  BY <1>a DEF Opens
<1> HIDE DEF o
<1>3. op' \in [Writers -> Op] /\ op'[c] = o /\ \A d \in Writers : d # c => op'[d] = op[d]
  BY <1>a, <1>1, <1>2
<1>4. Begun \in Version
  BY <1>a DEF Begun, Version, Bodies
<1>5. /\ tmp' = [tmp EXCEPT ![now] = {Begun}]
      /\ tmp' \in [Times -> SUBSET Version] /\ tmp'[now] = {Begun}
      /\ \A t \in Times : t # now => tmp'[t] = tmp[t]
  BY <1>a, <1>4 DEF Opens
<1>6. \A t \in Times : Single(tmp'[t])
  BY <1>5 DEF MInv, OneVersion, Single
<1>7. \A d \in Writers : Keeps(d)'
  BY <1>1, <1>3 DEF Opens, Keeps, MInv
<1>8. Atomic'
  <2> SUFFICES ASSUME ~exposed' PROVE Atomic'
    BY DEF Atomic
  <2>1. Atomic /\ ~exposed /\ tmp[now] = {} /\ file' = file
    BY DEF MInv, Opens
  <2>2. \A d \in Writers : Filling(d) => op[d].time # now /\ op[d].time \in Times
    BY <1>a, <2>1 DEF Atomic, OwnFile, Op
  <2>3. \A d \in Writers : d # c => OwnFile(d)'
    BY <1>3, <1>5, <2>1, <2>2 DEF Atomic, OwnFile, Filling
  <2>4. OwnFile(c)'
    BY <1>1, <1>3, <1>5 DEF OwnFile, Filling
  <2> QED  BY <1>1, <1>3, <2>1, <2>2, <2>3, <2>4 DEF Atomic, Filling
<1> QED  BY <1>a, <1>3, <1>5, <1>6, <1>7, <1>8, SameFile DEF Opens, MInv, Typed

\* The content arrives in the writer's own temporary file, unless another's
\* was exposed.
LEMMA FillsInv == ASSUME NEW c \in Writers PROVE MInv /\ Fills(c) => MInv'
<1> SUFFICES ASSUME MInv, Fills(c) PROVE MInv'
  OBVIOUS
<1> USE DEF bounds, Busy
<1>a. /\ op \in [Writers -> Op] /\ op[c] \in Op /\ now \in Times /\ exposed \in BOOLEAN
      /\ tmp \in [Times -> SUBSET Version] /\ op[c].time \in Times /\ op[c].at = "filling"
      /\ op[c].body \in Bodies /\ calls \in 0..MaxCalls /\ faults \in 0..MaxFaults
      /\ \A t \in Times : Single(tmp[t])
  BY DEF MInv, Typed, Op, Fills, OneVersion
<1> DEFINE ops == [op EXCEPT ![c].at = "renaming"]
<1>1. /\ ops \in [Writers -> Op] /\ ops[c] = [op[c] EXCEPT !.at = "renaming"]
      /\ \A d \in Writers : d # c => ops[d] = op[d]
  BY <1>a DEF Op
<1>2. /\ ops[c].at = "renaming" /\ ops[c].time = op[c].time /\ ops[c].where = op[c].where
      /\ ops[c].append = op[c].append /\ ops[c].current = op[c].current
      /\ ops[c].fresh = op[c].fresh /\ ops[c].body = op[c].body
  BY <1>a, <1>1 DEF Op
<1>3. PICK w \in {TRUE, ~exposed} :
        LET new == {[Whole(op[c].body) EXCEPT !.whole = w]} IN
        \/ /\ op[c].where = "tmp" /\ tmp[op[c].time] # {}
           /\ tmp' = [tmp EXCEPT ![op[c].time] = new] /\ op' = ops
           /\ UNCHANGED << file, build, mtimes, reused >>
        \/ op[c].where = "file" /\ Becomes(new, ops) /\ UNCHANGED tmp
        \/ op[c].where = "gone" /\ op' = ops /\ UNCHANGED << file, tmp, build, mtimes, reused >>
  BY DEF Fills
<1> DEFINE v == [Whole(op[c].body) EXCEPT !.whole = w]
<1>4. v \in Version /\ v.body = op[c].body /\ (~exposed => v.whole)
  BY <1>a DEF Whole, Version
<1>5. /\ UNCHANGED << cache, now, exposed, calls, faults >>
      /\ \/ /\ op[c].where = "tmp"
            /\ tmp' = [tmp EXCEPT ![op[c].time] = {v}] /\ op' = ops
            /\ UNCHANGED << file, build, mtimes, reused >>
         \/ op[c].where = "file" /\ Becomes({v}, ops) /\ UNCHANGED tmp
         \/ op[c].where = "gone" /\ op' = ops /\ UNCHANGED << file, tmp, build, mtimes, reused >>
  BY <1>3 DEF Fills
<1>6. Single({v}) /\ {v} \in SUBSET Version
  BY <1>4 DEF Single
<1> HIDE DEF v, ops
<1>7. ~exposed => Atomic /\ op[c].where = "tmp"
  BY <1>a DEF MInv, Atomic, OwnFile, Filling
<1>8. CASE op' = ops /\ UNCHANGED << file, build, mtimes, reused >>
  <2>1. tmp' \in [Times -> SUBSET Version] /\ \A t \in Times : Single(tmp'[t])
    BY <1>a, <1>5, <1>6, <1>8
  <2>2. \A d \in Writers : Keeps(d)'
    BY <1>a, <1>1, <1>2, <1>8 DEF Keeps, MInv
  <2>3. Atomic'
    <3> SUFFICES ASSUME ~exposed' PROVE Atomic'
      BY DEF Atomic
    <3>1. Atomic /\ op[c].where = "tmp" /\ tmp' = [tmp EXCEPT ![op[c].time] = {v}] /\ ~exposed
      BY <1>5, <1>7
    <3>2. tmp'[op[c].time] = {v} /\ \A t \in Times : t # op[c].time => tmp'[t] = tmp[t]
      BY <1>a, <3>1
    <3>3. OwnFile(c)'
      BY <1>2, <1>4, <1>8, <3>1, <3>2 DEF OwnFile, Filling
    <3>4. \A d \in Writers : Filling(d)' <=> Filling(d)
      BY <1>a, <1>1, <1>2, <1>8 DEF Filling
    <3>5. \A d \in Writers : d # c /\ Filling(d) => op[d].time # op[c].time /\ op[d].time \in Times
      BY <1>a, <3>1 DEF Atomic, Filling, Op
    <3>6. \A d \in Writers : d # c => OwnFile(d)'
      BY <1>1, <1>8, <3>1, <3>2, <3>5 DEF Atomic, OwnFile, Filling
    <3>7. \A d \in Writers : op'[d].time = op[d].time
      BY <1>1, <1>2, <1>8
    <3> QED  BY <1>8, <3>1, <3>3, <3>4, <3>6, <3>7 DEF Atomic
  <2> QED  BY <1>a, <1>1, <1>5, <1>8, <2>1, <2>2, <2>3, SameFile
<1>9. CASE op[c].where = "file" /\ Becomes({v}, ops) /\ UNCHANGED tmp
  <2>1. Atomic'
    BY <1>5, <1>7, <1>9 DEF Atomic
  <2> QED  BY <1>a, <1>1, <1>5, <1>6, <1>9, <2>1, BecomesInv
<1> QED  BY <1>5, <1>8, <1>9

LEMMA RestingFacts ==
  IdleOp \in Op /\ IdleOp.at = "idle" /\ ~IdleOp.append
  BY MemoryAssumption DEF IdleOp, Op, Times, Bodies

LEMMA MovedParts ==
  ASSUME NEW ops \in [Writers -> Op], NEW t \in Times
  PROVE  /\ Moved(ops, t) \in [Writers -> Op]
         /\ \A d \in Writers :
              /\ Moved(ops, t)[d].at = ops[d].at /\ Moved(ops, t)[d].body = ops[d].body
              /\ Moved(ops, t)[d].time = ops[d].time
              /\ ops[d].where = "tmp" /\ ops[d].time # t => Moved(ops, t)[d].where = "tmp"
              /\ ops[d].where # "file" /\ ops[d].at \notin {"filling", "refilling"} =>
                   Moved(ops, t)[d].where = ops[d].where
<1>1. \A d \in Writers : /\ [ops[d] EXCEPT !.where = "gone"] \in Op
                         /\ [ops[d] EXCEPT !.where = "file"] \in Op
  BY DEF Op
<1>2. Moved(ops, t) \in [Writers -> Op]
  BY <1>1 DEF Moved
<1>3. ASSUME NEW d \in Writers
      PROVE  /\ Moved(ops, t)[d].at = ops[d].at /\ Moved(ops, t)[d].body = ops[d].body
             /\ Moved(ops, t)[d].time = ops[d].time
             /\ ops[d].where = "tmp" /\ ops[d].time # t => Moved(ops, t)[d].where = "tmp"
             /\ ops[d].where # "file" /\ ops[d].at \notin {"filling", "refilling"} =>
                  Moved(ops, t)[d].where = ops[d].where
  <2>1. ops[d] \in Op
    OBVIOUS
  <2>2. Moved(ops, t)[d] \in {ops[d], [ops[d] EXCEPT !.where = "gone"], [ops[d] EXCEPT !.where = "file"]}
    BY DEF Moved
  <2>3. ops[d].where = "tmp" /\ ops[d].time # t => Moved(ops, t)[d] = ops[d]
    BY DEF Moved
  <2>4. ops[d].at \notin {"filling", "refilling"} => Moved(ops, t)[d] = ops[d]
    BY DEF Moved
  <2> QED  BY <2>1, <2>2, <2>3, <2>4 DEF Op
<1> QED  BY <1>2, <1>3

\* The temporary file becomes the file: it is whole, and its writer's alone,
\* unless one was exposed.
LEMMA RenamesInv == ASSUME NEW c \in Writers PROVE MInv /\ Renames(c) => MInv'
<1> SUFFICES ASSUME MInv, Renames(c) PROVE MInv'
  OBVIOUS
<1> USE DEF bounds, Busy
<1> DEFINE t == op[c].time
           ops == [op EXCEPT ![c] = IdleOp]
<1>a. /\ op \in [Writers -> Op] /\ op[c] \in Op /\ now \in Times /\ exposed \in BOOLEAN
      /\ tmp \in [Times -> SUBSET Version] /\ t \in Times /\ op[c].at = "renaming"
      /\ calls \in 0..MaxCalls /\ faults \in 0..MaxFaults /\ \A s \in Times : Single(tmp[s])
  BY DEF MInv, Typed, Op, Renames, OneVersion
<1>1. ops \in [Writers -> Op] /\ ops[c] = IdleOp /\ \A d \in Writers : d # c => ops[d] = op[d]
  BY <1>a, RestingFacts
<1>2. /\ tmp' = [tmp EXCEPT ![t] = {}] /\ Becomes(tmp[t], Moved(ops, t))
      /\ UNCHANGED << cache, now, exposed, calls, faults >>
  BY DEF Renames
<1>3. /\ tmp' \in [Times -> SUBSET Version] /\ \A s \in Times : s # t => tmp'[s] = tmp[s]
      /\ \A s \in Times : Single(tmp'[s])
  BY <1>a, <1>2 DEF Single
<1> HIDE DEF ops, t
<1>4. Moved(ops, t) \in [Writers -> Op]
  BY <1>a, <1>1, MovedParts
<1>5. Typed /\ tmp[t] \in SUBSET Version /\ Single(tmp[t])
  BY <1>a DEF MInv
<1>6. /\ file' = tmp[t]
      /\ \A d \in Writers :
           /\ op'[d].at = ops[d].at /\ op'[d].time = ops[d].time /\ op'[d].body = ops[d].body
           /\ ops[d].where = "tmp" /\ ops[d].time # t => op'[d].where = "tmp"
  <2> DEFINE new == Moved(ops, t)
  <2>1. \A d \in Writers :
          /\ new[d].at = ops[d].at /\ new[d].body = ops[d].body /\ new[d].time = ops[d].time
          /\ ops[d].where = "tmp" /\ ops[d].time # t => new[d].where = "tmp"
    BY <1>a, <1>1, MovedParts
  <2> HIDE DEF new
  <2>2. new \in [Writers -> Op] /\ Becomes(tmp[t], new)
    BY <1>2, <1>4 DEF new
  <2>3. /\ file' = tmp[t]
        /\ \A d \in Writers :
             /\ op'[d].at = new[d].at /\ op'[d].body = new[d].body
             /\ op'[d].time = new[d].time /\ op'[d].where = new[d].where
    BY <1>5, <2>2, BecomesParts
  <2> QED  BY <2>1, <2>3
<1>7. Atomic'
  <2> SUFFICES ASSUME ~exposed' PROVE Atomic'
    BY DEF Atomic
  <2>1. Atomic /\ ~exposed
    BY <1>2 DEF MInv
  <2>2. \A v \in file' : v.whole
    BY <1>a, <1>6, <2>1 DEF Atomic, OwnFile, t
  <2>3. op'[c].at = "idle"
    BY <1>1, <1>6, RestingFacts
  <2>4. ASSUME NEW d \in Writers, d # c
        PROVE  /\ OwnFile(d)' /\ (Filling(d)' <=> Filling(d)) /\ op'[d].time = op[d].time
    <3>1. op'[d].at = op[d].at /\ op'[d].time = op[d].time /\ op'[d].body = op[d].body
      BY <1>1, <1>6, <2>4
    <3>2. Filling(d) => op[d].time # t /\ op[d].time \in Times
      BY <1>a, <2>1, <2>4 DEF Atomic, Filling, Op, t
    <3>3. Filling(d) => op'[d].where = "tmp" /\ tmp'[op[d].time] = tmp[op[d].time]
      BY <1>1, <1>3, <1>6, <2>1, <2>4, <3>2 DEF Atomic, OwnFile
    <3>4. OwnFile(d)
      BY <2>1 DEF Atomic
    <3> QED  BY <3>1, <3>2, <3>3, <3>4 DEF OwnFile, Filling
  <2>5. OwnFile(c)' /\ ~Filling(c)'
    BY <2>3 DEF OwnFile, Filling
  <2> QED  BY <2>1, <2>2, <2>4, <2>5 DEF Atomic
<1> QED  BY <1>a, <1>2, <1>3, <1>4, <1>5, <1>7, BecomesInv

LEMMA DirectInv ==
  ASSUME NEW c \in Writers
  PROVE  MInv /\ (RenameFails(c) \/ DirectOpens(c) \/ DirectFills(c)) => MInv'
<1> USE DEF bounds, Busy
<1>a. MInv => /\ op \in [Writers -> Op] /\ op[c] \in Op /\ now \in Times /\ exposed \in BOOLEAN
              /\ calls \in 0..MaxCalls /\ faults \in 0..MaxFaults /\ op[c].body \in Bodies
              /\ tmp \in [Times -> SUBSET Version] /\ \A t \in Times : Single(tmp[t])
  BY DEF MInv, Typed, Op, OneVersion
<1>b. MInv /\ op[c].at \in {"direct", "refilling"} => exposed
  BY DEF MInv, Atomic, OwnFile
<1>1. ASSUME MInv, RenameFails(c) PROVE MInv'
  <2> DEFINE o == [op[c] EXCEPT !.at = "direct"]
  <2>1. o \in Op /\ o.at = "direct"
    BY <1>1, <1>a DEF Op
  <2>2. op' = [op EXCEPT ![c] = o] /\ exposed' = TRUE
    BY <1>1, <1>a DEF RenameFails
  <2>3. faults' \in 0..MaxFaults
    BY <1>1, <1>a, MemoryAssumption DEF RenameFails, Fault
  <2> HIDE DEF o
  <2> QED  BY <1>1, <1>a, <2>1, <2>2, <2>3, OneMoves DEF RenameFails
<1>2. ASSUME MInv, DirectOpens(c) PROVE MInv'
  <2> DEFINE ops == [op EXCEPT ![c].at = "refilling", ![c].where = "file"]
  <2>1. ops \in [Writers -> Op]
    BY <1>2, <1>a DEF Op
  <2>2. Begun \in Version
    BY <1>2, <1>a DEF Begun, Version, Bodies
  <2>3. Single({Begun}) /\ {Begun} \in SUBSET Version
    BY <2>2 DEF Single
  <2>4. Becomes({Begun}, ops) /\ UNCHANGED << tmp, cache, now, exposed, calls, faults >>
    BY <1>2 DEF DirectOpens
  <2>5. Atomic'
    BY <1>2, <1>b, <2>4 DEF Atomic, DirectOpens
  <2> HIDE DEF ops
  <2> QED  BY <1>2, <1>a, <2>1, <2>3, <2>4, <2>5, BecomesInv
<1>3. ASSUME MInv, DirectFills(c) PROVE MInv'
  <2> DEFINE ops == [op EXCEPT ![c] = IdleOp]
             v == Whole(op[c].body)
  <2>1. ops \in [Writers -> Op]
    BY <1>3, <1>a, RestingFacts
  <2>2. v \in Version
    BY <1>3, <1>a DEF Whole, Version
  <2>3. Single({v}) /\ {v} \in SUBSET Version
    BY <2>2 DEF Single
  <2>4. /\ UNCHANGED << tmp, cache, now, exposed, calls, faults >> /\ exposed
        /\ \/ Becomes({v}, ops)
           \/ op' = ops /\ UNCHANGED << file, build, mtimes, reused >>
    BY <1>3, <1>b DEF DirectFills
  <2>5. Atomic'
    BY <2>4 DEF Atomic
  <2>6. CASE Becomes({v}, ops)
    <3> HIDE DEF ops, v
    <3> QED  BY <1>3, <1>a, <2>1, <2>3, <2>4, <2>5, <2>6, BecomesInv
  <2>7. CASE op' = ops /\ UNCHANGED << file, build, mtimes, reused >>
    BY <1>3, <1>a, <2>4, <2>7, RestingFacts, OneMoves
  <2> QED  BY <2>4, <2>6, <2>7
<1> QED  BY <1>1, <1>2, <1>3

-----------------------------------------------------------------------------
(***************************************************************************)
(* The prompts, and the rest of the world.                                 *)
(***************************************************************************)
\* A build takes from the cache only what was read of the file's version, or of
\* another with its time.
LEMMA StatsInv == MInv /\ Stats => MInv'
<1> SUFFICES ASSUME MInv, Stats PROVE MInv'
  OBVIOUS
<1> USE DEF bounds, ghosts
<1> DEFINE known == {e \in cache : \A v \in file : v.mtime = e.mtime}
<1>1. /\ build' = [at |-> IF file = {} \/ known # {} THEN "done" ELSE "statted",
                  mtime |-> IF file = {} THEN 0 ELSE (CHOOSE v \in file : TRUE).mtime,
                  got |-> IF file = {} THEN {} ELSE {e.body : e \in known},
                  held |-> {Contents(file)}]
      /\ UNCHANGED << file, tmp, op, cache, now, mtimes, reused, exposed, calls, faults >>
  BY DEF Stats
<1>a. /\ file \in SUBSET Version /\ cache \in SUBSET [mtime : Times, body : Bodies]
      /\ Single(file) /\ Single(cache) /\ CacheTrue /\ 0 \in Times
  BY MemoryAssumption DEF MInv, Typed, OneVersion, Times
<1>b. \A v \in file : v.mtime \in Times /\ v.body \in Bodies /\ v.mtime \in mtimes
  BY <1>a DEF Version, CacheTrue
<1>c. file # {} => \E v \in file : file = {v} /\ (CHOOSE w \in file : TRUE) = v
  BY <1>a DEF Single
<1>d. \A e \in known : known = {e} /\ e.body \in Bodies
  BY <1>a DEF Single
<1>e. known \subseteq cache /\ \A e \in known : \A v \in file : v.mtime = e.mtime
  OBVIOUS
<1> HIDE DEF known
<1>2. Contents(file) \in SUBSET Bodies
  BY <1>b DEF Contents
<1>3. build'.mtime \in Times
  BY <1>a, <1>b, <1>c, <1>1
<1>4. build'.got \in SUBSET Bodies
  <2>1. \A e \in known : e.body \in Bodies
    BY <1>d
  <2> QED  BY <1>1, <2>1
<1>5. build' \in Build
  BY <1>1, <1>2, <1>3, <1>4 DEF Build
<1>6. PromptFresh'
  <2> SUFFICES ASSUME build'.at = "done" PROVE PromptFresh'
    BY DEF PromptFresh
  <2>1. CASE file = {}
    <3>1. Contents(file) = {} /\ build'.got = {} /\ Contents(file) \in build'.held
      BY <1>1, <2>1 DEF Contents
    <3> QED  BY <3>1 DEF PromptFresh
  <2>2. CASE file # {}
    <3>1. PICK e \in known : TRUE
      BY <1>1, <2>2
    <3>2. PICK v \in file : file = {v} /\ (CHOOSE w \in file : TRUE) = v
      BY <1>c, <2>2
    <3>3. known = {e} /\ v.mtime = e.mtime /\ e \in cache
      BY <1>d, <1>e, <3>1, <3>2
    <3>4. build'.mtime = v.mtime /\ build'.got = {e.body} /\ build'.held = {{v.body}}
      <4>1. {g.body : g \in known} = {e.body} /\ Contents(file) = {v.body}
        BY <3>2, <3>3 DEF Contents
      <4> QED  BY <1>1, <2>2, <3>2, <4>1
    <3>5. e.mtime \in reused \/ e.body \in Heads(v.body, PromptCap)
      BY <1>a, <3>2, <3>3 DEF CacheTrue
    <3>6. {v.body} \in build'.held /\ reused' = reused
      BY <1>1, <3>4
    <3> QED  BY <3>3, <3>4, <3>5, <3>6 DEF PromptFresh, Heads
  <2> QED  BY <2>1, <2>2
<1>7. build'.at = "statted" =>
        build'.mtime \in mtimes' /\ build'.got = {} /\ Contents(file)' \in build'.held
  <2> SUFFICES ASSUME build'.at = "statted"
               PROVE  build'.mtime \in mtimes' /\ build'.got = {} /\ Contents(file)' \in build'.held
    OBVIOUS
  <2>1. file # {} /\ known = {}
    BY <1>1
  <2> QED  BY <1>1, <1>b, <1>c, <2>1 DEF Contents
<1>8. Typed' /\ OneVersion'
  BY <1>1, <1>5 DEF MInv, Typed, OneVersion, Single
<1>9. Atomic' /\ CacheTrue' /\ \A c \in Writers : Keeps(c)'
  BY <1>1 DEF MInv, Atomic, OwnFile, Filling, CacheTrue, Heads, Keeps
<1> QED  BY <1>6, <1>7, <1>8, <1>9 DEF MInv, BuildTrue

\* What is read is a head of what the file holds now, and is kept under a time
\* that the file has had: a version that gets this time again reuses it.
LEMMA ReadsInv == MInv /\ Reads => MInv'
<1> SUFFICES ASSUME MInv, Reads PROVE MInv'
  OBVIOUS
<1> USE DEF bounds, ghosts
<1>a. /\ build \in Build /\ build.at = "statted" /\ Single(file) /\ BuildTrue
      /\ file \in SUBSET Version /\ CacheTrue
      /\ UNCHANGED << file, tmp, op, now, mtimes, reused, exposed, calls, faults >>
  BY DEF MInv, Typed, OneVersion, Reads
<1>b. build.mtime \in mtimes /\ build.got = {} /\ Contents(file) \in build.held
  BY <1>a DEF BuildTrue
<1>0. Atomic' /\ \A c \in Writers : Keeps(c)'
  BY <1>a DEF MInv, Atomic, OwnFile, Filling, Keeps
<1>1. CASE file = {} /\ build' = [build EXCEPT !.at = "done"] /\ UNCHANGED cache
  <2>1. build' \in Build /\ build'.at = "done" /\ build'.held = build.held /\ build'.got = {}
    BY <1>a, <1>b, <1>1 DEF Build
  <2>2. Contents(file) = {}
    BY <1>1 DEF Contents
  <2>3. BuildTrue'
    BY <1>b, <2>1, <2>2 DEF BuildTrue, PromptFresh
  <2>4. Typed' /\ OneVersion' /\ CacheTrue'
    BY <1>a, <1>1, <2>1 DEF MInv, Typed, OneVersion, Single, CacheTrue, Heads
  <2> QED  BY <1>0, <2>3, <2>4 DEF MInv
<1>2. ASSUME NEW v \in file, NEW h \in Heads(v.body, PromptCap),
             build' = [build EXCEPT !.at = "done", !.got = {h}],
             cache' = {[mtime |-> build.mtime, body |-> h]}
      PROVE  MInv'
  <2>1. v.body \in Bodies /\ h \in Bodies /\ file = {v}
    BY <1>a, <1>2, HeadsType DEF Version, Single
  <2>2. /\ build' \in Build /\ build'.at = "done" /\ build'.held = build.held /\ build'.got = {h}
    BY <1>a, <1>2, <2>1 DEF Build
  <2>3. Contents(file) = {v.body}
    BY <2>1 DEF Contents
  <2>4. BuildTrue'
    BY <1>b, <1>2, <2>2, <2>3 DEF BuildTrue, PromptFresh, Heads
  <2> DEFINE e == [mtime |-> build.mtime, body |-> h]
  <2>5. e \in [mtime : Times, body : Bodies] /\ e.mtime = build.mtime /\ e.body = h
    BY <1>a, <2>1 DEF Build
  <2> HIDE DEF e
  <2>6. cache' = {e}
    BY <1>2 DEF e
  <2>7. Typed' /\ OneVersion'
    BY <1>a, <2>2, <2>5, <2>6 DEF MInv, Typed, OneVersion, Single
  <2>8. CacheTrue'
    BY <1>a, <1>b, <1>2, <2>1, <2>5, <2>6 DEF CacheTrue, Heads
  <2> QED  BY <1>0, <2>4, <2>7, <2>8 DEF MInv
<1> QED  BY <1>1, <1>2 DEF Reads

LEMMA WorldInv == MInv /\ (Deleted \/ Crash \/ Tick \/ \E b \in Bodies : Edit(b)) => MInv'
<1> USE DEF bounds, ghosts
<1>a. MInv => /\ op \in [Writers -> Op] /\ now \in Times /\ exposed \in BOOLEAN /\ Typed
              /\ calls \in 0..MaxCalls /\ faults \in 0..MaxFaults /\ Atomic
              /\ tmp \in [Times -> SUBSET Version] /\ \A t \in Times : Single(tmp[t])
  BY DEF MInv, Typed, OneVersion
<1>b. Fault /\ MInv => faults' \in 0..MaxFaults
  BY <1>a, MemoryAssumption DEF Fault
<1>1. ASSUME MInv, Deleted PROVE MInv'
  <2> DEFINE ops == [c \in Writers |->
                       IF op[c].where = "file" THEN [op[c] EXCEPT !.where = "gone"] ELSE op[c]]
  <2>1. \A c \in Writers : op[c] \in Op /\ [op[c] EXCEPT !.where = "gone"] \in Op
    BY <1>1, <1>a DEF Op
  <2>2. ops \in [Writers -> Op] /\ \A c \in Writers :
          /\ ops[c].at = op[c].at /\ ops[c].time = op[c].time /\ ops[c].body = op[c].body
          /\ op[c].where = "tmp" => ops[c].where = "tmp"
    BY <2>1 DEF Op
  <2> HIDE DEF ops
  <2>3. Becomes({}, ops) /\ UNCHANGED << tmp, cache, now, exposed, calls >> /\ Fault
    BY <1>1 DEF Deleted, ops
  <2>4. {} \in SUBSET Version /\ Single({})
    BY DEF Single
  <2>5. Atomic'
    <3>1. file' = {} /\ \A c \in Writers :
            /\ op'[c].at = ops[c].at /\ op'[c].body = ops[c].body
            /\ op'[c].time = ops[c].time /\ op'[c].where = ops[c].where
      BY <1>1, <1>a, <2>2, <2>3, <2>4, BecomesParts
    <3> QED  BY <1>1, <1>a, <2>2, <2>3, <3>1 DEF Atomic, OwnFile, Filling
  <2> QED  BY <1>1, <1>a, <1>b, <2>2, <2>3, <2>4, <2>5, BecomesInv
<1>2. ASSUME MInv, NEW b \in Bodies, Edit(b) PROVE MInv'
  <2>1. Whole(b) \in Version /\ Whole(b).whole
    BY <1>2, <1>a DEF Whole, Version
  <2>2. Becomes({Whole(b)}, op) /\ UNCHANGED << tmp, cache, now, exposed, calls >> /\ Fault
    BY <1>2 DEF Edit
  <2>3. {Whole(b)} \in SUBSET Version /\ Single({Whole(b)})
    BY <2>1 DEF Single
  <2>4. Atomic'
    <3>1. file' = {Whole(b)} /\ \A c \in Writers :
            /\ op'[c].at = op[c].at /\ op'[c].body = op[c].body
            /\ op'[c].time = op[c].time /\ op'[c].where = op[c].where
      BY <1>2, <1>a, <2>2, <2>3, BecomesParts
    <3> QED  BY <1>2, <1>a, <2>1, <2>2, <3>1 DEF Atomic, OwnFile, Filling
  <2> QED  BY <1>2, <1>a, <1>b, <2>2, <2>3, <2>4, BecomesInv
<1>3. ASSUME MInv, Crash PROVE MInv'
  <2>1. /\ op' = [c \in Writers |-> IdleOp] /\ tmp' = [t \in Times |-> {}] /\ cache' = {}
        /\ build' = [at |-> "idle", mtime |-> 0, got |-> {}, held |-> {}]
        /\ UNCHANGED << file, now, mtimes, reused, exposed, calls >>
    BY <1>3 DEF Crash
  <2>2. build' \in Build /\ build'.at = "idle"
    BY <2>1, MemoryAssumption DEF Build, Times
  <2>3. \A c \in Writers : op'[c] = IdleOp
    BY <2>1
  <2>4. op' \in [Writers -> Op] /\ tmp' \in [Times -> SUBSET Version]
    BY <2>1, RestingFacts
  <2>5. faults' \in 0..MaxFaults
    BY <1>3, <1>b DEF Crash
  <2>6. Typed' /\ OneVersion'
    BY <1>3, <2>1, <2>2, <2>4, <2>5 DEF MInv, Typed, OneVersion, Single
  <2>7. Atomic' /\ \A c \in Writers : Keeps(c)'
    BY <1>3, <1>a, <2>1, <2>3, RestingFacts DEF Atomic, OwnFile, Filling, Keeps
  <2>8. CacheTrue' /\ BuildTrue'
    BY <1>3, <2>1, <2>2 DEF MInv, CacheTrue, BuildTrue, PromptFresh
  <2> QED  BY <2>6, <2>7, <2>8 DEF MInv
<1>4. ASSUME MInv, Tick PROVE MInv'
  <2>1. now' \in Times /\ UNCHANGED << file, tmp, op, cache, build, mtimes, reused, exposed, calls, faults >>
    BY <1>4, <1>a, MemoryAssumption DEF Tick, Times
  <2>2. Atomic' /\ \A c \in Writers : Keeps(c)'
    BY <1>4, <2>1 DEF MInv, Atomic, OwnFile, Filling, Keeps
  <2> QED  BY <1>4, <1>a, <2>1, <2>2, SameFile
<1> QED  BY <1>1, <1>2, <1>3, <1>4

-----------------------------------------------------------------------------
LEMMA MInvStep == MInv /\ [MemoryNext]_memoryVars => MInv'
<1> SUFFICES ASSUME MInv, [MemoryNext]_memoryVars PROVE MInv'
  OBVIOUS
<1>1. CASE UNCHANGED memoryVars
  <2>1. UNCHANGED << file, tmp, op, cache, build, now, mtimes, reused, exposed, calls, faults >>
    BY <1>1 DEF memoryVars, bounds, ghosts
  <2> QED  BY <2>1 DEF MInv, Typed, OneVersion, Single, Atomic, OwnFile, Filling, Keeps, CacheTrue,
              BuildTrue, PromptFresh, Contents, Heads
<1>2. CASE MemoryNext
  BY <1>2, StatsInv, ReadsInv, WorldInv, CommitInv, OpensInv, FillsInv, RenamesInv, DirectInv DEF MemoryNext
<1> QED  BY <1>1, <1>2

LEMMA MInvAlways == MemorySpec => []MInv
  BY MInitInv, MInvStep, PTL DEF MemorySpec

\* No reader finds half a file, also after a crash (store.ts atomicWrite), and
\* a prompt contains what the file held while it was built (prompt-builder.ts
\* readCached), as far as milliseconds can tell versions and temporary files
\* apart.
THEOREM MemoryIsHonest == MemorySpec => []MemoryHonest
<1>1. ASSUME MInv PROVE MemoryHonest
  <2>1. Typed /\ OneVersion /\ Atomic /\ BuildTrue
    BY <1>1 DEF MInv
  <2>2. Cardinality(file) <= 1 /\ Cardinality(cache) <= 1 /\ \A t \in Times : Cardinality(tmp[t]) <= 1
    BY <2>1, SingleCardinality DEF OneVersion
  <2>3. MemoryTypeOK
    BY <2>1, <2>2 DEF Typed, MemoryTypeOK
  <2> QED  BY <2>1, <2>3 DEF Atomic, BuildTrue, NeverHalf, MemoryHonest
<1> QED  BY <1>1, MInvAlways, PTL

\* A commit adds what it learned to a file that nobody has changed since it read
\* it, and takes nothing out (extractor.ts commit, store.ts appendToSection).
THEOREM AppendsKeep == MemorySpec => AppendKeeps
<1>1. ASSUME MInv, [MemoryNext]_memoryVars
      PROVE  [\A c \in Writers :
                /\ Renames(c) /\ op[c].append /\ op[c].current /\ ~exposed
                => (UNION Contents(file)) \cup op[c].fresh \subseteq UNION Contents(file')]_memoryVars
  <2>1. ASSUME NEW c \in Writers, Renames(c), op[c].append, op[c].current, ~exposed
        PROVE  (UNION Contents(file)) \cup op[c].fresh \subseteq UNION Contents(file')
    <3>1. /\ op[c].at = "renaming" /\ file' = tmp[op[c].time] /\ tmp[op[c].time] # {}
      BY <2>1 DEF Renames, Becomes, Busy
    <3>2. \A v \in file' : v.body = op[c].body
      BY <1>1, <2>1, <3>1 DEF MInv, Atomic, OwnFile
    <3>3. UNION Contents(file') = op[c].body
      BY <3>1, <3>2 DEF Contents
    <3>4. op[c].fresh \subseteq op[c].body /\ \A v \in file : v.body \subseteq op[c].body
      BY <1>1, <2>1, <3>1 DEF MInv, Keeps
    <3>5. UNION Contents(file) \subseteq op[c].body
      BY <3>4 DEF Contents
    <3> QED  BY <3>3, <3>4, <3>5
  <2> QED  BY <2>1
<1> QED  BY <1>1, MInvAlways, PTL DEF MemorySpec, AppendKeeps
=============================================================================
