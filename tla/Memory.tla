------------------------------- MODULE Memory -------------------------------
(***************************************************************************)
(* One AFICAX.md file: the store that writes it                            *)
(* (packages/server/src/memory/store.ts), for PUT /memory and for the      *)
(* commits of AutoMemoryExtractor (memory/extractor.ts), and the           *)
(* PromptBuilder (loop/prompt-builder.ts) that caches it for the prompts.  *)
(* The writers run at once in one process, with no lock.                   *)
(***************************************************************************)
EXTENDS Naturals, FiniteSets, FiniteSetsExt

CONSTANTS Writers,   \* the requests and commits in progress
          Bullets,   \* what is worth remembering
          Cap,       \* how much of a file the store's read returns, in bullets
          PromptCap, \* and how much the builder's does, which is more
          MaxTime,   \* bound: milliseconds
          MaxCalls,  \* bound: requests and commits
          MaxFaults  \* bound: edits, crashes, failed reads and renames

ASSUME MemoryAssumption ==
  /\ IsFiniteSet(Writers) /\ IsFiniteSet(Bullets)
  /\ Cap \in Nat /\ PromptCap \in Nat /\ Cap <= PromptCap
  /\ MaxTime \in Nat /\ MaxCalls \in Nat /\ MaxFaults \in Nat

Times == 0..MaxTime
Bodies == SUBSET Bullets

\* What a file holds: its bullets, when it was written, and whether all of
\* what its writer wanted is in it.
Version == [body : Bodies, mtime : Times, whole : BOOLEAN]

VARIABLES
  file,    \* AFICAX.md: a set of one version, or empty
  tmp,     \* millisecond -> the temporary file named for it, likewise
  op,      \* caller -> its operation
  cache,   \* the builder's cache: a set of one [mtime, body], or empty
  build,   \* the builder's current readCached
  now,     \* Date.now()
  mtimes,  \* history: the modification times the file has had
  reused,  \* history: those it has had more than once
  exposed, \* history: a rename has failed, or a temporary file has had two writers
  calls,   \* operations so far
  faults   \* faults so far

bounds == << calls, faults >>
ghosts == << mtimes, reused, exposed >>
memoryVars == << file, tmp, op, cache, build, now, ghosts, bounds >>

Op == [at : {"idle", "asking", "appending", "making", "filling", "renaming",
             "direct", "refilling"},
       body : Bodies,      \* what was read first, then what is to be written
       fresh : Bodies,     \* a commit's new bullets
       time : Times,       \* names its temporary file
       where : {"tmp", "file", "gone"},  \* what its descriptor leads to
       append : BOOLEAN,   \* a commit, not a PUT
       current : BOOLEAN]  \* history: the file is as it was last read

Build == [at : {"idle", "statted", "done"}, mtime : Times,
          got : SUBSET Bodies,            \* what the prompt gets of the file
          held : SUBSET (SUBSET Bodies)]  \* history: what it held meanwhile

MemoryTypeOK ==
  /\ file \in SUBSET Version /\ Cardinality(file) <= 1
  /\ \A t \in Times : tmp[t] \in SUBSET Version /\ Cardinality(tmp[t]) <= 1
  /\ op \in [Writers -> Op] /\ build \in Build
  /\ cache \in SUBSET [mtime : Times, body : Bodies] /\ Cardinality(cache) <= 1
  /\ now \in Times /\ mtimes \subseteq Times /\ reused \subseteq mtimes
  /\ exposed \in BOOLEAN /\ calls \in 0..MaxCalls /\ faults \in 0..MaxFaults

IdleOp == [at |-> "idle", body |-> {}, fresh |-> {}, time |-> 0, where |-> "tmp",
            append |-> FALSE, current |-> TRUE]

MemoryInit ==
  /\ \E b \in Bodies : file \in {{}, {[body |-> b, mtime |-> 0, whole |-> TRUE]}}
  /\ tmp = [t \in Times |-> {}] /\ op = [c \in Writers |-> IdleOp]
  /\ cache = {} /\ build = [at |-> "idle", mtime |-> 0, got |-> {}, held |-> {}]
  /\ now = 0 /\ mtimes = {v.mtime : v \in file} /\ reused = {} /\ exposed = FALSE
  /\ calls = 0 /\ faults = 0

Busy(c, at) == op[c].at = at
Contents(f) == {v.body : v \in f}
Whole(b) == [body |-> b, mtime |-> now, whole |-> TRUE]
Begun == [body |-> {}, mtime |-> now, whole |-> FALSE]  \* opened, and so emptied

\* What a read of at most so much returns of a file: its first bytes.
Heads(b, most) ==
  {h \in SUBSET b : IF Cardinality(b) <= most THEN h = b ELSE Cardinality(h) = most}

\* What the store's read may return.
Found == IF file = {} THEN {{}} ELSE UNION {Heads(v.body, Cap) : v \in file}

\* The file becomes f and the operations ops.
Becomes(f, ops) ==
  LET times == {v.mtime : v \in f} IN
  /\ file' = f
  /\ op' = [c \in Writers |-> [ops[c] EXCEPT !.current = FALSE]]
  /\ mtimes' = mtimes \cup times /\ reused' = reused \cup (times \cap mtimes)
  /\ build' = (IF build.at = "statted" THEN [build EXCEPT !.held = @ \cup {Contents(f)}]
               ELSE build)

Fault == faults < MaxFaults /\ faults' = faults + 1

(***************************************************************************)
(* AutoMemoryExtractor.commit, and PUT /memory.                            *)
(***************************************************************************)
\* The bullets the file already has, by its first bytes.
Commit(c) ==
  /\ Busy(c, "idle") /\ calls < MaxCalls /\ calls' = calls + 1
  /\ \E found \in Found :
       op' = [op EXCEPT ![c] = [IdleOp EXCEPT !.at = "asking", !.append = TRUE,
                                               !.body = found]]
  /\ UNCHANGED << file, tmp, cache, build, now, ghosts, faults >>

\* A file that cannot be read has none.
CommitMisreads(c) ==
  /\ Busy(c, "idle") /\ calls < MaxCalls /\ calls' = calls + 1
  /\ file # {} /\ Fault
  /\ op' = [op EXCEPT ![c] = [IdleOp EXCEPT !.at = "asking", !.append = TRUE]]
  /\ UNCHANGED << file, tmp, cache, build, now, ghosts >>

\* The model answers; what resembles a bullet of the file is dropped.
Asked(c, learned) ==
  /\ Busy(c, "asking")
  /\ op' = [op EXCEPT ![c].at = "appending", ![c].fresh = learned \ op[c].body]
  /\ UNCHANGED << file, tmp, cache, build, now, ghosts, bounds >>

\* A bug AppendReads could have: what was read before the model was asked is
\* what is appended to.
AppendToFound(c) ==
  /\ Busy(c, "appending")
  /\ op' = [op EXCEPT ![c].at = "making", ![c].body = @ \cup op[c].fresh,
                      ![c].current = \A v \in file : Cardinality(v.body) <= Cap]
  /\ UNCHANGED << file, tmp, cache, build, now, ghosts, bounds >>

\* appendToSection reads the file again.
AppendReads(c) ==
  /\ Busy(c, "appending")
  /\ \E found \in Found :
       op' = [op EXCEPT ![c].at = "making", ![c].body = found \cup op[c].fresh,
                        ![c].current = \A v \in file : Cardinality(v.body) <= Cap]
  /\ UNCHANGED << file, tmp, cache, build, now, ghosts, bounds >>

\* A read that fails is taken for an empty file.
AppendMisreads(c) ==
  /\ Busy(c, "appending") /\ file # {} /\ Fault
  /\ op' = [op EXCEPT ![c].at = "making", ![c].body = op[c].fresh, ![c].current = FALSE]
  /\ UNCHANGED << file, tmp, cache, build, now, ghosts, calls >>

Put(c, b) ==
  /\ Busy(c, "idle") /\ calls < MaxCalls /\ calls' = calls + 1
  /\ op' = [op EXCEPT ![c] = [IdleOp EXCEPT !.at = "making", !.body = b]]
  /\ UNCHANGED << file, tmp, cache, build, now, ghosts, faults >>

(***************************************************************************)
(* atomicWrite.                                                            *)
(***************************************************************************)
\* mkdir, and the temporary file of this millisecond is opened: the one that
\* is there is emptied.
Opens(c) ==
  /\ Busy(c, "making")
  /\ tmp' = [tmp EXCEPT ![now] = {Begun}]
  /\ op' = [op EXCEPT ![c].at = "filling", ![c].time = now, ![c].where = "tmp"]
  /\ exposed' = (exposed \/ tmp[now] # {})
  /\ UNCHANGED << file, cache, build, now, mtimes, reused, bounds >>

\* The content arrives where the descriptor leads to by now: over what a
\* second writer put there, or under it.
Fills(c) ==
  /\ Busy(c, "filling")
  /\ LET ops == [op EXCEPT ![c].at = "renaming"] IN
     \E w \in {TRUE, ~exposed} :
       LET new == {[Whole(op[c].body) EXCEPT !.whole = w]} IN
       \/ /\ op[c].where = "tmp" /\ tmp[op[c].time] # {}
          /\ tmp' = [tmp EXCEPT ![op[c].time] = new] /\ op' = ops
          /\ UNCHANGED << file, build, mtimes, reused >>
       \/ op[c].where = "file" /\ Becomes(new, ops) /\ UNCHANGED tmp
       \/ op[c].where = "gone" /\ op' = ops /\ UNCHANGED << file, tmp, build, mtimes, reused >>
  /\ UNCHANGED << cache, now, exposed, bounds >>

\* The descriptors once t has become the file: those of t lead to the file,
\* those of the file to what it was.
Moved(ops, t) ==
  [d \in Writers |->
     IF ops[d].at \notin {"filling", "refilling"} THEN ops[d]
     ELSE IF ops[d].where = "file" THEN [ops[d] EXCEPT !.where = "gone"]
     ELSE IF ops[d].where = "tmp" /\ ops[d].time = t THEN [ops[d] EXCEPT !.where = "file"]
     ELSE ops[d]]

Renames(c) ==
  LET t == op[c].time IN
  /\ Busy(c, "renaming") /\ tmp[t] # {}
  /\ tmp' = [tmp EXCEPT ![t] = {}]
  /\ Becomes(tmp[t], Moved([op EXCEPT ![c] = IdleOp], t))
  /\ UNCHANGED << cache, now, exposed, bounds >>

\* Another writer took the temporary file along, or the rename fails.
RenameFails(c) ==
  /\ Busy(c, "renaming")
  /\ (tmp[op[c].time] = {} /\ UNCHANGED faults) \/ Fault
  /\ exposed' = TRUE
  /\ op' = [op EXCEPT ![c].at = "direct"]
  /\ UNCHANGED << file, tmp, cache, build, now, mtimes, reused, calls >>

\* The fallback writes the file itself.
DirectOpens(c) ==
  /\ Busy(c, "direct")
  /\ Becomes({Begun}, [op EXCEPT ![c].at = "refilling", ![c].where = "file"])
  /\ UNCHANGED << tmp, cache, now, exposed, bounds >>

DirectFills(c) ==
  /\ Busy(c, "refilling")
  /\ LET ops == [op EXCEPT ![c] = IdleOp] IN
     IF op[c].where = "file" THEN Becomes({Whole(op[c].body)}, ops)
     ELSE op' = ops /\ UNCHANGED << file, build, mtimes, reused >>
  /\ UNCHANGED << tmp, cache, now, exposed, bounds >>

\* The model, mkdir or a write fails: the operation ends, what it did stays.
Fails(c) ==
  /\ ~Busy(c, "idle")
  /\ op' = [op EXCEPT ![c] = IdleOp]
  /\ UNCHANGED << file, tmp, cache, build, now, ghosts, bounds >>

(***************************************************************************)
(* PromptBuilder.readCached, once for every prompt.                        *)
(***************************************************************************)
\* A bug Stats could have: a file no newer than the cache is taken from it.
StatsNewer ==
  /\ build.at # "statted"
  /\ LET known == {e \in cache : \A v \in file : v.mtime <= e.mtime} IN
     build' = [at |-> IF file = {} \/ known # {} THEN "done" ELSE "statted",
               mtime |-> IF file = {} THEN 0 ELSE (CHOOSE v \in file : TRUE).mtime,
               got |-> IF file = {} THEN {} ELSE {e.body : e \in known},
               held |-> {Contents(file)}]
  /\ UNCHANGED << file, tmp, op, cache, now, ghosts, bounds >>

\* stat: no file, or the file the cache was filled from, and nothing is read.
Stats ==
  /\ build.at # "statted"
  /\ LET known == {e \in cache : \A v \in file : v.mtime = e.mtime} IN
     build' = [at |-> IF file = {} \/ known # {} THEN "done" ELSE "statted",
               mtime |-> IF file = {} THEN 0 ELSE (CHOOSE v \in file : TRUE).mtime,
               got |-> IF file = {} THEN {} ELSE {e.body : e \in known},
               held |-> {Contents(file)}]
  /\ UNCHANGED << file, tmp, op, cache, now, ghosts, bounds >>

\* readFile, of whatever the file is by now, kept under the time of the stat.
Reads ==
  /\ build.at = "statted"
  /\ \/ file = {} /\ build' = [build EXCEPT !.at = "done"] /\ UNCHANGED cache
     \/ \E v \in file : \E h \in Heads(v.body, PromptCap) :
          /\ build' = [build EXCEPT !.at = "done", !.got = {h}]
          /\ cache' = {[mtime |-> build.mtime, body |-> h]}
  /\ UNCHANGED << file, tmp, op, now, ghosts, bounds >>

(***************************************************************************)
(* The rest of the world.                                                  *)
(***************************************************************************)
\* Somebody edits the file, or deletes it.
Edit(b) ==
  /\ Fault /\ Becomes({Whole(b)}, op)
  /\ UNCHANGED << tmp, cache, now, exposed, calls >>

Deleted ==
  /\ file # {} /\ Fault
  /\ Becomes({}, [c \in Writers |->
                   IF op[c].where = "file" THEN [op[c] EXCEPT !.where = "gone"] ELSE op[c]])
  /\ UNCHANGED << tmp, cache, now, exposed, calls >>

\* The next process has other names for its temporary files.
Crash ==
  /\ Fault
  /\ op' = [c \in Writers |-> IdleOp] /\ tmp' = [t \in Times |-> {}]
  /\ cache' = {} /\ build' = [at |-> "idle", mtime |-> 0, got |-> {}, held |-> {}]
  /\ UNCHANGED << file, now, ghosts, calls >>

Tick ==
  /\ now < MaxTime /\ now' = now + 1
  /\ UNCHANGED << file, tmp, op, cache, build, ghosts, bounds >>

MemoryNext ==
  \/ Stats \/ Reads \/ Deleted \/ Crash \/ Tick
  \/ \E b \in Bodies : Edit(b)
  \/ \E c \in Writers :
       \/ Commit(c) \/ CommitMisreads(c) \/ AppendReads(c) \/ AppendMisreads(c)
       \/ Opens(c) \/ Fills(c) \/ Renames(c) \/ RenameFails(c) \/ DirectOpens(c) \/ DirectFills(c) \/ Fails(c)
       \/ \E b \in Bodies : Asked(c, b) \/ Put(c, b)

MemorySpec == MemoryInit /\ [][MemoryNext]_memoryVars
-----------------------------------------------------------------------------
\* A prompt contains what the file held at some moment of its building
\* (prompt-builder.ts:218-240), although a rename brings back an older
\* modification time and the cache may hold more than its key says; unless two
\* versions of the file have had the same time.
PromptFresh ==
  build.at = "done" =>
    \/ build.mtime \in reused
    \/ \E f \in build.held :
         \/ f = {} /\ build.got = {}
         \/ \E b \in f : \E h \in Heads(b, PromptCap) : build.got = {h}

\* The file is never half written, also after a crash (store.ts:108), unless
\* the fallback wrote it or two writers had one temporary file.
NeverHalf == exposed \/ \A v \in file : v.whole

\* What the store promises its readers and the builder its prompts: no half
\* written file, and text the file held while the prompt was built.
MemoryHonest == MemoryTypeOK /\ NeverHalf /\ PromptFresh

\* A commit takes nothing out of the file that nobody has changed since it
\* read it for the last time, and adds what it learned, whatever happened
\* while the model was thinking. Said of a file that a read returns in full, as
\* long as no rename has failed and no temporary file has had two writers.
AppendKeeps ==
  [][\A c \in Writers :
       /\ Renames(c) /\ op[c].append /\ op[c].current /\ ~exposed
       => (UNION Contents(file)) \cup op[c].fresh \subseteq UNION Contents(file')]_memoryVars
=============================================================================
