----------------------------- MODULE Providers -----------------------------
(***************************************************************************)
(* The model providers (packages/server/src/providers): the registry that  *)
(* shares one adapter per configuration, its scan for local model servers, *)
(* the routes over it (server.ts), and the streams the adapters make of    *)
(* the AI SDK's, up to the loop that reads them.                           *)
(*                                                                         *)
(* The four adapters read the SDK in the same way, so one action stands    *)
(* for each step of theirs. The SDK and the servers behind it are          *)
(* external: they send parts, end, fail and answer probes as they like.    *)
(***************************************************************************)
EXTENDS Naturals, Sequences, SequencesExt, FiniteSets

CONSTANTS Calls,       \* calls of a model by the loops
          Followed,    \* bound: those whose streams are followed
          Scans,       \* requests for the models of a local backend
          Types,       \* the provider types the sessions name
          Keyed,       \* those with an API key in the environment
          Parts,       \* the kinds of parts the SDK sends
          MaxParts,    \* bound: parts in one stream
          MaxAdapters  \* bound: adapters made

ASSUME ProvidersAssumption ==
  /\ Types \subseteq {"anthropic", "openai", "google", "mistral",
                      "ollama", "lmstudio", "custom"}
  /\ Keyed \subseteq Types /\ Followed \subseteq Calls
  /\ Parts \subseteq {"text", "tool", "error", "other"}
  /\ MaxParts \in Nat /\ MaxAdapters \in Nat

\* The ports scanned, and the backend expected behind each.
Ports == {"p11434", "p1234", "p11435"}
Backends == {"ollama", "lmstudio", "custom"}
BackendAt(port) == IF port = "p1234" THEN "lmstudio" ELSE "ollama"

\* A configuration: its type, where its base URL comes from (nowhere,
\* AFICAX_LOCAL_URL, a port that answered, a scan that found nothing), and
\* whether its model is the 'probe' of the route or the session's.
Bases == {"none", "env", "empty"} \cup Ports
Config(type, base, probe) == [type |-> type, base |-> base, probe |-> probe]

\* createAdapter: the class that serves a type.
ClassOf(type) == IF type \in {"anthropic", "google"} THEN type
                 ELSE IF type \in {"ollama", "lmstudio"} THEN "local" ELSE "openai"

\* The configuration a session's provider resolves to.
Resolved(type) == Config(type, IF type \in Backends THEN "env" ELSE "none", FALSE)

Key == {Resolved(t) : t \in Types}
         \cup {Config("custom", "env", TRUE)}
         \cup {Config(b, "empty", TRUE) : b \in Backends \ {"custom"}}
         \cup {Config(BackendAt(p), p, TRUE) : p \in Ports}

\* isAvailable() of the remote classes is false without a key; a local
\* adapter makes up a key.
RemoteMayAnswer(key) == key.type \in Keyed
MayAnswer(key) == ClassOf(key.type) = "local" \/ RemoteMayAnswer(key)

\* The parts of the SDK's stream and the chunk made of each.
Chunk == {"text", "tool", "error", "usage", "thrown"}
ChunkOf(part) == IF part = "other" THEN << >> ELSE << part >>
ChunksOf(parts) == FlattenSeq([i \in DOMAIN parts |-> ChunkOf(parts[i])])

VARIABLES
  cache,     \* key -> its adapter: a set of one serial number, or empty
  inFlight,  \* key -> the adapter whose verification is in flight, likewise
  made,      \* adapters made so far
  call,      \* call -> its stream
  scan,      \* scan -> its progress
  current,   \* history: key -> adapters made for it and not dropped
  failed     \* history: adapters whose verification failed

history == << current, failed >>
registryVars == << cache, inFlight, made, history >>
providersVars == << cache, inFlight, made, call, scan, current, failed >>

Serial == 1..MaxAdapters

Call == [at : {"idle", "verifying", "ready", "opening", "reading", "usage", "over"},
         key : SUBSET Key,                       \* what it waits to be verified
         sent : Seq(Parts),                      \* by the SDK
         read : 0..MaxParts,                     \* how many of them were read
         sdk : {"open", "ended", "failed"},
         usage : {"pending", "given", "none"},   \* the SDK's usage promise
         got : Seq(Chunk),                       \* what the loop has handled
         aborted : BOOLEAN]                      \* the run's signal

Scan == [at : {"idle", "probing", "listing", "over"},
         asked : SUBSET Ports,                   \* probes not settled
         out : [{"ollama", "lmstudio"} -> Ports \cup {"empty"}],
         answered : SUBSET Ports,                \* history: probes that succeeded
         models : {"none", "some"},              \* what the route answers
         from : Bases]

ProvidersTypeOK ==
  /\ \A k \in Key : cache[k] \subseteq Serial /\ Cardinality(cache[k]) <= 1
  /\ \A k \in Key : inFlight[k] \subseteq Serial /\ Cardinality(inFlight[k]) <= 1
  /\ made \in 0..MaxAdapters
  /\ call \in [Calls -> Call]
  /\ scan \in [Scans -> Scan]
  /\ failed \subseteq Serial

NoCall == [at |-> "idle", key |-> {}, sent |-> << >>, read |-> 0, sdk |-> "open",
           usage |-> "pending", got |-> << >>, aborted |-> FALSE]

NoScan == [at |-> "idle", asked |-> {},
           out |-> [b \in {"ollama", "lmstudio"} |-> "empty"],
           answered |-> {}, models |-> "none", from |-> "none"]

ProvidersInit ==
  /\ cache = [k \in Key |-> {}]
  /\ inFlight = [k \in Key |-> {}]
  /\ made = 0
  /\ call = [c \in Calls |-> NoCall]
  /\ scan = [s \in Scans |-> NoScan]
  /\ current = [k \in Key |-> 0]
  /\ failed = {}

----------------------------------------------------------------------------
\* The registry.

\* get(): the cached adapter of this key, or a new one, cached.
Get(k, got) ==
  /\ cache[k] = {} => made < MaxAdapters
  /\ got = IF cache[k] # {} THEN cache[k] ELSE {made + 1}
  /\ cache' = [cache EXCEPT ![k] = got]
  /\ made' = IF cache[k] = {} THEN made + 1 ELSE made
  /\ current' = IF cache[k] = {} THEN [current EXCEPT ![k] = @ + 1] ELSE current
  /\ UNCHANGED failed

Handed(k) == IF cache[k] # {} THEN cache[k] ELSE {made + 1}

\* resolveProvider(): a session's engine gets its adapter.
Take(c) ==
  /\ call[c].at = "idle"
  /\ \E t \in Types : LET k == Resolved(t) IN
       /\ Get(k, Handed(k))
       /\ call' = [call EXCEPT ![c].at = "ready"]
  /\ UNCHANGED << inFlight, scan >>

\* getVerified(): joins the verification of its key, or begins one.
Verify(c) ==
  /\ call[c].at = "idle"
  /\ \E t \in Types : LET k == Resolved(t) IN
       /\ IF inFlight[k] # {}
          THEN UNCHANGED registryVars
          ELSE /\ Get(k, Handed(k))
               /\ inFlight' = [inFlight EXCEPT ![k] = Handed(k)]
       /\ call' = [call EXCEPT ![c].at = "verifying", ![c].key = {k}]
  /\ UNCHANGED scan

\* isAvailable() has answered: an adapter that is not available is dropped
\* from the cache, and handed to those who wait all the same.
Probed(k, ok) ==
  /\ inFlight[k] # {}
  /\ ok => MayAnswer(k)
  /\ inFlight' = [inFlight EXCEPT ![k] = {}]
  /\ cache' = IF ok THEN cache ELSE [cache EXCEPT ![k] = {}]
  /\ current' = IF ok THEN current ELSE [current EXCEPT ![k] = @ - Cardinality(cache[k])]
  /\ failed' = IF ok THEN failed ELSE failed \cup inFlight[k]
  /\ call' = [c \in Calls |->
       IF k \in call[c].key
       THEN [call[c] EXCEPT !.at = "ready", !.key = {}] ELSE call[c]]
  /\ UNCHANGED << made, scan >>

\* clear().
Clear ==
  /\ cache' = [k \in Key |-> {}]
  /\ current' = [k \in Key |-> current[k] - Cardinality(cache[k])]
  /\ UNCHANGED << inFlight, made, failed, call, scan >>

----------------------------------------------------------------------------
\* A stream: the adapter's generator, the SDK under it, the loop above it.

Set(c, field, value) == [call EXCEPT ![c][field] = value]

\* streamText() builds the messages and the tool definitions, and calls the
\* SDK with the run's signal.
Open(c) ==
  /\ c \in Followed /\ call[c].at = "ready"
  /\ call' = Set(c, "at", "opening")
  /\ UNCHANGED << registryVars, scan >>

\* The loop's for-await handles a chunk unless the signal has aborted; then
\* it leaves, and the generator is closed.
Handle(c, chunks) == IF call[c].aborted THEN call[c].got ELSE call[c].got \o chunks

\* The SDK's call succeeds.
Accepted(c) ==
  /\ call[c].at = "opening"
  /\ call' = Set(c, "at", "reading")
  /\ UNCHANGED << registryVars, scan >>

\* The SDK's call throws: one error chunk, and the stream is over.
Rejected(c) ==
  /\ call[c].at = "opening"
  /\ call' = [call EXCEPT ![c].at = "over", ![c].sdk = "failed",
                          ![c].got = Handle(c, << "thrown" >>)]
  /\ UNCHANGED << registryVars, scan >>

\* A bug Read could have: it passes on the newest part, not the next.
ReadNewest(c) ==
  /\ call[c].at = "reading" /\ call[c].read < Len(call[c].sent)
  /\ LET part == call[c].sent[Len(call[c].sent)] IN
     call' = IF call[c].aborted /\ ChunkOf(part) # << >>
             THEN Set(c, "at", "over")
             ELSE [call EXCEPT ![c].read = @ + 1, ![c].got = Handle(c, ChunkOf(part))]
  /\ UNCHANGED << registryVars, scan >>

\* The next part of fullStream, mapped, passed on and handled.
Read(c) ==
  /\ call[c].at = "reading" /\ call[c].read < Len(call[c].sent)
  /\ LET part == call[c].sent[call[c].read + 1] IN
     call' = IF call[c].aborted /\ ChunkOf(part) # << >>
             THEN Set(c, "at", "over")
             ELSE [call EXCEPT ![c].read = @ + 1, ![c].got = Handle(c, ChunkOf(part))]
  /\ UNCHANGED << registryVars, scan >>

\* fullStream is at its end: the adapter awaits the usage.
Drained(c) ==
  /\ call[c].at = "reading" /\ call[c].sdk = "ended"
  /\ call[c].read = Len(call[c].sent)
  /\ call' = Set(c, "at", "usage")
  /\ UNCHANGED << registryVars, scan >>

\* A bug Breaks could have: the throw that an abort causes is swallowed.
BreaksUnlessAborted(c) ==
  /\ call[c].at = "reading" /\ call[c].sdk = "failed" /\ ~call[c].aborted
  /\ call' = [call EXCEPT ![c].at = "over", ![c].got = Handle(c, << "thrown" >>)]
  /\ UNCHANGED << registryVars, scan >>

\* fullStream throws, whatever of it was not read: an error chunk ends the
\* stream. LocalAdapter's catch sees none of this.
Breaks(c) ==
  /\ call[c].at = "reading" /\ call[c].sdk = "failed"
  /\ call' = [call EXCEPT ![c].at = "over", ![c].got = Handle(c, << "thrown" >>)]
  /\ UNCHANGED << registryVars, scan >>

\* The usage promise has settled; one that rejects, or gives nothing, is
\* passed over.
Usage(c) ==
  /\ call[c].at = "usage" /\ call[c].usage # "pending"
  /\ call' = [call EXCEPT ![c].at = "over",
       ![c].got = Handle(c, IF call[c].usage = "given" THEN << "usage" >> ELSE << >>)]
  /\ UNCHANGED << registryVars, scan >>

\* The run is aborted, by the client or with its session.
Abort(c) ==
  /\ call[c].at \in {"opening", "reading", "usage"} /\ ~call[c].aborted
  /\ call' = Set(c, "aborted", TRUE)
  /\ UNCHANGED << registryVars, scan >>

\* The SDK sends a part, ends, fails, and settles its usage promise. It may
\* do so before the adapter reads any of it.
Sends(c) ==
  /\ call[c].at = "reading" /\ call[c].sdk = "open" /\ Len(call[c].sent) < MaxParts
  /\ \E part \in Parts : call' = Set(c, "sent", Append(call[c].sent, part))
  /\ UNCHANGED << registryVars, scan >>

Ends(c) ==
  /\ call[c].at = "reading" /\ call[c].sdk = "open"
  /\ \E end \in {"ended", "failed"} : call' = Set(c, "sdk", end)
  /\ UNCHANGED << registryVars, scan >>

Settles(c) ==
  /\ call[c].at \in {"reading", "usage"} /\ call[c].sdk = "ended"
  /\ call[c].usage = "pending"
  /\ \E how \in {"given", "none"} : call' = Set(c, "usage", how)
  /\ UNCHANGED << registryVars, scan >>

----------------------------------------------------------------------------
\* The routes over the local backends.

\* GET /providers/local/models: the three ports are probed at once.
Detect(s) ==
  /\ scan[s].at = "idle"
  /\ scan' = [scan EXCEPT ![s].at = "probing", ![s].asked = Ports]
  /\ UNCHANGED << registryVars, call >>

\* A bug Answers could have: every probe writes its result over the others'.
AnswersLast(s, port, ok) ==
  /\ scan[s].at = "probing" /\ port \in scan[s].asked
  /\ LET b == BackendAt(port) IN
     scan' = [scan EXCEPT ![s].asked = @ \ {port},
       ![s].answered = IF ok THEN @ \cup {port} ELSE @,
       ![s].out[b] = IF ok THEN port ELSE "empty"]
  /\ UNCHANGED << registryVars, call >>

\* A probe settles, within 1.5 s. Of the ports of one backend the first to
\* answer is reported.
Answers(s, port, ok) ==
  /\ scan[s].at = "probing" /\ port \in scan[s].asked
  /\ LET b == BackendAt(port) IN
     scan' = [scan EXCEPT ![s].asked = @ \ {port},
       ![s].answered = IF ok THEN @ \cup {port} ELSE @,
       ![s].out[b] = IF ok /\ @ = "empty" THEN port ELSE @]
  /\ UNCHANGED << registryVars, call >>

\* detectLocal() returns, and the route gets the adapter it will ask. An
\* address never found is '', which is not nullish, so AFICAX_LOCAL_URL does
\* not take its place.
Asks(s) ==
  /\ scan[s].at = "probing" /\ scan[s].asked = {}
  /\ \E b \in Backends :
       LET base == IF b = "custom" THEN "env" ELSE scan[s].out[b]
       IN /\ Get(Config(b, base, TRUE), Handed(Config(b, base, TRUE)))
          /\ scan' = [scan EXCEPT ![s].at = "listing", ![s].from = base]
  /\ UNCHANGED << inFlight, call >>

\* listLocalModels(): only a LocalAdapter has it, which 'custom' does not get,
\* and only one with an address reaches a server; whatever fails is an empty
\* list.
ModelsListed(s) ==
  /\ scan[s].at = "listing"
  /\ \E models \in {"none", "some"} :
       /\ models = "some" => scan[s].from \in Ports
       /\ scan' = [scan EXCEPT ![s].at = "over", ![s].models = models]
  /\ UNCHANGED << registryVars, call >>

----------------------------------------------------------------------------
ProvidersNext ==
  \/ \E c \in Calls :
       \/ Take(c) \/ Verify(c) \/ Open(c) \/ Accepted(c) \/ Rejected(c)
       \/ Read(c) \/ Drained(c) \/ Breaks(c) \/ Usage(c) \/ Abort(c)
       \/ Sends(c) \/ Ends(c) \/ Settles(c)
  \/ \E k \in Key, ok \in BOOLEAN : Probed(k, ok)
  \/ Clear
  \/ \E s \in Scans :
       \/ Detect(s) \/ Asks(s) \/ ModelsListed(s)
       \/ \E port \in Ports, ok \in BOOLEAN : Answers(s, port, ok)

\* The event loop runs what is ready. The SDK is held to two things: it honours
\* the abort signal, and it settles the usage of a stream that has ended. A
\* provider that stalls may stall for ever: the code sets no time limit.
Reads(c) == Read(c) \/ Drained(c) \/ Breaks(c) \/ Usage(c) \/ Settles(c)
Honours(c) == call[c].aborted /\ (Ends(c) \/ Rejected(c))

Fairness == \A c \in Followed : WF_providersVars(Reads(c)) /\ WF_providersVars(Honours(c))

ProvidersSpec == ProvidersInit /\ [][ProvidersNext]_providersVars /\ Fairness

----------------------------------------------------------------------------
\* The cache holds the one adapter of a key that was made and not dropped,
\* and never one whose verification failed, however verifications, plain
\* get()s and clear()s overlap.
OnePerKey ==
  \A k \in Key : /\ current[k] = Cardinality(cache[k])
                 /\ cache[k] \cap failed = {}

\* A scan that is over reports for each backend a port that answered, if one
\* did; the models a route lists come from such a port.
DetectHonest ==
  \A s \in Scans : scan[s].at \in {"listing", "over"} =>
    /\ \A b \in {"ollama", "lmstudio"} :
         LET up == {p \in scan[s].answered : BackendAt(p) = b}
         IN IF up = {} THEN scan[s].out[b] = "empty" ELSE scan[s].out[b] \in up
    /\ scan[s].models = "some" => scan[s].from \in scan[s].answered

\* The registry: who shares an adapter, and what the scans report.
RegistryHonest == ProvidersTypeOK /\ OnePerKey /\ DetectHonest

\* The loop handles what the SDK sent, in order and once: after it at most
\* one usage, when all was read and the SDK had ended, or one error, when the
\* SDK threw. Nothing is handled once the run is aborted.
StreamHonest ==
  [][\A c \in Calls :
       LET had == call[c].got
           has == call'[c].got
           sent == ChunksOf(SubSeq(call'[c].sent, 1, call'[c].read))
       IN /\ call[c].aborted => has = had
          /\ \/ has = sent
             \/ has = sent \o << "usage" >> /\ call'[c].sdk = "ended"
                  /\ call'[c].read = Len(call'[c].sent)
             \/ has = sent \o << "thrown" >> /\ call'[c].sdk = "failed"
          /\ call'[c].at = "usage" => has = ChunksOf(call'[c].sent) \/ call'[c].aborted
    ]_providersVars

\* A call of the model that was aborted, or whose stream ended or failed, is
\* over in the end: the loop is never left waiting.
EveryStreamEnds ==
  \A c \in Followed :
    call[c].aborted \/ call[c].sdk # "open" ~> call[c].at = "over"
=============================================================================
