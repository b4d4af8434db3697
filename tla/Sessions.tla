------------------------------ MODULE Sessions ------------------------------
(***************************************************************************)
(* Sessions: the manager's in-memory cache (server/src/session/manager.ts) *)
(* in front of SQLite (storage/sessions.ts, storage/messages.ts), the      *)
(* JSONL transcript (storage/transcripts.ts) and the routes that read and  *)
(* change them (server.ts). Database calls are synchronous; a handler is   *)
(* interrupted where it awaits the request's body or the transcript file,  *)
(* and no lock keeps two messages to one session apart.                    *)
(*                                                                         *)
(* A message is one POST /sessions/:id/message, identified with the row it *)
(* inserts. Its timestamp is taken in the step that inserts the row, so    *)
(* the order of the rows by timestamp is the order of insertion (the clock *)
(* does not go back; rows of one millisecond keep theirs). A title is the  *)
(* message it was derived from.                                            *)
(***************************************************************************)
EXTENDS Naturals, Sequences

CONSTANTS
    Sessions,
    Messages,
    SessionOf,      \* the session each message is posted to
    MaxRestarts,    \* bound: how often the server process dies
    FaultyIO,       \* may an append to the transcript fail?
    NoTitle, NotCached

ASSUME MessageAssumption ==
    /\ SessionOf \in [Messages -> Sessions]
    /\ MaxRestarts \in Nat
    /\ FaultyIO \in BOOLEAN
    /\ NoTitle \notin Messages

Title == Messages \cup {NoTitle}

(* The parts of a Session that its handlers tell apart.                    *)
Session == [messages : Seq(Messages), title : Title]
NewSession == [messages |-> <<>>, title |-> NoTitle]

ASSUME CacheAssumption == NotCached \notin Session

VARIABLES
    created,     \* ids handed out by POST /sessions
    rows,        \* sessions with a row in SQLite,
    title,       \* its title column,
    stored,      \* and the session's message rows, by timestamp
    transcript,  \* messages in each session's JSONL file
    cache,       \* SessionManager.cache
    post,        \* where the handler of each message is
    current,     \* the session addMessage read before it awaited
    given,       \* the history each message's loop was given
    restarts,
    \* History:
    disturbed,   \* sessions with an add that overlapped another, failed,
                 \* or was crossed by a crash,
    removed,     \* the message rows that each session's deletion removed,
    crossed,     \* sessions deleted while an add of theirs was awaiting,
    cut          \* sessions whose deletion the process died in

database == <<rows, title, stored>>
past == <<disturbed, removed, crossed, cut>>
vars == <<created, rows, title, stored, transcript, cache, post, current,
          given, restarts, disturbed, removed, crossed, cut>>

Stage == {"idle", "reading", "adding", "running", "failed", "lost"}

TypeOK ==
    /\ created \subseteq Sessions
    /\ rows \subseteq Sessions
    /\ title \in [Sessions -> Title]
    /\ stored \in [Sessions -> Seq(Messages)]
    /\ transcript \in [Sessions -> SUBSET Messages]
    /\ cache \in [Sessions -> Session \cup {NotCached}]
    /\ post \in [Messages -> Stage]
    /\ current \in [Messages -> Session]
    /\ given \in [Messages -> Seq(Messages)]
    /\ restarts \in 0..MaxRestarts
    /\ removed \in [Sessions -> Seq(Messages)]
    /\ disturbed \subseteq Sessions /\ crossed \subseteq Sessions /\ cut \subseteq Sessions

Init ==
    /\ created = {}
    /\ rows = {}
    /\ title = [s \in Sessions |-> NoTitle]
    /\ stored = [s \in Sessions |-> <<>>]
    /\ transcript = [s \in Sessions |-> {}]
    /\ cache = [s \in Sessions |-> NotCached]
    /\ post = [m \in Messages |-> "idle"]
    /\ current = [m \in Messages |-> NewSession]
    /\ given = [m \in Messages |-> <<>>]
    /\ restarts = 0
    /\ removed = [s \in Sessions |-> <<>>]
    /\ disturbed = {} /\ crossed = {} /\ cut = {}

Adding(s) == {m \in Messages : SessionOf[m] = s /\ post[m] = "adding"}

-----------------------------------------------------------------------------
(* SessionManager                                                          *)

Hydrate(s) == [messages |-> stored[s], title |-> title[s]]

(* has(), and whether get() finds the session                              *)
Has(s) == cache[s] # NotCached \/ s \in rows

(* What get() returns. It leaves the session in the cache.                 *)
Get(s) == IF cache[s] # NotCached THEN cache[s] ELSE Hydrate(s)
Warm(s) == cache' = [cache EXCEPT ![s] = Get(s)]

(* POST /sessions: create()                                                *)
Create(s) ==
    /\ s \notin created
    /\ created' = created \cup {s}
    /\ rows' = rows \cup {s}
    /\ cache' = [cache EXCEPT ![s] = NewSession]
    /\ UNCHANGED <<title, stored, transcript, post, current, given, restarts, past>>

(* GET /sessions/:id                                                       *)
Show(s) ==
    /\ Has(s)
    /\ Warm(s)
    /\ UNCHANGED <<created, database, transcript, post, current, given, restarts, past>>

(* A bug update() could have: storage's session, which has no messages, is *)
(* cached as it is.                                                        *)
UpdatedRow(s) == [messages |-> <<>>, title |-> title[s]]

(* update() caches the row's fields and the messages it had.               *)
Updated(s) == [messages |-> Get(s).messages, title |-> title[s]]

(* POST /sessions/:id/resume; it throws when the row is gone.              *)
Resume(s) ==
    /\ Has(s)
    /\ s \in rows
    /\ cache' = [cache EXCEPT ![s] = Updated(s)]
    /\ UNCHANGED <<created, database, transcript, post, current, given, restarts, past>>

(* DELETE /sessions/:id: the messages' rows, the session's row and the     *)
(* cache entry go, the transcript stays.                                   *)
Delete(s) ==
    /\ Has(s)
    /\ rows' = rows \ {s}
    /\ title' = [title EXCEPT ![s] = NoTitle]
    /\ stored' = [stored EXCEPT ![s] = <<>>]
    /\ cache' = [cache EXCEPT ![s] = NotCached]
    /\ removed' = IF s \in rows THEN [removed EXCEPT ![s] = stored[s]] ELSE removed
    /\ crossed' = IF Adding(s) # {} THEN crossed \cup {s} ELSE crossed
    /\ UNCHANGED <<created, transcript, post, current, given, restarts, disturbed, cut>>

-----------------------------------------------------------------------------
(* POST /sessions/:id/message                                              *)

(* The handler reads the session, whose messages the loop will be given,   *)
(* and awaits the body.                                                    *)
Post(m) ==
    LET s == SessionOf[m]
    IN /\ post[m] = "idle"
       /\ IF Has(s)
          THEN /\ Warm(s)
               /\ post' = [post EXCEPT ![m] = "reading"]
               /\ given' = [given EXCEPT ![m] = Get(s).messages]
          ELSE /\ post' = [post EXCEPT ![m] = "failed"]
               /\ UNCHANGED <<cache, given>>
       /\ UNCHANGED <<created, database, transcript, current, restarts, past>>

(* The body is not JSON, or addMessage throws: the session is gone from    *)
(* the cache and the database, or its row is gone and the foreign key of   *)
(* the message fails.                                                      *)
Refuse(m) ==
    /\ post[m] = "reading"
    /\ post' = [post EXCEPT ![m] = "failed"]
    /\ UNCHANGED <<created, database, transcript, cache, current, given, restarts, past>>

(* addMessage up to its await: the row is inserted.                        *)
AddMessage(m) ==
    LET s == SessionOf[m]
    IN /\ post[m] = "reading"
       /\ s \in rows
       /\ Warm(s)
       /\ current' = [current EXCEPT ![m] = Get(s)]
       /\ stored' = [stored EXCEPT ![s] = Append(@, m)]
       /\ post' = [post EXCEPT ![m] = "adding"]
       /\ disturbed' = IF Adding(s) # {} THEN disturbed \cup {s} ELSE disturbed
       /\ UNCHANGED <<created, rows, title, transcript, given, restarts, removed, crossed, cut>>

(* The first user message gives the session its title.                     *)
TitleAfter(m) == IF current[m].title = NoTitle THEN m ELSE current[m].title

(* A bug Merged could have: the message is added to what the cache holds   *)
(* by now, in the order in which the appends complete.                     *)
MergedLatest(m) ==
    [messages |-> Append(Get(SessionOf[m]).messages, m), title |-> TitleAfter(m)]

(* ... to the session it read before it awaited.                           *)
Merged(m) == [messages |-> Append(current[m].messages, m), title |-> TitleAfter(m)]

(* A bug HistoryFor could have: the loop, which adds the user's message    *)
(* itself, is given what addMessage returned.                              *)
HistoryAfter(m) == Merged(m).messages

(* The loop is given what the session held when the request arrived.       *)
HistoryFor(m) == given[m]

(* The transcript is written, the title and the cache entry set, whatever  *)
(* has become of them in the meantime, and the loop starts.                *)
Added(m) ==
    LET s == SessionOf[m]
    IN /\ post[m] = "adding"
       /\ transcript' = [transcript EXCEPT ![s] = @ \cup {m}]
       /\ title' = IF s \in rows /\ current[m].title = NoTitle
                   THEN [title EXCEPT ![s] = m] ELSE title
       /\ cache' = [cache EXCEPT ![s] = Merged(m)]
       /\ post' = [post EXCEPT ![m] = "running"]
       /\ given' = [given EXCEPT ![m] = HistoryFor(m)]
       /\ UNCHANGED <<created, rows, stored, current, restarts, past>>

(* The append rejects: the request fails, the row stays.                   *)
AddFails(m) ==
    /\ FaultyIO
    /\ post[m] = "adding"
    /\ post' = [post EXCEPT ![m] = "failed"]
    /\ disturbed' = disturbed \cup {SessionOf[m]}
    /\ UNCHANGED <<created, database, transcript, cache, current, given, restarts,
                   removed, crossed, cut>>

-----------------------------------------------------------------------------
(* The process dies and is started again: the database and the files stay. *)
Die ==
    /\ restarts < MaxRestarts
    /\ restarts' = restarts + 1
    /\ cache' = [s \in Sessions |-> NotCached]
    /\ post' = [m \in Messages |->
                  IF post[m] \in {"reading", "adding", "running"} THEN "lost" ELSE post[m]]
    /\ disturbed' = disturbed \cup {s \in Sessions : Adding(s) # {}}
    /\ UNCHANGED <<created, rows, title, transcript, current, given, removed, crossed>>

Restart == Die /\ UNCHANGED <<stored, cut>>

(* delete() runs three statements, each committed by itself: the process   *)
(* dies after the first or the second, with the messages gone and the      *)
(* session's row, and its title, left.                                     *)
DeleteDies(s) ==
    /\ s \in rows
    /\ Die
    /\ stored' = [stored EXCEPT ![s] = <<>>]
    /\ cut' = cut \cup {s}

Next ==
    \/ \E s \in Sessions : Create(s) \/ Show(s) \/ Resume(s) \/ Delete(s) \/ DeleteDies(s)
    \/ \E m \in Messages : Post(m) \/ Refuse(m) \/ AddMessage(m) \/ Added(m) \/ AddFails(m)
    \/ Restart

Spec == Init /\ [][Next]_vars

-----------------------------------------------------------------------------
(* a comes before b in the rows r; q shows rows of r, in their order.      *)
Before(r, a, b) == \E j, k \in DOMAIN r : j < k /\ r[j] = a /\ r[k] = b

Shows(r, q) ==
    /\ \A j \in DOMAIN q : \E k \in DOMAIN r : r[k] = q[j]
    /\ \A j, k \in DOMAIN q : j < k => Before(r, q[j], q[k])

(* No message row outlives its session's row, which the next hydration of  *)
(* that id would bring back, not even if the process dies in delete().     *)
NoOrphanRows == \A s \in Sessions \ rows : stored[s] = <<>>

(* However adds, failures, deletes and restarts interleave, the cache      *)
(* shows no message the database does not have, and shows them in the      *)
(* database's order, so that a restart never reorders a conversation. Of a *)
(* deleted session it shows nothing, unless an add was awaiting when the   *)
(* session was deleted: that add caches it again, and what is served then  *)
(* are messages the database had when they were deleted, in its order.     *)
CacheInOrder ==
    \A s \in Sessions : cache[s] # NotCached =>
        IF s \in rows THEN Shows(stored[s], cache[s].messages)
        ELSE s \in crossed /\ Shows(removed[s], cache[s].messages)

(* Cache and database agree as far as overlapping adds let them: types,    *)
(* no row of a deleted session, nothing cached that is not stored or was   *)
(* not when its session was deleted under an add, nothing out of order.    *)
CacheTrue == TypeOK /\ NoOrphanRows /\ CacheInOrder

(* The loop, which adds the user's message to its history itself, is given *)
(* only messages stored before that one: the model sees the user's message *)
(* exactly once, and none that came later.                                 *)
HistoryIsPast ==
    \A m \in Messages : post[m] = "running" /\ SessionOf[m] \in rows =>
        \A j \in DOMAIN given[m] : Before(stored[SessionOf[m]], given[m][j], m)

(* As long as a session's messages are added one at a time, without        *)
(* failure, what the cache serves is what a restart would hydrate, and the *)
(* title is that of the first message. A deletion that the process died in *)
(* does not change the former; it leaves the title of messages that are    *)
(* gone, which those added later never replace.                            *)
ServedAsStored ==
    \A s \in rows \ disturbed :
        Adding(s) = {} =>
            /\ cache[s] # NotCached => cache[s] = Hydrate(s)
            /\ s \notin cut /\ stored[s] # <<>> => title[s] = Head(stored[s])

-----------------------------------------------------------------------------
(* "In-memory cache (source of truth = SQLite)" (manager.ts): between adds *)
(* the cache holds every message the database holds.                       *)
CacheIsComplete ==
    \A s \in rows : cache[s] # NotCached /\ Adding(s) = {} =>
        \A k \in DOMAIN stored[s] :
            \E j \in DOMAIN cache[s].messages : cache[s].messages[j] = stored[s][k]

(* "Forget a session. Removes it from cache and deletes the DB row"        *)
(* (manager.ts, delete): a deleted session is not served again.            *)
DeletedIsForgotten == \A s \in created \ rows : cache[s] = NotCached
=============================================================================
