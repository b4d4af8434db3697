--------------------------- MODULE SessionsProofs ---------------------------
(* What the cache serves and what the loop is given agree with the order of *)
(* the database, for any sessions, messages, overlap, failures and restarts. *)
EXTENDS Sessions, TLAPS

(* In the rows r, message a comes before b; the messages of q are rows of  *)
(* r, in the order of the rows.                                            *)
Precedes(r, a, b) == \E j, k \in DOMAIN r : j < k /\ r[j] = a /\ r[k] = b
IsRow(r, a) == \E k \in DOMAIN r : r[k] = a
InOrder(r, q) ==
    /\ \A j \in DOMAIN q : IsRow(r, q[j])
    /\ \A j, k \in DOMAIN q : j < k => Precedes(r, q[j], q[k])

(* An id that was never handed out has left no trace: a session that is    *)
(* created starts with nothing, and its rows, once deleted, never return.  *)
Fresh ==
    /\ rows \subseteq created
    /\ \A s \in Sessions \ created :
          /\ cache[s] = NotCached
          /\ \A m \in Messages : SessionOf[m] = s => post[m] \in {"idle", "failed"}

CachedInOrder == \A s \in rows : cache[s] # NotCached => InOrder(stored[s], cache[s].messages)

(* What an add that awaits will put into the cache.                        *)
AwaitedInOrder ==
    \A m \in Messages : post[m] = "adding" /\ SessionOf[m] \in rows =>
        InOrder(stored[SessionOf[m]], Append(current[m].messages, m))

(* What the loop will be given: rows already, before the message is one.   *)
GivenIsPast ==
    \A m \in Messages : SessionOf[m] \in rows =>
        /\ post[m] = "reading" =>
              \A j \in DOMAIN given[m] : IsRow(stored[SessionOf[m]], given[m][j])
        /\ post[m] \in {"adding", "running"} =>
              \A j \in DOMAIN given[m] : Precedes(stored[SessionOf[m]], given[m][j], m)

IInv ==
    /\ TypeOK
    /\ Fresh
    /\ NoOrphanRows
    /\ CachedInOrder
    /\ AwaitedInOrder
    /\ GivenIsPast

-----------------------------------------------------------------------------
(* Sequences                                                               *)
LEMMA AppendProperties ==
    ASSUME NEW T, NEW q \in Seq(T), NEW e \in T
    PROVE  /\ Append(q, e) \in Seq(T)
           /\ Len(Append(q, e)) = Len(q) + 1
           /\ DOMAIN Append(q, e) = 1..(Len(q) + 1)
           /\ DOMAIN q = 1..Len(q)
           /\ Len(q) \in Nat
           /\ \A j \in 1..Len(q) : Append(q, e)[j] = q[j]
           /\ Append(q, e)[Len(q) + 1] = e
OBVIOUS

LEMMA SessionShape ==
    /\ NewSession \in Session
    /\ \A x \in Session : x.messages \in Seq(Messages) /\ x.title \in Title
BY DEF Session, NewSession, Title

(* Every session that is read is one.                                      *)
LEMMA GetType ==
    ASSUME TypeOK, NEW s \in Sessions
    PROVE  /\ Hydrate(s) \in Session
           /\ Get(s) \in Session
           /\ Updated(s) \in Session
           /\ Warm(s) => cache' \in [Sessions -> Session \cup {NotCached}]
<1>1. stored[s] \in Seq(Messages) /\ title[s] \in Title /\ cache[s] \in Session \cup {NotCached}
  BY DEF TypeOK
<1>2. Hydrate(s) \in Session
  BY <1>1 DEF Hydrate, Session
<1>3. Get(s) \in Session
  BY <1>1, <1>2 DEF Get
<1>4. Updated(s) \in Session
  BY <1>1, <1>3, SessionShape DEF Updated, Session
<1>5. Warm(s) => cache' \in [Sessions -> Session \cup {NotCached}]
  BY <1>3 DEF Warm, TypeOK
<1>6. QED
  BY <1>2, <1>3, <1>4, <1>5

LEMMA MergedType ==
    ASSUME TypeOK, NEW m \in Messages
    PROVE  Merged(m) \in Session
<1>1. current[m].messages \in Seq(Messages) /\ current[m].title \in Title
  BY SessionShape DEF TypeOK
<1>2. Append(current[m].messages, m) \in Seq(Messages)
  BY <1>1
<1>3. TitleAfter(m) \in Title
  BY <1>1 DEF TitleAfter, Title
<1>4. QED
  BY <1>2, <1>3 DEF Merged, Session

-----------------------------------------------------------------------------
LEMMA InitIInv == Init => IInv
<1> SUFFICES ASSUME Init PROVE IInv
  OBVIOUS
<1>1. TypeOK
  BY MessageAssumption, SessionShape DEF Init, TypeOK, Title, Stage
<1>2. Fresh /\ NoOrphanRows /\ CachedInOrder /\ AwaitedInOrder /\ GivenIsPast
  BY DEF Init, Fresh, NoOrphanRows, CachedInOrder, AwaitedInOrder, GivenIsPast
<1>3. QED
  BY <1>1, <1>2 DEF IInv

LEMMA TypeStep == TypeOK /\ [Next]_vars => TypeOK'
<1> SUFFICES ASSUME TypeOK, [Next]_vars PROVE TypeOK'
  OBVIOUS
<1> USE DEF past
<1>1. ASSUME NEW s \in Sessions, Create(s) PROVE TypeOK'
  BY <1>1, SessionShape DEF TypeOK, Create
<1>2. ASSUME NEW s \in Sessions, Show(s) PROVE TypeOK'
  BY <1>2, GetType DEF TypeOK, Show, database
<1>3. ASSUME NEW s \in Sessions, Resume(s) PROVE TypeOK'
  <2>1. cache' \in [Sessions -> Session \cup {NotCached}]
    BY <1>3, GetType DEF TypeOK, Resume
  <2>2. QED
    BY <1>3, <2>1 DEF TypeOK, Resume, database
<1>4. ASSUME NEW s \in Sessions, Delete(s) PROVE TypeOK'
  BY <1>4 DEF TypeOK, Delete, Title
<1>5. ASSUME NEW m \in Messages, Post(m) PROVE TypeOK'
  <2>1. SessionOf[m] \in Sessions
    BY MessageAssumption
  <2>2. Get(SessionOf[m]).messages \in Seq(Messages)
    BY <2>1, GetType, SessionShape
  <2>3. CASE Has(SessionOf[m])
    BY <1>5, <2>1, <2>2, <2>3, GetType DEF TypeOK, Post, database, Stage
  <2>4. CASE ~Has(SessionOf[m])
    BY <1>5, <2>4 DEF TypeOK, Post, database, Stage
  <2>5. QED
    BY <2>3, <2>4
<1>6. ASSUME NEW m \in Messages, Refuse(m) PROVE TypeOK'
  BY <1>6 DEF TypeOK, Refuse, database, Stage
<1>7. ASSUME NEW m \in Messages, AddMessage(m) PROVE TypeOK'
  <2>1. SessionOf[m] \in Sessions
    BY MessageAssumption
  <2>2. Append(stored[SessionOf[m]], m) \in Seq(Messages)
    BY <2>1 DEF TypeOK
  <2>3. Get(SessionOf[m]) \in Session /\ cache' \in [Sessions -> Session \cup {NotCached}]
    BY <1>7, <2>1, GetType DEF AddMessage
  <2>4. QED
    BY <1>7, <2>1, <2>2, <2>3 DEF TypeOK, AddMessage, Stage
<1>8. ASSUME NEW m \in Messages, Added(m) PROVE TypeOK'
  <2>1. SessionOf[m] \in Sessions
    BY MessageAssumption
  <2>2. Merged(m) \in Session
    BY MergedType
  <2>3. /\ transcript' \in [Sessions -> SUBSET Messages]
        /\ title' \in [Sessions -> Title]
        /\ cache' \in [Sessions -> Session \cup {NotCached}]
    BY <1>8, <2>1, <2>2 DEF TypeOK, Added, Title
  <2>4. post' \in [Messages -> Stage] /\ given' \in [Messages -> Seq(Messages)]
    BY <1>8 DEF TypeOK, Added, HistoryFor, Stage
  <2>5. UNCHANGED <<created, rows, stored, current, restarts, disturbed, past>>
    BY <1>8 DEF Added
  <2>6. UNCHANGED <<created, rows, stored, current, restarts, removed, disturbed, crossed, cut>>
    BY <2>5 DEF past
  <2>7. /\ created' \subseteq Sessions /\ rows' \subseteq Sessions
        /\ stored' \in [Sessions -> Seq(Messages)]
        /\ current' \in [Messages -> Session]
        /\ restarts' \in 0..MaxRestarts
        /\ removed' \in [Sessions -> Seq(Messages)]
        /\ disturbed' \subseteq Sessions /\ crossed' \subseteq Sessions /\ cut' \subseteq Sessions
    BY <2>6 DEF TypeOK
  <2>8. QED
    BY <2>3, <2>4, <2>7 DEF TypeOK
<1>9. ASSUME NEW m \in Messages, AddFails(m) PROVE TypeOK'
  BY <1>9, MessageAssumption DEF TypeOK, AddFails, database, Stage
<1>10. ASSUME Restart \/ \E s \in Sessions : DeleteDies(s) PROVE TypeOK'
  <2>1. Die
    BY <1>10 DEF Restart, DeleteDies
  <2>2. /\ stored' \in [Sessions -> Seq(Messages)] /\ cut' \subseteq Sessions
    <3>1. CASE Restart
      BY <3>1 DEF TypeOK, Restart
    <3>2. ASSUME NEW s \in Sessions, DeleteDies(s)
          PROVE  stored' \in [Sessions -> Seq(Messages)] /\ cut' \subseteq Sessions
      <4>1. <<>> \in Seq(Messages)
        OBVIOUS
      <4>2. QED
        BY <3>2, <4>1 DEF TypeOK, DeleteDies
    <3>3. QED
      BY <1>10, <3>1, <3>2
  <2>3. QED
    BY <2>1, <2>2, MessageAssumption DEF TypeOK, Die, Stage, Adding
<1>11. ASSUME UNCHANGED vars PROVE TypeOK'
  BY <1>11 DEF TypeOK, vars, database
<1>12. QED
  BY <1>1, <1>2, <1>3, <1>4, <1>5, <1>6, <1>7, <1>8, <1>9, <1>10, <1>11 DEF Next

-----------------------------------------------------------------------------
(* Order                                                                   *)
LEMMA EmptyInOrder == \A r : InOrder(r, <<>>)
BY DEF InOrder

LEMMA SelfInOrder == \A r : InOrder(r, r)
BY DEF InOrder, IsRow, Precedes

(* A row that is added disturbs no order, and comes last.                  *)
LEMMA AppendKeepsOrder ==
    ASSUME NEW r \in Seq(Messages), NEW m \in Messages
    PROVE  /\ \A a : IsRow(r, a) => IsRow(Append(r, m), a) /\ Precedes(Append(r, m), a, m)
           /\ \A a, b : Precedes(r, a, b) => Precedes(Append(r, m), a, b)
           /\ \A q : InOrder(r, q) => InOrder(Append(r, m), q)
           /\ \A q \in Seq(Messages) :
                 InOrder(r, q) => InOrder(Append(r, m), Append(q, m))
<1> DEFINE rm == Append(r, m)
<1>1. /\ DOMAIN r = 1..Len(r) /\ DOMAIN rm = 1..(Len(r) + 1) /\ Len(r) \in Nat
      /\ \A j \in 1..Len(r) : rm[j] = r[j]
      /\ rm[Len(r) + 1] = m
  BY AppendProperties
<1> HIDE DEF rm
<1>2. ASSUME NEW a, IsRow(r, a) PROVE IsRow(rm, a) /\ Precedes(rm, a, m)
  <2>1. PICK k \in 1..Len(r) : r[k] = a
    BY <1>1, <1>2 DEF IsRow
  <2>2. k \in DOMAIN rm /\ Len(r) + 1 \in DOMAIN rm /\ k < Len(r) + 1 /\ rm[k] = a
    BY <1>1, <2>1
  <2>3. QED
    BY <1>1, <2>2 DEF IsRow, Precedes
<1>3. ASSUME NEW a, NEW b, Precedes(r, a, b) PROVE Precedes(rm, a, b)
  <2>1. PICK j \in 1..Len(r), k \in 1..Len(r) : j < k /\ r[j] = a /\ r[k] = b
    BY <1>1, <1>3 DEF Precedes
  <2>2. j \in DOMAIN rm /\ k \in DOMAIN rm /\ rm[j] = a /\ rm[k] = b
    BY <1>1, <2>1
  <2>3. QED
    BY <2>1, <2>2 DEF Precedes
<1>4. ASSUME NEW q, InOrder(r, q) PROVE InOrder(rm, q)
  BY <1>2, <1>3, <1>4 DEF InOrder
<1>5. ASSUME NEW q \in Seq(Messages), InOrder(r, q) PROVE InOrder(rm, Append(q, m))
  <2> DEFINE qm == Append(q, m)
  <2>1. /\ DOMAIN q = 1..Len(q) /\ DOMAIN qm = 1..(Len(q) + 1) /\ Len(q) \in Nat
        /\ \A j \in 1..Len(q) : qm[j] = q[j]
        /\ qm[Len(q) + 1] = m
    BY AppendProperties
  <2> HIDE DEF qm
  <2>2. IsRow(rm, m)
    BY <1>1 DEF IsRow
  <2>3. ASSUME NEW j \in DOMAIN qm PROVE IsRow(rm, qm[j])
    BY <1>2, <1>5, <2>1, <2>2 DEF InOrder
  <2>4. ASSUME NEW j \in DOMAIN qm, NEW k \in DOMAIN qm, j < k
        PROVE  Precedes(rm, qm[j], qm[k])
    <3>1. j \in DOMAIN q /\ qm[j] = q[j]
      BY <2>1, <2>4
    <3>2. CASE k \in DOMAIN q
      BY <1>3, <1>5, <2>1, <2>4, <3>1, <3>2 DEF InOrder
    <3>3. CASE k \notin DOMAIN q
      <4>1. qm[k] = m
        BY <2>1, <3>3
      <4>2. QED
        BY <1>2, <1>5, <3>1, <4>1 DEF InOrder
    <3>4. QED
      BY <3>2, <3>3
  <2>5. InOrder(rm, qm)
    BY <2>3, <2>4 DEF InOrder
  <2>6. QED
    BY <2>5 DEF qm
<1>6. QED
  BY <1>2, <1>3, <1>4, <1>5 DEF rm

(* get() returns messages in the order of the rows.                        *)
LEMMA GetInOrder ==
    ASSUME IInv, NEW s \in rows PROVE InOrder(stored[s], Get(s).messages)
<1>1. CASE cache[s] # NotCached
  BY <1>1 DEF Get, IInv, CachedInOrder
<1>2. CASE cache[s] = NotCached
  BY <1>2, SelfInOrder DEF Get, Hydrate
<1>3. QED
  BY <1>1, <1>2

-----------------------------------------------------------------------------
(* Steps                                                                   *)
HistoryInv == Fresh /\ NoOrphanRows /\ CachedInOrder /\ AwaitedInOrder /\ GivenIsPast

LEMMA ReadOnlyStep ==
    ASSUME IInv, NEW s \in Sessions, NEW x, s \in created,
           s \in rows => InOrder(stored[s], x.messages),
           cache' = [cache EXCEPT ![s] = x],
           UNCHANGED <<created, rows, stored, post, current, given>>
    PROVE  HistoryInv'
<1>1. \A t \in Sessions : cache'[t] = IF t = s THEN x ELSE cache[t]
  BY DEF IInv, TypeOK
<1>2. Fresh' /\ NoOrphanRows'
  BY <1>1 DEF IInv, Fresh, NoOrphanRows
<1>3. CachedInOrder'
  <2> SUFFICES ASSUME NEW t \in rows, cache'[t] # NotCached
               PROVE  InOrder(stored'[t], cache'[t].messages)
    BY DEF CachedInOrder
  <2>1. t \in Sessions
    BY DEF IInv, TypeOK
  <2>2. QED
    BY <1>1, <2>1 DEF IInv, CachedInOrder
<1>4. AwaitedInOrder' /\ GivenIsPast'
  BY DEF IInv, AwaitedInOrder, GivenIsPast
<1>5. QED
  BY <1>2, <1>3, <1>4 DEF HistoryInv

LEMMA HasIsCreated ==
    ASSUME IInv, NEW s \in Sessions, Has(s) PROVE s \in created
BY DEF IInv, Fresh, Has

LEMMA CreateStep ==
    ASSUME IInv, NEW s \in Sessions, Create(s) PROVE HistoryInv'
<1>1. /\ s \notin rows /\ stored[s] = <<>>
      /\ \A m \in Messages : SessionOf[m] = s => post[m] \in {"idle", "failed"}
  BY DEF IInv, Fresh, NoOrphanRows, Create
<1>2. /\ created' = created \cup {s} /\ rows' = rows \cup {s}
      /\ \A t \in Sessions : cache'[t] = IF t = s THEN NewSession ELSE cache[t]
      /\ UNCHANGED <<stored, post, current, given>>
  BY DEF Create, IInv, TypeOK
<1>3. Fresh' /\ NoOrphanRows'
  BY <1>2 DEF IInv, Fresh, NoOrphanRows
<1>4. CachedInOrder'
  <2> SUFFICES ASSUME NEW t \in rows', cache'[t] # NotCached
               PROVE  InOrder(stored'[t], cache'[t].messages)
    BY DEF CachedInOrder
  <2>1. t \in Sessions
    BY <1>2 DEF IInv, TypeOK
  <2>2. CASE t = s
    BY <1>2, <2>1, <2>2, EmptyInOrder DEF NewSession
  <2>3. CASE t # s
    BY <1>2, <2>1, <2>3 DEF IInv, CachedInOrder
  <2>4. QED
    BY <2>2, <2>3
<1>5. AwaitedInOrder' /\ GivenIsPast'
  BY <1>1, <1>2 DEF IInv, AwaitedInOrder, GivenIsPast
<1>6. QED
  BY <1>3, <1>4, <1>5 DEF HistoryInv

LEMMA DeleteStep ==
    ASSUME IInv, NEW s \in Sessions, Delete(s) PROVE HistoryInv'
<1>1. s \in created
  BY HasIsCreated DEF Delete
<1>2. /\ rows' = rows \ {s}
      /\ \A t \in Sessions : /\ stored'[t] = IF t = s THEN <<>> ELSE stored[t]
                             /\ cache'[t] = IF t = s THEN NotCached ELSE cache[t]
      /\ UNCHANGED <<created, post, current, given>>
  BY DEF Delete, IInv, TypeOK
<1>3. Fresh' /\ NoOrphanRows'
  BY <1>1, <1>2 DEF IInv, Fresh, NoOrphanRows
<1>4. CachedInOrder'
  BY <1>2 DEF IInv, TypeOK, CachedInOrder
<1>5. AwaitedInOrder' /\ GivenIsPast'
  BY <1>2, MessageAssumption DEF IInv, AwaitedInOrder, GivenIsPast
<1>6. QED
  BY <1>3, <1>4, <1>5 DEF HistoryInv

LEMMA PostStep ==
    ASSUME IInv, NEW m \in Messages, Post(m) PROVE HistoryInv'
<1> DEFINE s == SessionOf[m]
<1>1. s \in Sessions
  BY MessageAssumption
<1>2. CASE Has(s)
  <2>1. /\ cache' = [cache EXCEPT ![s] = Get(s)]
        /\ post' = [post EXCEPT ![m] = "reading"]
        /\ given' = [given EXCEPT ![m] = Get(s).messages]
        /\ UNCHANGED <<created, rows, stored, current>>
    BY <1>2 DEF Post, Warm, database
  <2>2. /\ \A t \in Sessions : cache'[t] = IF t = s THEN Get(s) ELSE cache[t]
        /\ \A n \in Messages : /\ post'[n] = IF n = m THEN "reading" ELSE post[n]
                               /\ given'[n] = IF n = m THEN Get(s).messages ELSE given[n]
    BY <2>1 DEF IInv, TypeOK
  <2>3. s \in rows => InOrder(stored[s], Get(s).messages)
    BY GetInOrder
  <2>4. s \in created
    BY <1>1, <1>2, HasIsCreated
  <2>5. Fresh' /\ NoOrphanRows'
    BY <2>1, <2>2, <2>4 DEF IInv, Fresh, NoOrphanRows
  <2>6. CachedInOrder'
    <3> SUFFICES ASSUME NEW t \in rows, cache'[t] # NotCached
                 PROVE  InOrder(stored'[t], cache'[t].messages)
      BY <2>1 DEF CachedInOrder
    <3>1. t \in Sessions
      BY DEF IInv, TypeOK
    <3>2. QED
      BY <2>1, <2>2, <2>3, <3>1 DEF IInv, CachedInOrder
  <2>7. AwaitedInOrder'
    BY <2>1, <2>2 DEF IInv, AwaitedInOrder
  <2>8. GivenIsPast'
    BY <2>1, <2>2, <2>3 DEF IInv, GivenIsPast, InOrder
  <2>9. QED
    BY <2>5, <2>6, <2>7, <2>8 DEF HistoryInv
<1>3. CASE ~Has(s)
  <2>1. /\ post' = [post EXCEPT ![m] = "failed"]
        /\ UNCHANGED <<created, rows, stored, cache, current, given>>
    BY <1>3 DEF Post, database
  <2>2. \A n \in Messages : post'[n] = IF n = m THEN "failed" ELSE post[n]
    BY <2>1 DEF IInv, TypeOK
  <2>3. QED
    BY <2>1, <2>2
       DEF IInv, HistoryInv, Fresh, NoOrphanRows, CachedInOrder, AwaitedInOrder, GivenIsPast
<1>4. QED
  BY <1>2, <1>3

(* A message that stops, with nothing else changed.                        *)
LEMMA StopStep ==
    ASSUME IInv, NEW m \in Messages,
           post' = [post EXCEPT ![m] = "failed"],
           UNCHANGED <<created, rows, stored, cache, current, given>>
    PROVE  HistoryInv'
<1>1. \A n \in Messages : post'[n] = IF n = m THEN "failed" ELSE post[n]
  BY DEF IInv, TypeOK
<1>2. QED
  BY <1>1 DEF IInv, HistoryInv, Fresh, NoOrphanRows, CachedInOrder, AwaitedInOrder, GivenIsPast

LEMMA AddMessageStep ==
    ASSUME IInv, NEW m \in Messages, AddMessage(m) PROVE HistoryInv'
<1> DEFINE s == SessionOf[m]
           r == stored[s]
<1>1. s \in Sessions /\ s \in rows /\ s \in created /\ post[m] = "reading"
  BY MessageAssumption DEF AddMessage, IInv, Fresh
<1>2. /\ UNCHANGED <<created, rows, given>>
      /\ \A t \in Sessions : /\ cache'[t] = IF t = s THEN Get(s) ELSE cache[t]
                             /\ stored'[t] = IF t = s THEN Append(r, m) ELSE stored[t]
      /\ \A n \in Messages : /\ current'[n] = IF n = m THEN Get(s) ELSE current[n]
                             /\ post'[n] = IF n = m THEN "adding" ELSE post[n]
  BY <1>1 DEF AddMessage, Warm, IInv, TypeOK
<1>3. r \in Seq(Messages) /\ Get(s).messages \in Seq(Messages)
  BY <1>1, GetType, SessionShape DEF IInv, TypeOK
<1>4. InOrder(r, Get(s).messages)
  BY <1>1, GetInOrder
<1> HIDE DEF r
<1>5. /\ \A a : IsRow(r, a) => IsRow(Append(r, m), a) /\ Precedes(Append(r, m), a, m)
      /\ \A a, b : Precedes(r, a, b) => Precedes(Append(r, m), a, b)
      /\ \A q : InOrder(r, q) => InOrder(Append(r, m), q)
      /\ InOrder(Append(r, m), Append(Get(s).messages, m))
  BY <1>3, <1>4, AppendKeepsOrder
<1>6. Fresh' /\ NoOrphanRows'
  BY <1>1, <1>2 DEF IInv, Fresh, NoOrphanRows
<1>7. CachedInOrder'
  <2> SUFFICES ASSUME NEW t \in rows, cache'[t] # NotCached
               PROVE  InOrder(stored'[t], cache'[t].messages)
    BY <1>2 DEF CachedInOrder
  <2>1. t \in Sessions
    BY DEF IInv, TypeOK
  <2>2. QED
    BY <1>2, <1>4, <1>5, <2>1 DEF IInv, CachedInOrder
<1>8. AwaitedInOrder'
  <2> SUFFICES ASSUME NEW n \in Messages, post'[n] = "adding", SessionOf[n] \in rows
               PROVE  InOrder(stored'[SessionOf[n]], Append(current'[n].messages, n))
    BY <1>2 DEF AwaitedInOrder
  <2>1. SessionOf[n] \in Sessions
    BY MessageAssumption
  <2>2. CASE n = m
    BY <1>2, <1>5, <2>1, <2>2
  <2>3. CASE n # m
    <3>1. InOrder(stored[SessionOf[n]], Append(current[n].messages, n))
      BY <1>2, <2>3 DEF IInv, AwaitedInOrder
    <3>2. QED
      BY <1>2, <1>5, <2>1, <2>3, <3>1 DEF r
  <2>4. QED
    BY <2>2, <2>3
<1>9. GivenIsPast'
  <2> SUFFICES ASSUME NEW n \in Messages, SessionOf[n] \in rows
               PROVE  /\ post'[n] = "reading" =>
                           \A j \in DOMAIN given[n] : IsRow(stored'[SessionOf[n]], given[n][j])
                      /\ post'[n] \in {"adding", "running"} =>
                           \A j \in DOMAIN given[n] :
                              Precedes(stored'[SessionOf[n]], given[n][j], n)
    BY <1>2 DEF GivenIsPast
  <2>1. SessionOf[n] \in Sessions
    BY MessageAssumption
  <2>2. CASE n = m
    <3>1. \A j \in DOMAIN given[m] : IsRow(r, given[m][j])
      BY <1>1 DEF IInv, GivenIsPast, r
    <3>2. QED
      BY <1>2, <1>5, <2>1, <2>2, <3>1
  <2>3. CASE n # m
    BY <1>2, <1>5, <2>1, <2>3 DEF IInv, GivenIsPast, r
  <2>4. QED
    BY <2>2, <2>3
<1>10. QED
  BY <1>6, <1>7, <1>8, <1>9 DEF HistoryInv

LEMMA AddedStep ==
    ASSUME IInv, NEW m \in Messages, Added(m) PROVE HistoryInv'
<1> DEFINE s == SessionOf[m]
<1>1. s \in Sessions /\ post[m] = "adding"
  BY MessageAssumption DEF Added
<1>2. /\ UNCHANGED <<created, rows, stored, current>>
      /\ \A t \in Sessions : cache'[t] = IF t = s THEN Merged(m) ELSE cache[t]
      /\ \A n \in Messages : /\ post'[n] = IF n = m THEN "running" ELSE post[n]
                             /\ given'[n] = given[n]
  BY <1>1 DEF Added, HistoryFor, IInv, TypeOK
<1>3. s \in created
  BY <1>1 DEF IInv, Fresh
<1>4. s \in rows => InOrder(stored[s], Merged(m).messages)
  BY <1>1 DEF IInv, AwaitedInOrder, Merged
<1>5. Fresh' /\ NoOrphanRows'
  BY <1>2, <1>3 DEF IInv, Fresh, NoOrphanRows
<1>6. CachedInOrder'
  <2> SUFFICES ASSUME NEW t \in rows, cache'[t] # NotCached
               PROVE  InOrder(stored'[t], cache'[t].messages)
    BY <1>2 DEF CachedInOrder
  <2>1. t \in Sessions
    BY DEF IInv, TypeOK
  <2>2. QED
    BY <1>2, <1>4, <2>1 DEF IInv, CachedInOrder
<1>7. AwaitedInOrder' /\ GivenIsPast'
  BY <1>1, <1>2 DEF IInv, AwaitedInOrder, GivenIsPast
<1>8. QED
  BY <1>5, <1>6, <1>7 DEF HistoryInv

LEMMA DieStep ==
    ASSUME IInv, Die, \A s \in Sessions : stored'[s] \in {<<>>, stored[s]} PROVE HistoryInv'
<1>1. /\ UNCHANGED <<created, rows, current, given>>
      /\ \A t \in Sessions : cache'[t] = NotCached
      /\ \A n \in Messages : post'[n] =
            IF post[n] \in {"reading", "adding", "running"} THEN "lost" ELSE post[n]
  BY DEF Die, IInv, TypeOK
<1>2. rows \subseteq Sessions
  BY DEF IInv, TypeOK
<1>3. Fresh' /\ NoOrphanRows' /\ CachedInOrder'
  BY <1>1, <1>2 DEF IInv, Fresh, NoOrphanRows, CachedInOrder
<1>4. AwaitedInOrder' /\ GivenIsPast'
  BY <1>1 DEF IInv, AwaitedInOrder, GivenIsPast
<1>5. QED
  BY <1>3, <1>4 DEF HistoryInv

LEMMA NextIInv == IInv /\ [Next]_vars => IInv'
<1> SUFFICES ASSUME IInv, [Next]_vars PROVE IInv'
  OBVIOUS
<1>1. TypeOK'
  BY TypeStep DEF IInv
<1>2. ASSUME NEW s \in Sessions, Create(s) PROVE HistoryInv'
  BY <1>2, CreateStep
<1>3. ASSUME NEW s \in Sessions, Show(s) PROVE HistoryInv'
  <2>1. s \in created /\ (s \in rows => InOrder(stored[s], Get(s).messages))
    BY <1>3, HasIsCreated, GetInOrder DEF Show
  <2>2. QED
    BY <1>3, <2>1, ReadOnlyStep DEF Show, Warm, database
<1>4. ASSUME NEW s \in Sessions, Resume(s) PROVE HistoryInv'
  <2>1. s \in created /\ (s \in rows => InOrder(stored[s], Updated(s).messages))
    BY <1>4, HasIsCreated, GetInOrder DEF Resume, Updated
  <2>2. QED
    BY <1>4, <2>1, ReadOnlyStep DEF Resume, database
<1>5. ASSUME NEW s \in Sessions, Delete(s) PROVE HistoryInv'
  BY <1>5, DeleteStep
<1>6. ASSUME NEW m \in Messages, Post(m) PROVE HistoryInv'
  BY <1>6, PostStep
<1>7. ASSUME NEW m \in Messages, Refuse(m) PROVE HistoryInv'
  BY <1>7, StopStep DEF Refuse, database
<1>8. ASSUME NEW m \in Messages, AddMessage(m) PROVE HistoryInv'
  BY <1>8, AddMessageStep
<1>9. ASSUME NEW m \in Messages, Added(m) PROVE HistoryInv'
  BY <1>9, AddedStep
<1>10. ASSUME NEW m \in Messages, AddFails(m) PROVE HistoryInv'
  BY <1>10, StopStep DEF AddFails, database
<1>11. ASSUME Restart \/ \E s \in Sessions : DeleteDies(s) PROVE HistoryInv'
  <2>1. Die /\ \A s \in Sessions : stored'[s] \in {<<>>, stored[s]}
    BY <1>11 DEF Restart, DeleteDies, IInv, TypeOK
  <2>2. QED
    BY <2>1, DieStep
<1>12. ASSUME UNCHANGED vars PROVE HistoryInv'
  BY <1>12 DEF vars, database, IInv, HistoryInv, Fresh, NoOrphanRows, CachedInOrder,
               AwaitedInOrder, GivenIsPast
<1>13. HistoryInv'
  BY <1>2, <1>3, <1>4, <1>5, <1>6, <1>7, <1>8, <1>9, <1>10, <1>11, <1>12 DEF Next
<1>14. QED
  BY <1>1, <1>13 DEF IInv, HistoryInv

LEMMA SpecIInv == Spec => []IInv
BY InitIInv, NextIInv, PTL DEF Spec

-----------------------------------------------------------------------------
(* What is cached, or will be, of a session that has been deleted.         *)
LeftInv ==
    \A s \in Sessions \ rows :
        /\ cache[s] # NotCached => s \in crossed /\ InOrder(removed[s], cache[s].messages)
        /\ \A m \in Adding(s) :
               s \in crossed /\ InOrder(removed[s], Append(current[m].messages, m))

LEMMA InitLeft == Init => LeftInv
BY DEF Init, LeftInv, Adding

(* Steps that leave a deleted session as it is.                            *)
LEMMA LeftKept ==
    ASSUME LeftInv, rows \subseteq rows',
           \A s \in Sessions \ rows' :
               /\ cache'[s] \in {cache[s], NotCached} /\ Adding(s)' \subseteq Adding(s)
               /\ \A m \in Adding(s) : current'[m] = current[m],
           UNCHANGED <<removed, crossed>>
    PROVE  LeftInv'
<1> SUFFICES ASSUME NEW s \in Sessions, s \notin rows'
             PROVE  /\ cache'[s] # NotCached => s \in crossed /\ InOrder(removed[s], cache'[s].messages)
                    /\ \A m \in Adding(s)' :
                         s \in crossed /\ InOrder(removed[s], Append(current'[m].messages, m))
  BY DEF LeftInv
<1>1. s \in Sessions \ rows
  OBVIOUS
<1>2. QED
  BY <1>1 DEF LeftInv

LEMMA NextLeft == IInv /\ LeftInv /\ [Next]_vars => LeftInv'
<1> SUFFICES ASSUME IInv, LeftInv, [Next]_vars PROVE LeftInv'
  OBVIOUS
<1> USE DEF past
<1>1. ASSUME NEW s \in Sessions, Create(s) PROVE LeftInv'
  <2>1. /\ rows' = rows \cup {s} /\ UNCHANGED <<post, current, removed, crossed>>
        /\ \A t \in Sessions : t # s => cache'[t] = cache[t]
    BY <1>1 DEF Create, IInv, TypeOK
  <2>2. \A t \in Sessions : Adding(t)' = Adding(t)
    BY <2>1 DEF Adding
  <2>3. QED
    BY <2>1, <2>2, LeftKept
<1>2. ASSUME NEW s \in Sessions, Show(s) \/ Resume(s) PROVE LeftInv'
  <2>1. /\ UNCHANGED <<rows, post, current, removed, crossed>>
        /\ \A t \in Sessions : t \in rows \/ cache'[t] = cache[t]
    BY <1>2 DEF Show, Resume, Warm, Get, Has, database, IInv, TypeOK
  <2>2. \A t \in Sessions : Adding(t)' = Adding(t)
    BY <2>1 DEF Adding
  <2>3. QED
    BY <2>1, <2>2, LeftKept
<1>3. ASSUME NEW s \in Sessions, Delete(s) PROVE LeftInv'
  <2>1. /\ rows' = rows \ {s} /\ UNCHANGED <<post, current>>
        /\ \A t \in Sessions : /\ cache'[t] = IF t = s THEN NotCached ELSE cache[t]
                               /\ removed'[t] = IF t = s /\ s \in rows THEN stored[s] ELSE removed[t]
        /\ crossed' = IF Adding(s) # {} THEN crossed \cup {s} ELSE crossed
    BY <1>3 DEF Delete, IInv, TypeOK
  <2>2. \A t \in Sessions : Adding(t)' = Adding(t)
    BY <2>1 DEF Adding
  <2>3. ASSUME NEW t \in Sessions, t \notin rows', t # s
        PROVE  /\ cache'[t] # NotCached => t \in crossed' /\ InOrder(removed'[t], cache'[t].messages)
               /\ \A m \in Adding(t)' :
                    t \in crossed' /\ InOrder(removed'[t], Append(current'[m].messages, m))
    BY <2>1, <2>2, <2>3 DEF LeftInv
  <2>4. ASSUME NEW m \in Adding(s)
        PROVE  s \in crossed' /\ InOrder(removed'[s], Append(current'[m].messages, m))
    <3>1. s \in crossed' /\ m \in Messages /\ SessionOf[m] = s /\ post[m] = "adding"
      BY <2>1, <2>4 DEF Adding
    <3>2. CASE s \in rows
      BY <2>1, <3>1, <3>2 DEF IInv, AwaitedInOrder
    <3>3. CASE s \notin rows
      BY <2>1, <2>4, <3>1, <3>3 DEF LeftInv
    <3>4. QED
      BY <3>2, <3>3
  <2>5. QED
    BY <2>1, <2>2, <2>3, <2>4 DEF LeftInv
<1>4. ASSUME NEW m \in Messages, Post(m) \/ Refuse(m) \/ AddFails(m) PROVE LeftInv'
  <2>1. SessionOf[m] \in Sessions
    BY MessageAssumption
  <2>2. /\ UNCHANGED <<rows, current, removed, crossed>>
        /\ \A t \in Sessions : t \in rows \/ cache'[t] = cache[t]
    BY <1>4, <2>1 DEF Post, Refuse, AddFails, Warm, Get, Has, database, IInv, TypeOK
  <2>3. \A n \in Messages : post'[n] = "adding" => post[n] = "adding"
    BY <1>4 DEF Post, Refuse, AddFails, IInv, TypeOK
  <2>4. \A t \in Sessions : Adding(t)' \subseteq Adding(t)
    BY <2>3 DEF Adding
  <2>5. QED
    BY <2>2, <2>4, LeftKept
<1>5. ASSUME NEW m \in Messages, AddMessage(m) PROVE LeftInv'
  <2>1. /\ UNCHANGED <<rows, removed, crossed>>
        /\ SessionOf[m] \in rows /\ post[m] = "reading"
        /\ \A t \in Sessions : t \in rows \/ cache'[t] = cache[t]
        /\ \A n \in Messages : n # m => post'[n] = post[n] /\ current'[n] = current[n]
    BY <1>5 DEF AddMessage, Warm, IInv, TypeOK
  <2>2. \A t \in Sessions \ rows : /\ Adding(t)' \subseteq Adding(t)
                                   /\ \A n \in Adding(t) : current'[n] = current[n]
    BY <2>1 DEF Adding
  <2>3. QED
    BY <2>1, <2>2, LeftKept
<1>6. ASSUME NEW m \in Messages, Added(m) PROVE LeftInv'
  <2> DEFINE s == SessionOf[m]
  <2>1. /\ UNCHANGED <<rows, current, removed, crossed>> /\ s \in Sessions /\ m \in Adding(s)
        /\ \A t \in Sessions : cache'[t] = IF t = s THEN Merged(m) ELSE cache[t]
        /\ \A n \in Messages : post'[n] = "adding" => post[n] = "adding"
    BY <1>6, MessageAssumption DEF Added, Adding, IInv, TypeOK
  <2>2. \A t \in Sessions : Adding(t)' \subseteq Adding(t)
    BY <2>1 DEF Adding
  <2>3. s \notin rows => s \in crossed /\ InOrder(removed[s], Merged(m).messages)
    BY <2>1 DEF LeftInv, Merged
  <2>4. QED
    BY <2>1, <2>2, <2>3 DEF LeftInv
<1>7. ASSUME Restart \/ \E s \in Sessions : DeleteDies(s) PROVE LeftInv'
  <2>1. Die
    BY <1>7 DEF Restart, DeleteDies
  <2>2. /\ UNCHANGED <<rows, current, removed, crossed>>
        /\ \A t \in Sessions : cache'[t] = NotCached
        /\ \A n \in Messages : post'[n] # "adding"
    BY <2>1 DEF Die, IInv, TypeOK
  <2>3. \A t \in Sessions : Adding(t)' = {}
    BY <2>2 DEF Adding
  <2>4. QED
    BY <2>2, <2>3, LeftKept
<1>8. CASE UNCHANGED vars
  BY <1>8, LeftKept DEF vars, Adding
<1>9. QED
  BY <1>1, <1>2, <1>3, <1>4, <1>5, <1>6, <1>7, <1>8 DEF Next

LEMMA SpecLeft == Spec => []LeftInv
BY InitLeft, NextLeft, SpecIInv, PTL DEF Spec

-----------------------------------------------------------------------------
(* Every variable keeps its type.                                          *)
THEOREM TypeCorrect == Spec => []TypeOK
<1>1. IInv => TypeOK
  BY DEF IInv
<1>2. QED
  BY <1>1, SpecIInv, PTL

(* No message row outlives its session's row (storage/messages.ts).        *)
THEOREM RowsHaveSessions == Spec => []NoOrphanRows
<1>1. IInv => NoOrphanRows
  BY DEF IInv
<1>2. QED
  BY <1>1, SpecIInv, PTL

(* The cache shows messages in the order they were stored in, whatever     *)
(* overlaps, fails, is deleted or restarted: stored ones, and, of a session*)
(* deleted under an add, ones its deletion removed (session/manager.ts).   *)
THEOREM CacheIsInOrder == Spec => []CacheInOrder
<1>1. IInv /\ LeftInv => CacheInOrder
  BY DEF IInv, TypeOK, CachedInOrder, LeftInv, InOrder, IsRow, Precedes, CacheInOrder, Shows, Before
<1>2. QED
  BY <1>1, SpecIInv, SpecLeft, PTL

(* The loop is given only messages stored before its own (server.ts, the   *)
(* message route).                                                         *)
THEOREM OnlyThePast == Spec => []HistoryIsPast
<1>1. IInv => HistoryIsPast
  BY DEF IInv, GivenIsPast, Precedes, HistoryIsPast, Before
<1>2. QED
  BY <1>1, SpecIInv, PTL

-----------------------------------------------------------------------------
(* What an undisturbed session serves.                                     *)

TitleOf(q, t) == (q # <<>> => t = Head(q)) /\ (q = <<>> => t = NoTitle)

Settled(s) ==
    /\ cache[s] # NotCached => cache[s] = Hydrate(s)
    /\ s \notin cut => TitleOf(stored[s], title[s])

(* m is being added: only its row is ahead of the cache.                   *)
AddingOnly(s, m) ==
    /\ Adding(s) = {m}
    /\ cache[s] = current[m]
    /\ stored[s] = Append(current[m].messages, m)
    /\ title[s] = current[m].title
    /\ s \notin cut => TitleOf(current[m].messages, title[s])

Served(s) == IF Adding(s) = {} THEN Settled(s) ELSE \E m \in Messages : AddingOnly(s, m)

ServedInv ==
    /\ \A s \in rows \ disturbed : Served(s)
    /\ \A s \in Sessions \ rows : title[s] = NoTitle

LEMMA InitServed == Init => ServedInv
BY DEF Init, ServedInv

(* A session that a step does not touch.                                   *)
LEMMA ServedKept ==
    ASSUME NEW s, Served(s), Adding(s)' = Adding(s),
           stored'[s] = stored[s], title'[s] = title[s], cache'[s] = cache[s], cut' = cut,
           \A m \in Adding(s) : current'[m] = current[m]
    PROVE  Served(s)'
<1>1. CASE Adding(s) = {}
  BY <1>1 DEF Served, Settled, Hydrate
<1>2. CASE Adding(s) # {}
  <2>1. PICK m \in Messages : AddingOnly(s, m)
    BY <1>2 DEF Served
  <2>2. m \in Adding(s) /\ current'[m] = current[m]
    BY <2>1 DEF AddingOnly
  <2>3. AddingOnly(s, m)'
    BY <2>1, <2>2 DEF AddingOnly
  <2>4. QED
    BY <1>2, <2>3 DEF Served
<1>3. QED
  BY <1>1, <1>2

(* Steps that only read a session, whatever they leave in the cache: what  *)
(* get() returns, or that with the title of the row.                       *)
LEMMA ServedWhenRead ==
    ASSUME TypeOK, ServedInv, NEW s \in Sessions, NEW x \in {Get(s), Updated(s)},
           cache' = [cache EXCEPT ![s] = x],
           \A t \in Sessions : Adding(t)' = Adding(t),
           UNCHANGED <<rows, title, stored, current, disturbed, cut>>
    PROVE  ServedInv'
<1>1. \A t \in Sessions : cache'[t] = IF t = s THEN x ELSE cache[t]
  BY DEF TypeOK
<1>2. ASSUME NEW t \in rows \ disturbed PROVE Served(t)'
  <2>1. t \in Sessions /\ Served(t)
    BY DEF TypeOK, ServedInv
  <2>2. CASE t # s
    BY <1>1, <2>1, <2>2, ServedKept
  <2>3. CASE t = s /\ Adding(s) = {}
    <3>1. Get(s) = Hydrate(s) /\ (s \notin cut => TitleOf(stored[s], title[s]))
      BY <2>1, <2>3 DEF Served, Settled, Get
    <3>2. x = Hydrate(s)
      BY <3>1 DEF Updated, Hydrate
    <3>3. QED
      BY <1>1, <2>1, <2>3, <3>1, <3>2 DEF Served, Settled, Hydrate
  <2>4. CASE t = s /\ Adding(s) # {}
    <3>1. PICK m \in Messages : AddingOnly(s, m)
      BY <2>1, <2>4 DEF Served
    <3>2. current[m] \in Session /\ cache[s] # NotCached
      BY <3>1, CacheAssumption DEF TypeOK, AddingOnly
    <3>3. Get(s) = current[m]
      BY <3>1, <3>2 DEF Get, AddingOnly
    <3>4. Updated(s) = current[m]
      BY <3>1, <3>2, <3>3 DEF Updated, AddingOnly, Session
    <3>5. cache'[s] = cache[s]
      BY <1>1, <3>1, <3>3, <3>4 DEF AddingOnly
    <3>6. QED
      BY <2>1, <2>4, <3>5, ServedKept
  <2>5. QED
    BY <2>2, <2>3, <2>4
<1>3. QED
  BY <1>2 DEF ServedInv

(* Steps that neither start nor finish an add and change nothing stored.   *)
LEMMA ServedWhenStopped ==
    ASSUME TypeOK, ServedInv,
           \A t \in Sessions : t \notin disturbed' => Adding(t)' = Adding(t),
           disturbed \subseteq disturbed',
           UNCHANGED <<rows, title, stored, cache, current, cut>>
    PROVE  ServedInv'
<1>1. ASSUME NEW t \in rows \ disturbed' PROVE Served(t)'
  BY ServedKept DEF TypeOK, ServedInv
<1>2. QED
  BY <1>1 DEF ServedInv

LEMMA ServedWhenAdding ==
    ASSUME IInv, ServedInv, NEW m \in Messages, AddMessage(m) PROVE ServedInv'
<1> DEFINE s == SessionOf[m]
<1>1. s \in Sessions /\ s \in rows /\ post[m] = "reading"
  BY MessageAssumption DEF AddMessage
<1>2. /\ UNCHANGED <<rows, title, cut>>
      /\ disturbed' = IF Adding(s) # {} THEN disturbed \cup {s} ELSE disturbed
      /\ \A t \in Sessions : /\ cache'[t] = IF t = s THEN Get(s) ELSE cache[t]
                             /\ stored'[t] = IF t = s THEN Append(stored[s], m) ELSE stored[t]
      /\ \A n \in Messages : /\ current'[n] = IF n = m THEN Get(s) ELSE current[n]
                             /\ post'[n] = IF n = m THEN "adding" ELSE post[n]
  BY <1>1 DEF AddMessage, Warm, IInv, TypeOK
<1>3. \A t \in Sessions : Adding(t)' = IF t = s THEN Adding(s) \cup {m} ELSE Adding(t)
  BY <1>2 DEF Adding
<1>4. ASSUME NEW t \in rows \ disturbed' PROVE Served(t)'
  <2>1. t \in Sessions /\ Served(t)
    BY <1>2 DEF IInv, TypeOK, ServedInv
  <2>2. CASE t # s
    <3>1. m \notin Adding(t)
      BY <1>1 DEF Adding
    <3>2. \A n \in Adding(t) : current'[n] = current[n]
      BY <1>2, <3>1 DEF Adding
    <3>3. QED
      BY <1>2, <1>3, <2>1, <2>2, <3>2, ServedKept
  <2>3. CASE t = s
    <3>1. Adding(s) = {} /\ Adding(s)' = {m}
      BY <1>2, <1>3, <2>1, <2>3
    <3>2. Get(s) = Hydrate(s) /\ (s \notin cut => TitleOf(stored[s], title[s]))
      BY <2>1, <2>3, <3>1 DEF Served, Settled, Get
    <3>3. /\ current'[m] = Hydrate(s) /\ cache'[s] = Hydrate(s) /\ title'[s] = title[s]
          /\ stored'[s] = Append(stored[s], m)
      BY <1>1, <1>2, <3>2
    <3>4. Hydrate(s).messages = stored[s] /\ Hydrate(s).title = title[s]
      BY DEF Hydrate
    <3>5. s \notin cut' => TitleOf(current'[m].messages, title'[s])
      BY <1>2, <3>2, <3>3, <3>4
    <3>6. AddingOnly(s, m)'
      BY <3>1, <3>3, <3>4, <3>5 DEF AddingOnly
    <3>7. QED
      BY <2>3, <3>1, <3>6 DEF Served
  <2>4. QED
    BY <2>2, <2>3
<1>5. QED
  BY <1>2, <1>4 DEF ServedInv

LEMMA ServedWhenAdded ==
    ASSUME IInv, ServedInv, NEW m \in Messages, Added(m) PROVE ServedInv'
<1> DEFINE s == SessionOf[m]
           q == current[m].messages
<1>1. s \in Sessions /\ post[m] = "adding" /\ m \in Adding(s)
  BY MessageAssumption DEF Added, Adding
<1>2. /\ UNCHANGED <<rows, stored, current, disturbed, cut>>
      /\ \A t \in Sessions :
            /\ cache'[t] = IF t = s THEN Merged(m) ELSE cache[t]
            /\ title'[t] = IF t = s /\ s \in rows /\ current[m].title = NoTitle
                          THEN m ELSE title[t]
      /\ \A n \in Messages : post'[n] = IF n = m THEN "running" ELSE post[n]
  BY <1>1 DEF Added, past, IInv, TypeOK
<1>3. \A t \in Sessions : Adding(t)' = Adding(t) \ {m}
  BY <1>2 DEF Adding
<1>4. ASSUME NEW t \in rows \ disturbed' PROVE Served(t)'
  <2>1. t \in Sessions /\ Served(t)
    BY <1>2 DEF IInv, TypeOK, ServedInv
  <2>2. CASE t # s
    <3>1. m \notin Adding(t)
      BY <2>2 DEF Adding
    <3>2. Adding(t)' = Adding(t)
      BY <1>3, <2>1, <3>1
    <3>3. QED
      BY <1>2, <2>1, <2>2, <3>2, ServedKept
  <2>3. CASE t = s
    <3>1. PICK n \in Messages : AddingOnly(s, n)
      BY <1>1, <2>1, <2>3 DEF Served
    <3>2. n = m /\ Adding(s)' = {}
      BY <1>1, <1>3, <3>1 DEF AddingOnly
    <3>3. /\ stored[s] = Append(q, m) /\ title[s] = current[m].title
          /\ (s \notin cut => TitleOf(q, current[m].title)) /\ q \in Seq(Messages)
      BY <3>1, <3>2, SessionShape DEF AddingOnly, IInv, TypeOK
    <3>4. title'[s] = TitleAfter(m)
      BY <1>1, <1>2, <2>3, <3>3 DEF TitleAfter
    <3>5. cache'[s] = Hydrate(s)'
      BY <1>1, <1>2, <3>3, <3>4 DEF Merged, Hydrate
    <3>6. s \notin cut => TitleOf(stored[s], TitleAfter(m))
      <4> SUFFICES ASSUME s \notin cut PROVE TitleOf(stored[s], TitleAfter(m))
        OBVIOUS
      <4>1. CASE q = <<>>
        BY <3>3, <4>1 DEF TitleOf, TitleAfter
      <4>2. CASE q # <<>>
        <5>1. Head(q) \in Messages /\ Head(Append(q, m)) = Head(q) /\ Append(q, m) # <<>>
          BY <3>3, <4>2
        <5>2. QED
          BY <3>3, <4>2, <5>1, MessageAssumption DEF TitleOf, TitleAfter
      <4>3. QED
        BY <4>1, <4>2
    <3>7. QED
      BY <1>2, <2>3, <3>2, <3>4, <3>5, <3>6 DEF Served, Settled
  <2>4. QED
    BY <2>2, <2>3
<1>5. \A t \in Sessions \ rows' : title'[t] = NoTitle
  BY <1>2 DEF ServedInv
<1>6. QED
  BY <1>2, <1>4, <1>5 DEF ServedInv

LEMMA NextServed == IInv /\ ServedInv /\ [Next]_vars => ServedInv'
<1> SUFFICES ASSUME IInv, ServedInv, [Next]_vars PROVE ServedInv'
  OBVIOUS
<1> USE DEF past
<1>1. ASSUME NEW s \in Sessions, Create(s) PROVE ServedInv'
  <2>1. /\ s \notin rows /\ stored[s] = <<>> /\ title[s] = NoTitle /\ Adding(s) = {}
    BY <1>1 DEF IInv, Fresh, NoOrphanRows, ServedInv, Create, Adding
  <2>2. /\ rows' = rows \cup {s}
        /\ \A t \in Sessions : cache'[t] = IF t = s THEN NewSession ELSE cache[t]
        /\ UNCHANGED <<stored, title, post, current, disturbed, cut>>
    BY <1>1 DEF Create, IInv, TypeOK
  <2>3. \A t : Adding(t)' = Adding(t)
    BY <2>2 DEF Adding
  <2>4. Served(s)'
    BY <2>1, <2>2, <2>3 DEF Served, Settled, TitleOf, Hydrate, NewSession
  <2>5. ASSUME NEW t \in rows \ disturbed, t # s PROVE Served(t)'
    BY <2>2, <2>3, <2>5, ServedKept DEF IInv, TypeOK, ServedInv
  <2>6. QED
    BY <2>2, <2>4, <2>5 DEF ServedInv
<1>2. ASSUME NEW s \in Sessions, Show(s) PROVE ServedInv'
  BY <1>2, ServedWhenRead DEF Show, Warm, database, Adding, IInv
<1>3. ASSUME NEW s \in Sessions, Resume(s) PROVE ServedInv'
  BY <1>3, ServedWhenRead DEF Resume, database, Adding, IInv
<1>4. ASSUME NEW s \in Sessions, Delete(s) PROVE ServedInv'
  <2>1. /\ rows' = rows \ {s} /\ disturbed' = disturbed
        /\ \A t \in Sessions : /\ stored'[t] = IF t = s THEN <<>> ELSE stored[t]
                               /\ title'[t] = IF t = s THEN NoTitle ELSE title[t]
                               /\ cache'[t] = IF t = s THEN NotCached ELSE cache[t]
        /\ UNCHANGED <<post, current, cut>>
    BY <1>4 DEF Delete, IInv, TypeOK
  <2>2. \A t : Adding(t)' = Adding(t)
    BY <2>1 DEF Adding
  <2>3. ASSUME NEW t \in rows' \ disturbed' PROVE Served(t)'
    BY <2>1, <2>2, ServedKept DEF IInv, TypeOK, ServedInv
  <2>4. QED
    BY <2>1, <2>3 DEF ServedInv
<1>5. ASSUME NEW m \in Messages, Post(m) PROVE ServedInv'
  <2>1. SessionOf[m] \in Sessions
    BY MessageAssumption
  <2>2. post[m] = "idle" /\ UNCHANGED <<rows, title, stored, current, disturbed, cut>>
    BY <1>5 DEF Post, database
  <2>3. \A t \in Sessions : Adding(t)' = Adding(t)
    BY <1>5 DEF Post, Adding, IInv, TypeOK
  <2>4. CASE Has(SessionOf[m])
    BY <1>5, <2>1, <2>2, <2>3, <2>4, ServedWhenRead DEF Post, Warm, IInv
  <2>5. CASE ~Has(SessionOf[m])
    BY <1>5, <2>2, <2>3, <2>5, ServedWhenStopped DEF Post, IInv
  <2>6. QED
    BY <2>4, <2>5
<1>6. ASSUME NEW m \in Messages, Refuse(m) PROVE ServedInv'
  <2>1. \A t \in Sessions : Adding(t)' = Adding(t)
    BY <1>6 DEF Refuse, Adding, IInv, TypeOK
  <2>2. QED
    BY <1>6, <2>1, ServedWhenStopped DEF Refuse, database, IInv
<1>7. ASSUME NEW m \in Messages, AddMessage(m) PROVE ServedInv'
  BY <1>7, ServedWhenAdding
<1>8. ASSUME NEW m \in Messages, Added(m) PROVE ServedInv'
  BY <1>8, ServedWhenAdded
<1>9. ASSUME NEW m \in Messages, AddFails(m) PROVE ServedInv'
  <2>1. \A t \in Sessions : t \notin disturbed' => Adding(t)' = Adding(t)
    BY <1>9 DEF AddFails, Adding, IInv, TypeOK
  <2>2. QED
    BY <1>9, <2>1, ServedWhenStopped DEF AddFails, database, IInv
<1>10. ASSUME Restart \/ \E s \in Sessions : DeleteDies(s) PROVE ServedInv'
  <2>1. Die
    BY <1>10 DEF Restart, DeleteDies
  <2>2. /\ UNCHANGED <<rows, title>>
        /\ \A t \in Sessions : cache'[t] = NotCached
        /\ \A t \in Sessions : t \notin disturbed' => t \notin disturbed /\ Adding(t) = {}
        /\ \A n \in Messages : post'[n] # "adding"
    BY <2>1 DEF Die, IInv, TypeOK
  <2>3. \A t \in Sessions : Adding(t)' = {}
    BY <2>2 DEF Adding
  <2>4. \A t \in Sessions : t \notin cut' => t \notin cut /\ stored'[t] = stored[t]
    BY <1>10 DEF Restart, DeleteDies, IInv, TypeOK
  <2>5. ASSUME NEW t \in rows \ disturbed' PROVE Served(t)'
    BY <2>2, <2>3, <2>4 DEF Served, Settled, IInv, TypeOK, ServedInv
  <2>6. QED
    BY <2>2, <2>5 DEF ServedInv
<1>11. ASSUME UNCHANGED vars PROVE ServedInv'
  BY <1>11, ServedWhenStopped DEF vars, database, Adding, IInv
<1>12. QED
  BY <1>1, <1>2, <1>3, <1>4, <1>5, <1>6, <1>7, <1>8, <1>9, <1>10, <1>11 DEF Next

(* While messages are added one at a time and nothing fails, the server    *)
(* serves what a restart would read, under the first message's title       *)
(* (session/manager.ts), even if the process died in a deletion, but for   *)
(* the title that one leaves.                                              *)
THEOREM ServedIsStored == Spec => []ServedAsStored
<1>1. IInv /\ ServedInv => ServedAsStored
  BY DEF ServedInv, Served, Settled, TitleOf, ServedAsStored
<1>2. Spec => []ServedInv
  BY InitServed, NextServed, SpecIInv, PTL DEF Spec
<1>3. QED
  BY <1>1, <1>2, SpecIInv, PTL

(* The cache of session/manager.ts shows what is stored, or was when its   *)
(* session was deleted under an add, in the database's order, and the      *)
(* database has no message of a deleted session.                           *)
THEOREM CacheIsTrue == Spec => []CacheTrue
<1>1. TypeOK /\ NoOrphanRows /\ CacheInOrder => CacheTrue
  BY DEF CacheTrue
<1>2. QED
  BY <1>1, TypeCorrect, RowsHaveSessions, CacheIsInOrder, PTL
=============================================================================
