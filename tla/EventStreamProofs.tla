-------------------------- MODULE EventStreamProofs -------------------------
(***************************************************************************)
(* Proofs about EventStream, for any events, scopes and readers.           *)
(***************************************************************************)
EXTENDS EventStream, TLAPS

-----------------------------------------------------------------------------
(* The inductive invariant.                                                *)

\* Places are given once, to events that have been appended.
PlacesOK ==
  /\ \A e \in Events : id[e] <= lastId
  /\ \A e, f \in Events : id[e] = id[f] /\ id[e] > 0 => e = f
  /\ \A e \in visible : id[e] > 0
  /\ \A e \in unborn : id[e] = 0

\* In memory an event is visible as soon as it has a place.
MemoryOK ==
  storage = "in-memory" =>
    \A e \in Events : overtaken[e] = {} /\ (id[e] > 0 => e \in visible)

\* A cursor is the last event received, or was left over by a process that died.
CursorsOK ==
  \A r \in Readers :
    /\ \A e \in received[r] :
         e \in visible /\ Wants(r, e) /\ cursor[r] \in received[r] /\ id[e] <= id[cursor[r]]
    /\ cursor[r] \in Events \ received[r] => id[cursor[r]] = 0 /\ cursor[r] \notin unborn

StreamInv == TypeOK /\ PlacesOK /\ MemoryOK /\ CursorsOK /\ GapsOnlyFromOverlap

-----------------------------------------------------------------------------
(* Lemmas.                                                                 *)

\* A reader whose cursor is visible was given it, so it is of the reader's scope.
LEMMA VisibleCursor ==
  ASSUME TypeOK, PlacesOK, CursorsOK, NEW r \in Readers, cursor[r] \in visible
  PROVE  cursor[r] \in received[r] /\ cursor[r] \in inScope(readerScope[r])
<1>1. cursor[r] \in Events /\ id[cursor[r]] \in Nat /\ id[cursor[r]] > 0
  BY DEF TypeOK, PlacesOK
<1>2. cursor[r] \in received[r]
  BY <1>1 DEF CursorsOK
<1> QED
  BY <1>2 DEF CursorsOK, Wants, inScope

\* What subscribe answers is visible and wanted, and is what lies past the cursor
\* when the cursor is visible.
LEMMA AnswerIsAfterCursor ==
  ASSUME TypeOK, PlacesOK, CursorsOK, NEW r \in Readers
  PROVE  /\ subscribe(r) \subseteq {e \in visible : Wants(r, e)}
         /\ cursor[r] \in visible =>
              subscribe(r) = {e \in visible : Wants(r, e) /\ id[e] > id[cursor[r]]}
<1>1. subscribe(r) \subseteq {e \in visible : Wants(r, e)}
  BY DEF subscribe, listEvents, listRows, listInMemory, inScope
<1>2. ASSUME cursor[r] \in visible
      PROVE  subscribe(r) = {e \in visible : Wants(r, e) /\ id[e] > id[cursor[r]]}
  <2>1. cursor[r] \in inScope(readerScope[r])
    BY <1>2, VisibleCursor
  <2>2. cursor[r] # NoEvent
    BY <1>2, EventsAssumption DEF TypeOK
  <2>3. listEvents(readerScope[r], cursor[r])
          = {e \in inScope(readerScope[r]) : id[e] > id[cursor[r]]}
    BY <1>2, <2>1, <2>2 DEF listEvents, listRows, listInMemory
  <2> QED
    BY <2>3 DEF subscribe, inScope, Wants
<1> QED
  BY <1>1, <1>2

\* A reader with a cursor from a process that died, or none, has received nothing
\* and is answered everything, if it is answered at all.
LEMMA AnswerWithoutCursor ==
  ASSUME TypeOK, PlacesOK, CursorsOK, NEW r \in Readers, cursor[r] \notin visible
  PROVE  /\ received[r] = {}
         /\ subscribe(r) # {} => subscribe(r) = {e \in visible : Wants(r, e)}
         /\ storage = "in-memory" => subscribe(r) = {e \in visible : Wants(r, e)}
<1>1. received[r] = {}
  BY DEF CursorsOK
<1>2. CASE storage = "in-memory"
  <2>1. listEvents(readerScope[r], cursor[r]) = inScope(readerScope[r])
    BY <1>2 DEF listEvents, listInMemory, inScope
  <2> QED
    BY <1>1, <2>1 DEF subscribe, inScope, Wants
<1>3. CASE storage # "in-memory"
  <2>1. storage = "postgres"
    BY <1>3 DEF TypeOK
  <2>2. CASE cursor[r] = NoEvent
    <3>1. listEvents(readerScope[r], cursor[r]) = inScope(readerScope[r])
      BY <2>1, <2>2 DEF listEvents, listRows
    <3> QED
      BY <1>1, <1>3, <3>1 DEF subscribe, inScope, Wants
  <2>3. CASE cursor[r] # NoEvent
    <3>1. listEvents(readerScope[r], cursor[r]) = {}
      BY <2>1, <2>3 DEF listEvents, listRows
    <3> QED
      BY <1>1, <1>3, <3>1 DEF subscribe
  <2> QED
    BY <2>2, <2>3
<1> QED
  BY <1>2, <1>3

-----------------------------------------------------------------------------
(* Each step keeps the invariant.                                          *)

LEMMA InitInv ==
  ASSUME Init
  PROVE  StreamInv
BY EventsAssumption
   DEF Init, StreamInv, TypeOK, PlacesOK, MemoryOK, CursorsOK, GapsOnlyFromOverlap, passed

\* An append moves no cursor, and the new event lies past all of them.
LEMMA AppendInMemoryInv ==
  ASSUME StreamInv, NEW e \in Events, AppendInMemory(e)
  PROVE  StreamInv'
<1> USE DEF StreamInv
<1>1. TypeOK'
  BY DEF AppendInMemory, place, readers, TypeOK
<1>2. PlacesOK'
  BY DEF AppendInMemory, place, PlacesOK, TypeOK
<1>3. MemoryOK'
  BY DEF AppendInMemory, place, MemoryOK, TypeOK
<1>4. CursorsOK'
  BY DEF AppendInMemory, place, readers, CursorsOK, PlacesOK, TypeOK, Wants
<1>5. \A r \in Readers : passed(r)' \subseteq passed(r)
  <2> SUFFICES ASSUME NEW r \in Readers, NEW f \in passed(r)'
               PROVE  f \in passed(r)
    OBVIOUS
  <2>1. cursor[r] \in visible
    BY DEF passed, AppendInMemory, place, readers, CursorsOK, PlacesOK, TypeOK
  <2>2. id[cursor[r]] <= lastId /\ cursor[r] # e /\ cursor[r] \in Events
    BY <2>1 DEF PlacesOK, AppendInMemory, place, TypeOK
  <2> QED
    BY <2>1, <2>2 DEF passed, AppendInMemory, place, readers, TypeOK, Wants
<1>6. GapsOnlyFromOverlap'
  BY <1>5 DEF GapsOnlyFromOverlap, AppendInMemory, place, readers
<1> QED
  BY <1>1, <1>2, <1>3, <1>4, <1>6

LEMMA InsertRowInv ==
  ASSUME StreamInv, NEW e \in Events, InsertRow(e)
  PROVE  StreamInv'
<1> USE DEF StreamInv
<1>1. TypeOK'
  BY DEF InsertRow, place, readers, TypeOK
<1>2. PlacesOK'
  BY DEF InsertRow, place, PlacesOK, TypeOK
<1>3. MemoryOK'
  BY DEF InsertRow, MemoryOK
<1>4. CursorsOK'
  BY DEF InsertRow, place, readers, CursorsOK, PlacesOK, TypeOK, Wants
<1>5. \A r \in Readers : passed(r)' \subseteq passed(r)
  BY DEF passed, InsertRow, place, readers, TypeOK, PlacesOK, Wants
<1>6. GapsOnlyFromOverlap'
  BY <1>5 DEF GapsOnlyFromOverlap, InsertRow, readers
<1> QED
  BY <1>1, <1>2, <1>3, <1>4, <1>6

\* The row of a late commit is passed by the readers whose cursor was appended after
\* it, and those have received an event that overtook it: their cursor.
LEMMA CommitRowInv ==
  ASSUME StreamInv, NEW e \in Events, CommitRow(e)
  PROVE  StreamInv'
<1> USE DEF StreamInv
<1>1. TypeOK'
  BY DEF CommitRow, readers, TypeOK
<1>2. PlacesOK'
  BY DEF CommitRow, Inserting, PlacesOK, TypeOK
<1>3. MemoryOK'
  BY DEF CommitRow, Inserting, MemoryOK, TypeOK
<1>4. CursorsOK'
  BY DEF CommitRow, readers, CursorsOK, Wants
<1>5. GapsOnlyFromOverlap'
  <2> SUFFICES ASSUME NEW r \in Readers, NEW f \in (passed(r) \ received[r])'
               PROVE  (overtaken[f] \cap received[r])' # {}
    BY DEF GapsOnlyFromOverlap
  <2>1. f \in Events /\ id[f] \in Nat /\ id[f] > 0 /\ Wants(r, f)
    BY <1>1, <1>2 DEF passed, CommitRow, TypeOK, PlacesOK, Wants
  <2>2. cursor[r] \in Events /\ id[cursor[r]] \in Nat /\ id[cursor[r]] > 0
    BY <1>1, <1>2 DEF passed, CommitRow, readers, TypeOK, PlacesOK
  <2>3. cursor[r] \in received[r] /\ cursor[r] \in visible /\ Wants(r, cursor[r])
    BY <2>2 DEF CursorsOK
  <2>4. id[f] <= id[cursor[r]]
    BY DEF passed, CommitRow, readers
  <2>5. CASE f = e
    <3>1. id[cursor[r]] > id[f]
      BY <2>1, <2>2, <2>3, <2>4, <2>5 DEF CommitRow, Inserting, PlacesOK
    <3>2. cursor[r] \in overtaken'[f]
      BY <2>1, <2>3, <2>5, <3>1 DEF CommitRow, TypeOK, Wants
    <3> QED
      BY <2>3, <3>2 DEF CommitRow, readers
  <2>6. CASE f # e
    <3>1. f \in passed(r) \ received[r]
      BY <2>1, <2>3, <2>4, <2>6 DEF passed, CommitRow, readers, Wants
    <3> QED
      BY <2>1, <2>6, <3>1 DEF GapsOnlyFromOverlap, CommitRow, readers, TypeOK
  <2> QED
    BY <2>5, <2>6
<1> QED
  BY <1>1, <1>2, <1>3, <1>4, <1>5

LEMMA AbortRowInv ==
  ASSUME StreamInv, NEW e \in Events, AbortRow(e)
  PROVE  StreamInv'
<1> USE DEF StreamInv
<1>1. TypeOK'
  BY DEF AbortRow, readers, TypeOK
<1>2. PlacesOK'
  BY DEF AbortRow, Inserting, PlacesOK, TypeOK
<1>3. MemoryOK'
  BY DEF AbortRow, MemoryOK, TypeOK
<1>4. CursorsOK'
  BY DEF AbortRow, Inserting, readers, CursorsOK, TypeOK, Wants
<1>5. \A r \in Readers : passed(r)' \subseteq passed(r)
  BY DEF passed, AbortRow, Inserting, readers, TypeOK, Wants
<1>6. GapsOnlyFromOverlap'
  BY <1>5 DEF GapsOnlyFromOverlap, AbortRow, readers
<1> QED
  BY <1>1, <1>2, <1>3, <1>4, <1>6

\* What lies past the cursor is received and becomes what the cursor has passed.
LEMMA SubscribeInv ==
  ASSUME StreamInv, NEW r \in Readers, Subscribe(r)
  PROVE  StreamInv'
<1> USE DEF StreamInv
<1>1. PICK last \in subscribe(r) :
        /\ \A e \in subscribe(r) : id[e] <= id[last]
        /\ cursor' = [cursor EXCEPT ![r] = last]
  BY DEF Subscribe
<1>2. subscribe(r) \subseteq {e \in visible : Wants(r, e)}
  BY AnswerIsAfterCursor
<1>3. received' = [received EXCEPT ![r] = received[r] \cup subscribe(r)]
      /\ UNCHANGED <<storage, unborn, id, lastId, visible, overtaken>>
  BY DEF Subscribe, table
<1>4. last \in Events /\ last \in visible /\ Wants(r, last)
  BY <1>1, <1>2 DEF TypeOK
<1>5. TypeOK'
  BY <1>1, <1>2, <1>3, <1>4 DEF TypeOK
<1>6. PlacesOK' /\ MemoryOK'
  BY <1>3 DEF PlacesOK, MemoryOK
<1>7. \A e \in received[r] : id[e] <= id[last]
  <2>1. CASE cursor[r] \in visible
    <3>1. id[cursor[r]] < id[last] /\ cursor[r] \in Events
      BY <1>1, <2>1, AnswerIsAfterCursor DEF TypeOK
    <3> QED
      BY <1>4, <3>1 DEF CursorsOK, TypeOK
  <2>2. CASE cursor[r] \notin visible
    BY <2>2, AnswerWithoutCursor
  <2> QED
    BY <2>1, <2>2
<1>8. CursorsOK'
  <2>1. ASSUME NEW q \in Readers, q # r
        PROVE  cursor'[q] = cursor[q] /\ received'[q] = received[q]
    BY <1>1, <1>3, <2>1 DEF TypeOK
  <2>2. cursor'[r] = last /\ received'[r] = received[r] \cup subscribe(r)
    BY <1>1, <1>3 DEF TypeOK
  <2> QED
    BY <1>1, <1>2, <1>3, <1>7, <2>1, <2>2 DEF CursorsOK, Wants
<1>9. GapsOnlyFromOverlap'
  <2> SUFFICES ASSUME NEW q \in Readers, NEW e \in (passed(q) \ received[q])'
               PROVE  (overtaken[e] \cap received[q])' # {}
    BY DEF GapsOnlyFromOverlap
  <2>1. CASE q # r
    <3>1. e \in passed(q) \ received[q]
      BY <1>1, <1>3, <2>1 DEF passed, TypeOK, Wants
    <3> QED
      BY <1>3, <2>1, <3>1 DEF GapsOnlyFromOverlap, TypeOK
  <2>2. CASE q = r
    <3>1. e \in visible /\ Wants(r, e) /\ e \notin received[r] /\ e \notin subscribe(r)
      BY <1>3, <2>2 DEF passed, TypeOK, Wants
    <3>2. cursor[r] \in visible
      BY <1>1, <3>1, AnswerWithoutCursor
    <3>3. id[e] <= id[cursor[r]]
      BY <3>1, <3>2, AnswerIsAfterCursor DEF TypeOK
    <3>4. e \in passed(r) \ received[r]
      BY <3>1, <3>2, <3>3 DEF passed
    <3> QED
      BY <1>3, <2>2, <3>4 DEF GapsOnlyFromOverlap, TypeOK
  <2> QED
    BY <2>1, <2>2
<1> QED
  BY <1>5, <1>6, <1>8, <1>9

LEMMA RestartInv ==
  ASSUME StreamInv, Restart
  PROVE  StreamInv'
<1> USE DEF StreamInv
<1>1. TypeOK' /\ PlacesOK' /\ MemoryOK'
  BY DEF Restart, TypeOK, PlacesOK, MemoryOK
<1>2. CursorsOK'
  <2> SUFFICES ASSUME NEW r \in Readers, cursor[r] \in Events
               PROVE  cursor[r] \notin unborn
    BY DEF Restart, CursorsOK, TypeOK
  <2>1. CASE cursor[r] \in received[r]
    BY <2>1 DEF CursorsOK, PlacesOK, TypeOK
  <2>2. CASE cursor[r] \notin received[r]
    BY <2>2 DEF CursorsOK
  <2> QED
    BY <2>1, <2>2
<1>3. GapsOnlyFromOverlap'
  BY DEF Restart, GapsOnlyFromOverlap, passed
<1> QED
  BY <1>1, <1>2, <1>3

LEMMA StutterInv ==
  ASSUME StreamInv, UNCHANGED vars
  PROVE  StreamInv'
BY DEF StreamInv, vars, table, readers, TypeOK, PlacesOK, MemoryOK, CursorsOK,
       GapsOnlyFromOverlap, passed, Wants

\* The stream, its places and every reader's cursor stay consistent.
THEOREM StreamStaysConsistent == Spec => []StreamInv
<1>1. Init => StreamInv
  BY InitInv
<1>2. StreamInv /\ [Next]_vars => StreamInv'
  BY AppendInMemoryInv, InsertRowInv, CommitRowInv, AbortRowInv, SubscribeInv,
     RestartInv, StutterInv DEF Next
<1> QED
  BY <1>1, <1>2, PTL DEF Spec

\* Every variable keeps its type (postgresStores.ts 298-319, inMemoryStores.ts 220-232).
THEOREM TypeCorrect == Spec => []TypeOK
<1>1. StreamInv => TypeOK
  BY DEF StreamInv
<1> QED
  BY <1>1, StreamStaysConsistent, PTL

\* A cursor resumes the stream exactly, in either adapter (consistency.md 78).
THEOREM StreamResumesInOrder == Spec => []ResumesInOrder
<1>1. ASSUME StreamInv
      PROVE  ResumesInOrder
  <2> USE <1>1 DEF StreamInv
  <2> SUFFICES ASSUME NEW r \in Readers, NEW e \in subscribe(r), NEW f \in received[r]
               PROVE  id[f] < id[e]
    BY DEF ResumesInOrder
  <2>1. cursor[r] \in visible /\ id[f] <= id[cursor[r]]
    BY DEF CursorsOK
  <2>2. id[e] > id[cursor[r]]
    BY <2>1, AnswerIsAfterCursor
  <2>3. {e, f, cursor[r]} \subseteq Events
    BY <2>1, AnswerIsAfterCursor DEF TypeOK, CursorsOK
  <2> QED
    BY <2>1, <2>2, <2>3 DEF TypeOK
<1> QED
  BY <1>1, StreamStaysConsistent, PTL

\* A reader misses only what was overtaken by an event it was given
\* (postgresStores.ts 298-319).
THEOREM StreamGapsOnlyFromOverlap == Spec => []GapsOnlyFromOverlap
<1>1. StreamInv => GapsOnlyFromOverlap
  BY DEF StreamInv
<1> QED
  BY <1>1, StreamStaysConsistent, PTL

-----------------------------------------------------------------------------
(* In memory, each answer leaves the reader with all there is.             *)

LEMMA AnswerCompletes ==
  ASSUME StreamInv, storage = "in-memory", NEW r \in Readers
  PROVE  received[r] \cup subscribe(r) = {e \in visible : Wants(r, e)}
<1> USE DEF StreamInv
<1>1. received[r] \subseteq {e \in visible : Wants(r, e)}
  BY DEF CursorsOK
<1>2. CASE cursor[r] \notin visible
  BY <1>1, <1>2, AnswerWithoutCursor
<1>3. CASE cursor[r] \in visible
  <2>1. passed(r) \subseteq received[r]
    BY DEF MemoryOK, GapsOnlyFromOverlap, passed, TypeOK
  <2>2. \A e \in visible : Wants(r, e) => e \in passed(r) \/ e \in subscribe(r)
    BY <1>3, AnswerIsAfterCursor DEF passed, TypeOK
  <2> QED
    BY <1>1, <1>3, <2>1, <2>2, AnswerIsAfterCursor
<1> QED
  BY <1>2, <1>3

LEMMA FeedStep ==
  ASSUME StreamInv, Next
  PROVE  Feed!FeedNext \/ UNCHANGED <<IF storage = "in-memory" THEN visible ELSE {},
           IF storage = "in-memory" THEN received ELSE [r \in Readers |-> {}]>>
<1>0. storage' = storage
  BY DEF Next, AppendInMemory, InsertRow, CommitRow, AbortRow, Subscribe, Restart
<1>1. CASE storage # "in-memory"
  BY <1>0, <1>1
<1>2. ASSUME storage = "in-memory", NEW e \in Events, AppendInMemory(e)
      PROVE  Feed!Publish(e)
  <2>1. e \notin visible
    BY <1>2 DEF StreamInv, PlacesOK, AppendInMemory, place
  <2> QED
    BY <1>2, <2>1 DEF Feed!Publish, AppendInMemory, readers
<1>3. ASSUME storage = "in-memory", NEW r \in Readers, Subscribe(r)
      PROVE  Feed!Deliver(r)
  BY <1>0, <1>3, AnswerCompletes DEF Feed!Deliver, Subscribe, table
<1>4. ASSUME storage = "in-memory", Restart
      PROVE  Feed!Forget
  BY <1>4 DEF Feed!Forget, Restart
<1>5. ASSUME storage = "in-memory", NEW e \in Events
      PROVE  ~InsertRow(e) /\ ~CommitRow(e) /\ ~AbortRow(e)
  BY <1>5 DEF InsertRow, CommitRow, AbortRow, Inserting, StreamInv, MemoryOK
<1> QED
  BY <1>1, <1>2, <1>3, <1>4, <1>5 DEF Next, Feed!FeedNext

\* In memory the stream implements the feed that consistency.md promises
\* (inMemoryStores.ts 220-232, service.ts 487-493).
THEOREM InMemoryImplementsFeed == Spec => InMemoryFeed
<1>1. Init => Feed!FeedInit
  BY DEF Init, Feed!FeedInit
<1>2. StreamInv /\ [Next]_vars =>
        [Feed!FeedNext]_<<IF storage = "in-memory" THEN visible ELSE {},
           IF storage = "in-memory" THEN received ELSE [r \in Readers |-> {}]>>
  BY FeedStep DEF vars, table, readers
<1> QED
  BY <1>1, <1>2, StreamStaysConsistent, PTL DEF Spec, InMemoryFeed, Feed!FeedSpec
=============================================================================
