----------------------------- MODULE EventStream ----------------------------
(***************************************************************************)
(* Lifecycle events: appendEvent by the calls of the service, and readers  *)
(* that poll subscribe (service.ts 480-486) with the id of the last event  *)
(* they were given.  createRuntimeStores keeps the events in memory, or in *)
(* a Postgres table if DATABASE_URL is set.                                *)
(*                                                                         *)
(* An event has a place in the stream, its index in the array or the       *)
(* BIGSERIAL id of its row.  In memory an append takes one step.  The      *)
(* database takes the id from a sequence when the INSERT begins and shows  *)
(* the row when it commits; INSERTs of several connections overlap.        *)
(***************************************************************************)
EXTENDS Naturals, FiniteSets

CONSTANTS
  Events,         \* the events ever appended, with scope and type
  NoEvent,        \* a reader without a cursor
  Readers,
  readerScope,    \* the scope each reader subscribes to
  eventTypes      \* the types it asks for; {} asks for all

ASSUME EventsAssumption == NoEvent \notin Events

VARIABLES
  storage,        \* which adapter the process runs with
  unborn,         \* the events no call has appended yet
  id,             \* the place of each event in the stream, 0 if it has none
  lastId,         \* the last place given
  visible,        \* the events a SELECT, or a look at the array, finds
  cursor,         \* the cursor each reader holds
  received,       \* the events it was given since the process started
  overtaken       \* the later events visible when an event became visible

table == <<unborn, id, lastId, visible, overtaken>>
readers == <<cursor, received>>
vars == <<storage, table, readers>>

TypeOK ==
  /\ storage \in {"in-memory", "postgres"}
  /\ unborn \subseteq Events
  /\ id \in [Events -> Nat]
  /\ lastId \in Nat
  /\ visible \subseteq Events
  /\ cursor \in [Readers -> Events \cup {NoEvent}]
  /\ received \in [Readers -> SUBSET Events]
  /\ overtaken \in [Events -> SUBSET Events]

\* createRuntimeStores looks at DATABASE_URL once.
Init ==
  /\ storage \in {"in-memory", "postgres"}
  /\ unborn = Events
  /\ id = [e \in Events |-> 0]
  /\ lastId = 0
  /\ visible = {}
  /\ cursor = [r \in Readers |-> NoEvent]
  /\ received = [r \in Readers |-> {}]
  /\ overtaken = [e \in Events |-> {}]

Wants(r, e) ==
  /\ e.scope = readerScope[r]
  /\ eventTypes[r] = {} \/ e.type \in eventTypes[r]

-----------------------------------------------------------------------------
\* The next place in the stream goes to e.
place(e) ==
  /\ e \in unborn
  /\ unborn' = unborn \ {e}
  /\ lastId' = lastId + 1
  /\ id' = [id EXCEPT ![e] = lastId + 1]

\* InMemoryMetadataStore.appendEvent pushes on the array of the event's scope.
AppendInMemory(e) ==
  /\ storage = "in-memory"
  /\ place(e)
  /\ visible' = visible \cup {e}
  /\ UNCHANGED <<storage, overtaken, readers>>

\* PostgresMetadataStore.appendEvent, the INSERT ...
InsertRow(e) ==
  /\ storage = "postgres"
  /\ place(e)
  /\ UNCHANGED <<storage, visible, overtaken, readers>>

Inserting == {e \in Events : id[e] > 0 /\ e \notin visible}

\* ... its commit, which the caller awaits ...
CommitRow(e) ==
  /\ e \in Inserting
  /\ visible' = visible \cup {e}
  /\ overtaken' = [overtaken EXCEPT ![e] =
       {f \in visible : f.scope = e.scope /\ id[f] > id[e]}]
  /\ UNCHANGED <<storage, unborn, id, lastId, readers>>

\* ... or its failure, which leaves a gap in the ids.
AbortRow(e) ==
  /\ e \in Inserting
  /\ id' = [id EXCEPT ![e] = 0]
  /\ UNCHANGED <<storage, unborn, lastId, visible, overtaken, readers>>

-----------------------------------------------------------------------------
inScope(scope) == {e \in visible : e.scope = scope}

\* Mutant: slice from the cursor itself.
listInMemoryFrom(scope, c) ==
  IF c \in inScope(scope) THEN {e \in inScope(scope) : id[e] >= id[c]} ELSE inScope(scope)
\* Mutant: nothing after a cursor the store does not know.
listInMemoryKnown(scope, c) ==
  IF c = NoEvent THEN inScope(scope)
  ELSE {e \in inScope(scope) : c \in visible /\ id[e] > id[c]}

\* Mutant: slices one element too far.
listInMemorySkipping(scope, c) ==
  IF c \in inScope(scope) THEN {e \in inScope(scope) : id[e] > id[c] + 1} ELSE inScope(scope)

\* findIndex of a cursor the array does not hold is -1, and the answer is the array.
listInMemory(scope, c) ==
  IF c \in inScope(scope) THEN {e \in inScope(scope) : id[e] > id[c]} ELSE inScope(scope)

\* Mutant: the row after the cursor is skipped.
listRowsSkipping(scope, c) ==
  IF c = NoEvent THEN inScope(scope)
  ELSE {e \in inScope(scope) : c \in visible /\ id[e] > id[c] + 1}

\* The id of a cursor the table does not hold is NULL, and no row is after it.  The
\* subselect looks for the cursor in every scope.
listRows(scope, c) ==
  IF c = NoEvent THEN inScope(scope)
  ELSE {e \in inScope(scope) : c \in visible /\ id[e] > id[c]}

listEvents(scope, c) ==
  IF storage = "postgres" THEN listRows(scope, c) ELSE listInMemory(scope, c)

\* What subscribe would answer the reader now, in the order of the ids.
subscribe(r) == {e \in listEvents(readerScope[r], cursor[r]) : Wants(r, e)}

\* The reader takes the answer and the cursor of its last event.
Subscribe(r) ==
  /\ \E last \in subscribe(r) :
       /\ \A e \in subscribe(r) : id[e] <= id[last]
       /\ cursor' = [cursor EXCEPT ![r] = last]
  /\ received' = [received EXCEPT ![r] = @ \cup subscribe(r)]
  /\ UNCHANGED <<storage, table>>

\* Mutant: counts the places from -1, the last index of an empty array.
RestartIndexed ==
  /\ storage = "in-memory" /\ visible # {}
  /\ visible' = {} /\ lastId' = 0 - 1
  /\ id' = [e \in Events |-> 0]
  /\ overtaken' = [e \in Events |-> {}]
  /\ received' = [r \in Readers |-> {}]
  /\ UNCHANGED <<storage, unborn, cursor>>

\* The process restarts: the arrays are gone, the cursors of its readers are not.  Over
\* a database a restart loses at most the statements in progress (AbortRow).
Restart ==
  /\ storage = "in-memory" /\ visible # {}
  /\ visible' = {} /\ lastId' = 0
  /\ id' = [e \in Events |-> 0]
  /\ overtaken' = [e \in Events |-> {}]
  /\ received' = [r \in Readers |-> {}]
  /\ UNCHANGED <<storage, unborn, cursor>>

Next ==
  \/ \E e \in Events : AppendInMemory(e) \/ InsertRow(e) \/ CommitRow(e) \/ AbortRow(e)
  \/ \E r \in Readers : Subscribe(r)
  \/ Restart

Spec == Init /\ [][Next]_vars

\* Readers poll and statements end.
Fairness ==
  /\ \A r \in Readers : WF_vars(Subscribe(r))
  /\ \A e \in Events : WF_vars(CommitRow(e) \/ AbortRow(e))

FairSpec == Spec /\ Fairness

-----------------------------------------------------------------------------
\* The events the reader's cursor has passed.
passed(r) ==
  {e \in visible : Wants(r, e) /\ cursor[r] \in visible /\ id[e] <= id[cursor[r]]}

\* No answer repeats an event or goes back behind one already given: with a cursor
\* the stream is resumed exactly (consistency.md 78; inMemoryStores.ts 231,
\* postgresStores.ts 296).
ResumesInOrder ==
  \A r \in Readers : \A e \in subscribe(r), f \in received[r] : id[f] < id[e]

\* A reader misses an event only if it was given one that was appended after the
\* missed one and committed before it: calls that append one after the other are
\* never split, and in memory nothing is missed (postgresStores.ts 286, 296).
GapsOnlyFromOverlap ==
  \A r \in Readers : \A e \in passed(r) \ received[r] : overtaken[e] \cap received[r] # {}

\* In memory the runtime keeps the promise of EventFeed: no gap, no repetition, and
\* after a restart a reader with an old cursor is given the whole new stream.  With a
\* database the feed is not implemented (GapsOnlyFromOverlap), and stands still here.
Feed == INSTANCE EventFeed WITH
  published <- IF storage = "in-memory" THEN visible ELSE {},
  delivered <- IF storage = "in-memory" THEN received ELSE [r \in Readers |-> {}]
InMemoryFeed == Feed!FeedSpec

\* Every event a reader wants reaches it, is passed over, or is lost in a restart.
EventsArrive ==
  \A r \in Readers : \A e \in {x \in Events : Wants(r, x)} :
    e \in visible ~> e \in received[r] \cup passed(r) \/ e \notin visible
=============================================================================
