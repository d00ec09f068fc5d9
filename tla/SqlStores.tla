------------------------------ MODULE SqlStores -----------------------------
(***************************************************************************)
(* The Postgres adapter (postgresStores.ts) under the calls of the service:*)
(* an ingest, a deletion and a query, each a sequence of statements that   *)
(* commit one by one and interleave with those of the other calls.         *)
(*                                                                         *)
(* The table infinicon_objects has a row for each object, under its ref,   *)
(* which the object store and the episode store share, and one for each    *)
(* scope storeScope was given.  A SELECT by scope_key finds the rows of    *)
(* that very scope: a wider scope does not see them.                       *)
(***************************************************************************)
EXTENDS Naturals, FiniteSets, FiniteSetsExt

CONSTANTS
  Scopes,      \* the scopes requests name
  IngestScopes,  \* those of them that ingests name
  Refs,        \* the refs randomId can return: episodes and atoms
  NoRef,
  Limit        \* the limit of a query

ASSUME ScopesAssumption == IngestScopes \subseteq Scopes /\ \A r \in Refs : r.scope \in Scopes
ASSUME RefsAssumption == NoRef \notin Refs
ASSUME LimitAssumption == Limit \in Nat

VARIABLES
  scopeRow,    \* infinicon_objects: the scopes with a row
  payload,     \* infinicon_objects: the status in each object's row
  indexRow,    \* infinicon_index: the refs with a row
  ingest,      \* the ingest in progress
  deletion,    \* the deletion in progress
  query,       \* the query in progress, or the last one
  deleted,     \* the refs whose deletion was answered
  overtaken    \* those deleted between the read and the write of a dispute

tables == <<scopeRow, payload, indexRow>>
deletions == <<deletion, deleted, overtaken>>
vars == <<tables, ingest, deletions, query>>

NoIngest == [pc |-> "idle", scope |-> NoRef, ref |-> NoRef]
NoDeletion == [pc |-> "idle", ref |-> NoRef]
NoQuery == [pc |-> "done", includeTombstoned |-> FALSE, includeDisputed |-> FALSE,
            found |-> {}, left |-> {}, candidates |-> {}, refs |-> {}, gone |-> {}]

TypeOK ==
  /\ scopeRow \subseteq Scopes
  /\ payload \in [Refs -> {"absent", "active", "disputed", "tombstoned"}]
  /\ indexRow \subseteq Refs
  /\ ingest \in [pc : {"idle", "resolve", "append", "upsert", "index", "atom", "dispute", "link"},
                 scope : Scopes \cup {NoRef}, ref : Refs \cup {NoRef}]
  /\ ingest.pc \in {"upsert", "index", "dispute"} => ingest.ref \in Refs
  /\ ingest.pc # "idle" => ingest.scope \in Scopes
  /\ deletion \in [pc : {"idle", "get", "put", "unindex", "episode", "putEpisode", "report"},
                   ref : Refs \cup {NoRef}]
  /\ deletion.pc # "idle" => deletion.ref \in Refs
  /\ query \in [pc : {"search", "hydrate", "done"}, includeTombstoned : BOOLEAN,
                includeDisputed : BOOLEAN, found : SUBSET Refs, left : SUBSET Refs,
                candidates : SUBSET Refs, refs : SUBSET Refs, gone : SUBSET Refs]
  /\ deleted \subseteq Refs /\ overtaken \subseteq Refs

Init ==
  /\ scopeRow = {}
  /\ payload = [r \in Refs |-> "absent"]
  /\ indexRow = {}
  /\ ingest = NoIngest /\ deletion = NoDeletion /\ query = NoQuery
  /\ deleted = {} /\ overtaken = {}

-----------------------------------------------------------------------------
(* The statements.                                                         *)

rowsOf(scope) == {r \in Refs : payload[r] # "absent" /\ r.scope = scope}

\* PostgresObjectStore.list parses the payload of each row.  That of a scope row has no
\* field scope, and matchesScope throws.
listThrows(scope) == scope \in scopeRow

storeScope(scope) == scopeRow' = scopeRow \cup {scope}
upsert(r, status) == payload' = [payload EXCEPT ![r] = status]

indexMemory(r) == indexRow' = indexRow \cup {r}
removeIndexed(r) == indexRow' = indexRow \ {r}

\* isVisibleForRead of an object's row, if there is one.
isVisible(r) ==
  \/ payload[r] = "active"
  \/ payload[r] = "disputed" /\ query.includeDisputed
  \/ payload[r] = "tombstoned" /\ query.includeTombstoned

\* The refs a client or an extractor can name: those that were ever in the index, for only
\* what has a name is disputed or deleted.
known == indexRow \cup {r \in Refs : payload[r] \in {"disputed", "tombstoned"}}

-----------------------------------------------------------------------------
(* ingest (service.ts 88-216) of an episode, and of the atoms and the      *)
(* links extracted.                                                        *)

GotoIngest(pc) ==
  ingest' = IF pc = "idle" THEN NoIngest ELSE [ingest EXCEPT !.pc = pc]
IngestOnly == UNCHANGED <<deletions, query>>

\* Mutant: the scope is not stored.
StartIngestUnscoped(scope, keyed) ==
  /\ ingest.pc = "idle"
  /\ ingest' = [pc |-> IF keyed THEN "resolve" ELSE "append", scope |-> scope,
                ref |-> NoRef]
  /\ UNCHANGED tables /\ IngestOnly

StartIngest(scope, keyed) ==
  /\ ingest.pc = "idle"
  /\ storeScope(scope)
  /\ ingest' = [pc |-> IF keyed THEN "resolve" ELSE "append", scope |-> scope,
                ref |-> NoRef]
  /\ UNCHANGED <<payload, indexRow>> /\ IngestOnly

\* resolveDedupeKey lists the episodes of the scope.  That no episode is found with the
\* key is the only answer it can give (ListFindsNothing); else the ingest is rejected.
ResolveDedupeKey ==
  /\ ingest.pc = "resolve"
  /\ GotoIngest(IF listThrows(ingest.scope) THEN "idle" ELSE "append")
  /\ UNCHANGED tables /\ IngestOnly

\* Mutant: the ref is not kept.
AppendEpisodeUnkept ==
  /\ ingest.pc = "append"
  /\ \E r \in {x \in Refs : payload[x] = "absent" /\ x.scope = ingest.scope
                            /\ x.type = "episode"} : upsert(r, "active")
  /\ ingest' = [ingest EXCEPT !.pc = "upsert"]
  /\ UNCHANGED <<scopeRow, indexRow>> /\ IngestOnly

\* appendEpisode, which is upsert.
AppendEpisode ==
  /\ ingest.pc = "append"
  /\ \E r \in {x \in Refs : payload[x] = "absent" /\ x.scope = ingest.scope
                            /\ x.type = "episode"} :
       /\ upsert(r, "active")
       /\ ingest' = [ingest EXCEPT !.pc = "upsert", !.ref = r]
  /\ UNCHANGED <<scopeRow, indexRow>> /\ IngestOnly

\* The object store writes the row again.
UpsertEpisode ==
  /\ ingest.pc = "upsert"
  /\ upsert(ingest.ref, "active")
  /\ GotoIngest("index")
  /\ UNCHANGED <<scopeRow, indexRow>> /\ IngestOnly

IndexObject ==
  /\ ingest.pc = "index"
  /\ indexMemory(ingest.ref)
  /\ GotoIngest("atom")
  /\ UNCHANGED <<scopeRow, payload>> /\ IngestOnly

\* Another atom.  Its link to the episode is a row that no call here reads.
UpsertAtom ==
  /\ ingest.pc = "atom"
  /\ \E r \in {x \in Refs : payload[x] = "absent" /\ x.scope = ingest.scope
                            /\ x.type = "atom"} :
       /\ upsert(r, "active")
       /\ ingest' = [ingest EXCEPT !.pc = "index", !.ref = r]
  /\ UNCHANGED <<scopeRow, indexRow>> /\ IngestOnly

\* Mutant: the status of the object is not looked at.
GetDisputedAny ==
  /\ ingest.pc \in {"atom", "link"}
  /\ \E r \in known : ingest' = [ingest EXCEPT !.pc = "dispute", !.ref = r]
  /\ UNCHANGED tables /\ IngestOnly

\* applyLinkSideEffects reads an end of a link that contradicts, and goes on with it if it
\* is active.  The links themselves are rows that no call here reads, and one of another
\* type, or with no active end, changes nothing else.
GetDisputed ==
  /\ ingest.pc \in {"atom", "link"}
  /\ \E r \in known :
       /\ payload[r] = "active"
       /\ ingest' = [ingest EXCEPT !.pc = "dispute", !.ref = r]
  /\ UNCHANGED tables /\ IngestOnly

\* It writes {...object, status: "disputed"}, whatever the row holds by now.
PutDisputed ==
  /\ ingest.pc = "dispute"
  /\ upsert(ingest.ref, "disputed")
  /\ GotoIngest("link")
  /\ UNCHANGED <<scopeRow, indexRow>> /\ IngestOnly

AnswerIngest ==
  /\ ingest.pc \in {"atom", "link"}
  /\ GotoIngest("idle")
  /\ UNCHANGED tables /\ IngestOnly

-----------------------------------------------------------------------------
(* tombstone (service.ts 653-730) of one ref, with any cascade policy.     *)

GotoDeletion(pc) ==
  deletion' = IF pc = "idle" THEN NoDeletion ELSE [deletion EXCEPT !.pc = pc]
DeletionOnly == UNCHANGED <<ingest, query>>

\* derivedFrom is made of what list returns, which is nothing (ListFindsNothing): the
\* cascade has no object to go on to.  If list throws, nothing was done.
StartDeletion(scope, r) ==
  /\ deletion.pc = "idle"
  /\ r \in known /\ ~listThrows(scope)
  /\ deletion' = [pc |-> "get", ref |-> r]
  /\ UNCHANGED <<tables, deleted, overtaken>> /\ DeletionOnly

GetTarget ==
  /\ deletion.pc = "get"
  /\ GotoDeletion(IF payload[deletion.ref] = "tombstoned" THEN "report" ELSE "put")
  /\ UNCHANGED <<tables, deleted, overtaken>> /\ DeletionOnly

\* The object's row; or the same row through tombstoneEpisode.
PutTombstoned ==
  /\ deletion.pc \in {"put", "putEpisode"}
  /\ upsert(deletion.ref, "tombstoned")
  /\ overtaken' = overtaken \cup {r \in {deletion.ref} : ingest.pc = "dispute" /\ ingest.ref = r}
  /\ GotoDeletion(IF deletion.pc = "put" THEN "unindex" ELSE "report")
  /\ UNCHANGED <<scopeRow, indexRow, deleted>> /\ DeletionOnly

UnindexTarget ==
  /\ deletion.pc = "unindex"
  /\ removeIndexed(deletion.ref)
  /\ GotoDeletion(IF deletion.ref.type = "episode" THEN "episode" ELSE "report")
  /\ UNCHANGED <<scopeRow, payload, deleted, overtaken>> /\ DeletionOnly

\* tombstoneEpisode reads the row that was just written.
TombstoneEpisode ==
  /\ deletion.pc = "episode"
  /\ GotoDeletion(IF payload[deletion.ref] = "tombstoned" THEN "report" ELSE "putEpisode")
  /\ UNCHANGED <<tables, deleted, overtaken>> /\ DeletionOnly

AnswerDeletion ==
  /\ deletion.pc = "report"
  /\ GotoDeletion("idle")
  /\ deleted' = deleted \cup {deletion.ref}
  /\ UNCHANGED <<tables, overtaken>> /\ DeletionOnly

-----------------------------------------------------------------------------
(* query (service.ts 218-270) and the search it runs.                      *)

QueryOnly == UNCHANGED <<tables, ingest, deletions>>

\* The rows of the index; no index is fresh here, and a strong query is refused.
SelectIndex(scope, includeTombstoned, includeDisputed) ==
  /\ query.pc = "done"
  /\ LET rows == {r \in indexRow : r.scope = scope}
     IN query' = [pc |-> "search", includeTombstoned |-> includeTombstoned,
                  includeDisputed |-> includeDisputed, found |-> rows, left |-> rows,
                  candidates |-> {}, refs |-> {}, gone |-> rows \cap deleted]
  /\ QueryOnly

\* Mutant: clips the rows before it looks at the objects, as the store in memory does.
ReadCandidateClipped ==
  /\ query.pc = "search"
  /\ \E r \in query.left :
       query' = [query EXCEPT !.left = IF Cardinality(query.found \ query.left) + 1 >= Limit
                                       THEN {} ELSE @ \ {r},
                   !.candidates = IF isVisible(r) THEN @ \cup {r} ELSE @]
  /\ QueryOnly

\* One row after the other, search reads the object and keeps it if it is visible.
ReadCandidate ==
  /\ query.pc = "search"
  /\ \E r \in query.left :
       query' = [query EXCEPT !.left = @ \ {r},
                   !.candidates = IF isVisible(r) THEN @ \cup {r} ELSE @]
  /\ QueryOnly

\* The best of them, in any order of their scores, up to the limit.
Clip ==
  /\ query.pc = "search" /\ query.left = {}
  /\ \E best \in SUBSET query.candidates :
       /\ Cardinality(best) <= Limit
       /\ best # query.candidates => Cardinality(best) = Limit
       /\ query' = [query EXCEPT !.pc = "hydrate", !.left = best, !.candidates = best]
  /\ QueryOnly

\* getMany reads each candidate again, and the filters are applied again.
Hydrate ==
  /\ query.pc = "hydrate"
  /\ \E r \in query.left :
       query' = [query EXCEPT !.left = @ \ {r},
                   !.refs = IF isVisible(r) THEN @ \cup {r} ELSE @]
  /\ QueryOnly

AnswerQuery ==
  /\ query.pc = "hydrate" /\ query.left = {}
  /\ query' = [query EXCEPT !.pc = "done"]
  /\ QueryOnly

-----------------------------------------------------------------------------
\* A statement or a plugin throws, or the process dies.
FailIngest == ingest.pc # "idle" /\ GotoIngest("idle") /\ UNCHANGED tables /\ IngestOnly
FailDeletion ==
  /\ deletion.pc # "idle"
  /\ GotoDeletion("idle")
  /\ UNCHANGED <<tables, deleted, overtaken>> /\ DeletionOnly

IngestStep ==
  \/ \E scope \in IngestScopes, keyed \in BOOLEAN : StartIngest(scope, keyed)
  \/ ResolveDedupeKey \/ AppendEpisode \/ UpsertEpisode \/ IndexObject
  \/ UpsertAtom \/ GetDisputed \/ PutDisputed \/ AnswerIngest \/ FailIngest

DeletionStep ==
  \/ \E scope \in Scopes, r \in Refs : StartDeletion(scope, r)
  \/ GetTarget \/ PutTombstoned \/ UnindexTarget \/ TombstoneEpisode
  \/ AnswerDeletion \/ FailDeletion

QueryStep ==
  \/ \E scope \in Scopes, includeTombstoned, includeDisputed \in BOOLEAN :
       SelectIndex(scope, includeTombstoned, includeDisputed)
  \/ ReadCandidate \/ Clip \/ Hydrate \/ AnswerQuery

Next == IngestStep \/ DeletionStep \/ QueryStep

Spec == Init /\ [][Next]_vars

-----------------------------------------------------------------------------
\* A scope that holds objects holds its scope row, so list returns nothing or throws:
\* no dedupe key is ever found, no cascade reaches anything and no consolidation has a
\* source (postgresStores.ts 118, 257; service.ts 90 before 125).
ListFindsNothing == \A scope \in Scopes : rowsOf(scope) = {} \/ listThrows(scope)

\* What was indexed when a query began and is active to the end is answered, unless the
\* limit was filled with what was visible too: rows left behind by deletions take no
\* place (postgresStores.ts 227-231; inMemoryStores.ts 184 clips first).
SearchIsComplete ==
  query.pc = "done" =>
    \A r \in query.found : payload[r] = "active" =>
      r \in query.refs \/ Cardinality(query.candidates) = Limit

\* A query that starts after a deletion was answered does not return the deleted ref,
\* whichever statements it lies between (memory-api.v0.md 308), with one exception: it asks
\* for disputed memory, and a contradiction that had read the ref before its deletion may
\* have written it back (service.ts 769-773).  Such a ref comes back only if a deletion that
\* failed had left its index row behind.
DeletedStaysHidden ==
  ~query.includeTombstoned =>
    query.refs \cap query.gone \subseteq (IF query.includeDisputed THEN overtaken ELSE {})
=============================================================================
