--------------------------- MODULE SqlStoresProofs --------------------------
(***************************************************************************)
(* Theorems about the Postgres adapter, for any scopes, refs and limit.    *)
(*                                                                         *)
(* No row becomes active again: the one statement that writes "active" to  *)
(* a row that exists is UpsertEpisode, and nobody can name the episode     *)
(* before that (IngestOwns).  A deleted row stays tombstoned but for one   *)
(* write, of a dispute whose read came before the deletion (Gone).         *)
(***************************************************************************)
EXTENDS SqlStores, TLAPS

Present(r) == payload[r] # "absent"

\* Objects lie in scopes with a row.
ScopesStored ==
  /\ \A r \in Refs : Present(r) => r.scope \in scopeRow
  /\ ingest.pc # "idle" => ingest.scope \in scopeRow

\* The episode between its two writes is the ingest's own.
IngestOwns ==
  /\ ingest.pc = "index" => Present(ingest.ref)
  /\ ingest.pc = "upsert" =>
       /\ payload[ingest.ref] = "active"
       /\ ingest.ref \notin known
       /\ deletion.pc # "idle" => deletion.ref # ingest.ref

Gone(r) == payload[r] = "tombstoned" \/ (payload[r] = "disputed" /\ r \in overtaken)

\* What a client can name exists, and what was deleted is gone.
DeletionKnows ==
  /\ \A r \in known : Present(r)
  /\ \A r \in deleted : Gone(r)
  /\ deletion.pc # "idle" => Present(deletion.ref)
  /\ deletion.pc \in {"unindex", "episode", "putEpisode", "report"} => Gone(deletion.ref)

\* What is about to be disputed was active when it was read.
DisputeKnows ==
  ingest.pc = "dispute" =>
    /\ Present(ingest.ref)
    /\ payload[ingest.ref] = "tombstoned" => ingest.ref \in overtaken

\* What the query has read so far is still all that is active.
QueryKnows ==
  /\ query.gone \subseteq deleted
  /\ \A r \in query.found : Present(r)
  /\ query.left \subseteq query.found /\ query.candidates \subseteq query.found
  /\ query.pc = "search" =>
       \A r \in query.found \ query.left : payload[r] = "active" => r \in query.candidates
  /\ query.pc = "hydrate" =>
       /\ \A r \in query.found : payload[r] = "active" =>
            r \in query.candidates \/ Cardinality(query.candidates) = Limit
       /\ \A r \in query.candidates \ query.left : payload[r] = "active" => r \in query.refs

TablesInv == TypeOK /\ ScopesStored /\ IngestOwns /\ DeletionKnows /\ DisputeKnows
SqlInv == TablesInv /\ QueryKnows /\ SearchIsComplete /\ DeletedStaysHidden

-----------------------------------------------------------------------------
LEMMA InitSqlInv == Init => SqlInv
  BY RefsAssumption DEF Init, SqlInv, TablesInv, TypeOK, ScopesStored, IngestOwns,
     DeletionKnows, DisputeKnows, QueryKnows, SearchIsComplete, DeletedStaysHidden, Present,
     Gone, known, NoIngest, NoDeletion, NoQuery

\* What an operation leaves alone keeps its type.
LEMMA TypeStep == TypeOK /\ [Next]_vars => TypeOK'
<1> SUFFICES ASSUME TypeOK, [Next]_vars PROVE TypeOK' OBVIOUS
<1> USE ScopesAssumption, RefsAssumption
<1>1. CASE IngestStep
  <2> USE DEF TypeOK, IngestOnly, deletions
  <2>1. CASE \E scope \in IngestScopes, keyed \in BOOLEAN : StartIngest(scope, keyed)
    BY <2>1 DEF StartIngest, storeScope
  <2>2. CASE ResolveDedupeKey \/ AnswerIngest \/ FailIngest
    BY <2>2 DEF ResolveDedupeKey, AnswerIngest, FailIngest, GotoIngest, NoIngest, tables
  <2>6. CASE GetDisputed
    <3>1. PICK r \in Refs : ingest' = [ingest EXCEPT !.pc = "dispute", !.ref = r]
      BY <2>6 DEF GetDisputed, known
    <3>2. ingest' = [pc |-> "dispute", scope |-> ingest.scope, ref |-> r]
      BY <3>1
    <3>3. ingest.scope \in Scopes
      BY <2>6 DEF GetDisputed
    <3> QED BY <2>6, <3>2, <3>3 DEF GetDisputed, tables
  <2>7. CASE PutDisputed
    <3>1. payload' \in [Refs -> {"absent", "active", "disputed", "tombstoned"}]
      BY <2>7 DEF PutDisputed, upsert
    <3>2. ingest' = [pc |-> "link", scope |-> ingest.scope, ref |-> ingest.ref]
      BY <2>7 DEF PutDisputed, GotoIngest
    <3>3. ingest.scope \in Scopes
      BY <2>7 DEF PutDisputed
    <3> QED BY <2>7, <3>1, <3>2, <3>3 DEF PutDisputed
  <2>3. CASE AppendEpisode \/ UpsertAtom
    <3>1. PICK r \in Refs, pc \in {"upsert", "index"} :
            upsert(r, "active") /\ ingest' = [ingest EXCEPT !.pc = pc, !.ref = r]
      BY <2>3 DEF AppendEpisode, UpsertAtom
    <3>2. ingest' = [pc |-> pc, scope |-> ingest.scope, ref |-> r]
      BY <3>1
    <3>3. payload' \in [Refs -> {"absent", "active", "disputed", "tombstoned"}]
      BY <3>1 DEF upsert
    <3> QED BY <2>3, <3>2, <3>3 DEF AppendEpisode, UpsertAtom
  <2>4. CASE UpsertEpisode
    <3>1. payload' \in [Refs -> {"absent", "active", "disputed", "tombstoned"}]
      BY <2>4 DEF UpsertEpisode, upsert
    <3>2. ingest' = [pc |-> "index", scope |-> ingest.scope, ref |-> ingest.ref]
      BY <2>4 DEF UpsertEpisode, GotoIngest
    <3> QED BY <2>4, <3>1, <3>2 DEF UpsertEpisode
  <2>5. CASE IndexObject
    <3>1. ingest' = [pc |-> "atom", scope |-> ingest.scope, ref |-> ingest.ref]
      BY <2>5 DEF IndexObject, GotoIngest
    <3>2. indexRow' \subseteq Refs
      BY <2>5 DEF IndexObject, indexMemory
    <3> QED BY <2>5, <3>1, <3>2 DEF IndexObject
  <2> QED BY <1>1, <2>1, <2>2, <2>3, <2>4, <2>5, <2>6, <2>7 DEF IngestStep
<1>2. CASE DeletionStep
  BY <1>2 DEF TypeOK, DeletionStep, StartDeletion, GetTarget, PutTombstoned, UnindexTarget,
     TombstoneEpisode, AnswerDeletion, FailDeletion, GotoDeletion, DeletionOnly, NoDeletion,
     tables, upsert, removeIndexed, known
<1>3. CASE QueryStep
  <2> USE DEF TypeOK, QueryOnly, tables, deletions
  <2>1. CASE \E scope \in Scopes, includeTombstoned, includeDisputed \in BOOLEAN :
               SelectIndex(scope, includeTombstoned, includeDisputed)
    BY <2>1 DEF SelectIndex
  <2>2. CASE ReadCandidate
    <3>1. PICK r \in query.left :
            query' = [query EXCEPT !.left = @ \ {r},
                        !.candidates = IF isVisible(r) THEN @ \cup {r} ELSE @]
      BY <2>2 DEF ReadCandidate
    <3>2. query'.left \subseteq Refs /\ query'.candidates \subseteq Refs
      BY <3>1
    <3>3. query' = [query EXCEPT !.left = query'.left, !.candidates = query'.candidates]
      BY <3>1
    <3>4. query' \in [pc : {"search", "hydrate", "done"}, includeTombstoned : BOOLEAN,
                      includeDisputed : BOOLEAN, found : SUBSET Refs, left : SUBSET Refs,
                      candidates : SUBSET Refs, refs : SUBSET Refs, gone : SUBSET Refs]
      BY <3>2, <3>3
    <3> QED BY <2>2, <3>4 DEF ReadCandidate
  <2>3. CASE Clip
    <3>1. PICK best \in SUBSET query.candidates :
            query' = [query EXCEPT !.pc = "hydrate", !.left = best, !.candidates = best]
      BY <2>3 DEF Clip
    <3>2. best \subseteq Refs
      BY <3>1
    <3>3. query' \in [pc : {"search", "hydrate", "done"}, includeTombstoned : BOOLEAN,
                      includeDisputed : BOOLEAN, found : SUBSET Refs, left : SUBSET Refs,
                      candidates : SUBSET Refs, refs : SUBSET Refs, gone : SUBSET Refs]
      BY <3>1, <3>2
    <3> QED BY <2>3, <3>3 DEF Clip
  <2>4. CASE Hydrate
    <3>1. PICK r \in query.left :
            query' = [query EXCEPT !.left = @ \ {r},
                        !.refs = IF isVisible(r) THEN @ \cup {r} ELSE @]
      BY <2>4 DEF Hydrate
    <3>2. query'.left \subseteq Refs /\ query'.refs \subseteq Refs
      BY <3>1
    <3>3. query' = [query EXCEPT !.left = query'.left, !.refs = query'.refs]
      BY <3>1
    <3>4. query' \in [pc : {"search", "hydrate", "done"}, includeTombstoned : BOOLEAN,
                      includeDisputed : BOOLEAN, found : SUBSET Refs, left : SUBSET Refs,
                      candidates : SUBSET Refs, refs : SUBSET Refs, gone : SUBSET Refs]
      BY <3>2, <3>3
    <3> QED BY <2>4, <3>4 DEF Hydrate
  <2>5. CASE AnswerQuery
    BY <2>5 DEF AnswerQuery
  <2> QED BY <1>3, <2>1, <2>2, <2>3, <2>4, <2>5 DEF QueryStep
<1>4. CASE UNCHANGED vars
  BY <1>4 DEF TypeOK, vars, tables, deletions
<1> QED BY <1>1, <1>2, <1>3, <1>4 DEF Next

-----------------------------------------------------------------------------
LEMMA TablesStep ==
  TablesInv /\ [Next]_vars => ScopesStored' /\ IngestOwns' /\ DeletionKnows' /\ DisputeKnows'
<1> SUFFICES ASSUME TablesInv, [Next]_vars
             PROVE ScopesStored' /\ IngestOwns' /\ DeletionKnows' /\ DisputeKnows'
  OBVIOUS
<1> USE ScopesAssumption, RefsAssumption DEF TablesInv, TypeOK, ScopesStored, IngestOwns,
    DeletionKnows, DisputeKnows, Present, Gone, known, deletions
<1>1. CASE \E scope \in IngestScopes, keyed \in BOOLEAN : StartIngest(scope, keyed)
  BY <1>1 DEF StartIngest, storeScope, IngestOnly
<1>2. CASE ResolveDedupeKey
  BY <1>2 DEF ResolveDedupeKey, GotoIngest, IngestOnly, NoIngest, tables
<1>3. CASE AppendEpisode
  BY <1>3 DEF AppendEpisode, upsert, IngestOnly
<1>4. CASE UpsertEpisode
  BY <1>4 DEF UpsertEpisode, upsert, GotoIngest, IngestOnly
<1>5. CASE IndexObject
  <2>1. ingest' = [pc |-> "atom", scope |-> ingest.scope, ref |-> ingest.ref]
    BY <1>5 DEF IndexObject, GotoIngest
  <2>2. indexRow' = indexRow \cup {ingest.ref} /\ Present(ingest.ref)
    BY <1>5 DEF IndexObject, indexMemory
  <2>3. UNCHANGED <<scopeRow, payload, deletion, deleted, overtaken>>
    BY <1>5 DEF IndexObject, IngestOnly
  <2> QED BY <1>5, <2>1, <2>2, <2>3 DEF IndexObject
<1>6. CASE UpsertAtom
  <2>1. PICK r \in Refs : /\ payload[r] = "absent" /\ r.scope = ingest.scope
                          /\ payload' = [payload EXCEPT ![r] = "active"]
                          /\ ingest' = [ingest EXCEPT !.pc = "index", !.ref = r]
    BY <1>6 DEF UpsertAtom, upsert
  <2>2. ingest' = [pc |-> "index", scope |-> ingest.scope, ref |-> r]
    BY <2>1
  <2>3. UNCHANGED <<scopeRow, indexRow, deletion, deleted, overtaken>> /\ ingest.pc = "atom"
    BY <1>6 DEF UpsertAtom, IngestOnly
  <2>4. r \notin known /\ r \notin deleted /\ (deletion.pc # "idle" => r # deletion.ref)
    BY <2>1
  <2> QED BY <2>1, <2>2, <2>3, <2>4
<1>7. CASE AnswerIngest \/ FailIngest
  BY <1>7 DEF AnswerIngest, FailIngest, GotoIngest, IngestOnly, NoIngest, tables
<1>8. CASE \E scope \in Scopes, r \in Refs : StartDeletion(scope, r)
  BY <1>8 DEF StartDeletion, DeletionOnly, tables
<1>9. CASE GetTarget \/ TombstoneEpisode
  <2>1. PICK pc \in {"put", "putEpisode", "report"} :
          /\ deletion' = [pc |-> pc, ref |-> deletion.ref]
          /\ pc = "report" => payload[deletion.ref] = "tombstoned"
          /\ pc = "putEpisode" => deletion.pc = "episode"
    BY <1>9 DEF GetTarget, TombstoneEpisode, GotoDeletion
  <2>2. UNCHANGED <<tables, ingest, deleted, overtaken>> /\ deletion.pc # "idle"
    BY <1>9 DEF GetTarget, TombstoneEpisode, DeletionOnly
  <2>3. deletion'.pc = pc /\ deletion'.ref = deletion.ref
    BY <2>1
  <2>4. ScopesStored' /\ IngestOwns' /\ DisputeKnows'
    BY <2>2, <2>3 DEF tables
  <2>5. pc = "putEpisode" => Gone(deletion.ref)
    BY <2>1
  <2>6. DeletionKnows'
    <3>1. (\A r \in known' : Present(r)') /\ (\A r \in deleted' : Gone(r)')
      BY <2>2 DEF tables
    <3>2. Present(deletion.ref)'
      BY <2>2, <2>3 DEF tables
    <3>3. pc # "put" => Gone(deletion.ref)'
      BY <2>1, <2>2, <2>5 DEF tables
    <3> QED BY <2>1, <2>3, <3>1, <3>2, <3>3
  <2> QED BY <2>4, <2>6
<1>10. CASE PutTombstoned
  <2>1. PICK pc \in {"unindex", "report"} : deletion' = [pc |-> pc, ref |-> deletion.ref]
    BY <1>10 DEF PutTombstoned, GotoDeletion
  <2>2. /\ payload' = [payload EXCEPT ![deletion.ref] = "tombstoned"]
        /\ overtaken \subseteq overtaken'
        /\ ingest.pc = "dispute" /\ ingest.ref = deletion.ref => deletion.ref \in overtaken'
        /\ UNCHANGED <<scopeRow, indexRow, deleted, ingest>> /\ deletion.pc # "idle"
    BY <1>10 DEF PutTombstoned, upsert, DeletionOnly
  <2>3. deletion.ref \in Refs /\ Present(deletion.ref) /\ payload'[deletion.ref] = "tombstoned"
    BY <2>2
  <2>4. \A r \in Refs : r # deletion.ref => payload'[r] = payload[r]
    BY <2>2
  <2>5. ScopesStored' /\ IngestOwns'
    BY <2>1, <2>2, <2>3, <2>4
  <2>6. DisputeKnows'
    BY <2>2, <2>3, <2>4
  <2>7. \A r \in Refs : Gone(r) => Gone(r)'
    BY <2>2, <2>3, <2>4
  <2>8. \A r \in known' : Present(r)'
    BY <2>2, <2>3, <2>4
  <2>9. DeletionKnows'
    <3>1. \A r \in deleted' : Gone(r)'
      BY <2>2, <2>7
    <3>2. deletion'.ref = deletion.ref /\ Present(deletion.ref)' /\ Gone(deletion.ref)'
      BY <2>1, <2>3
    <3> QED BY <2>8, <3>1, <3>2
  <2> QED BY <2>5, <2>6, <2>9
<1>11. CASE UnindexTarget
  BY <1>11 DEF UnindexTarget, removeIndexed, GotoDeletion, DeletionOnly
<1>12. CASE AnswerDeletion \/ FailDeletion
  BY <1>12 DEF AnswerDeletion, FailDeletion, GotoDeletion, DeletionOnly, NoDeletion, tables
<1>13. CASE QueryStep
  BY <1>13 DEF QueryStep, SelectIndex, ReadCandidate, Clip, Hydrate, AnswerQuery, QueryOnly,
     tables
<1>14. CASE UNCHANGED vars
  BY <1>14 DEF vars, tables
<1>15. CASE GetDisputed
  BY <1>15 DEF GetDisputed, IngestOnly, tables
<1>16. CASE PutDisputed
  BY <1>16 DEF PutDisputed, upsert, GotoIngest, IngestOnly
<1> QED
  BY <1>1, <1>2, <1>3, <1>4, <1>5, <1>6, <1>7, <1>8, <1>9, <1>10, <1>11, <1>12, <1>13, <1>14,
     <1>15, <1>16
  DEF Next, IngestStep, DeletionStep

\* No row is lost or becomes active again.
LEMMA RowsAge ==
  ASSUME TablesInv, [Next]_vars, NEW r \in Refs, Present(r)
  PROVE  Present(r)' /\ (payload'[r] = "active" => payload[r] = "active")
<1> USE DEF TablesInv, TypeOK, IngestOwns, DeletionKnows, Present
<1>1. CASE IngestStep
  BY <1>1 DEF IngestStep, StartIngest, ResolveDedupeKey, AppendEpisode, UpsertEpisode,
     IndexObject, UpsertAtom, GetDisputed, PutDisputed, AnswerIngest, FailIngest, upsert, tables
<1>2. CASE DeletionStep
  BY <1>2 DEF DeletionStep, StartDeletion, GetTarget, PutTombstoned, UnindexTarget,
     TombstoneEpisode, AnswerDeletion, FailDeletion, upsert, tables
<1>3. CASE QueryStep
  BY <1>3 DEF QueryStep, SelectIndex, ReadCandidate, Clip, Hydrate, AnswerQuery, QueryOnly,
     tables
<1>4. CASE UNCHANGED vars
  BY <1>4 DEF vars, tables
<1> QED BY <1>1, <1>2, <1>3, <1>4 DEF Next

\* A step of another call makes nothing active that the query has passed.
LEMMA OthersHide ==
  ASSUME SqlInv, [Next]_vars, UNCHANGED query, deleted \subseteq deleted', overtaken \subseteq overtaken'
  PROVE  QueryKnows' /\ SearchIsComplete' /\ DeletedStaysHidden'
<1>1. \A r \in query.found : Present(r)' /\ (payload'[r] = "active" => payload[r] = "active")
  BY RowsAge DEF SqlInv, TablesInv, TypeOK, QueryKnows
<1> QED
  BY <1>1 DEF SqlInv, QueryKnows, SearchIsComplete, DeletedStaysHidden

LEMMA QueryStepKeeps == SqlInv /\ QueryStep => QueryKnows' /\ SearchIsComplete' /\ DeletedStaysHidden'
<1> SUFFICES ASSUME SqlInv, QueryStep
             PROVE QueryKnows' /\ SearchIsComplete' /\ DeletedStaysHidden'
  OBVIOUS
<1> USE DEF SqlInv, TablesInv, TypeOK, DeletionKnows, QueryKnows, SearchIsComplete,
    DeletedStaysHidden, isVisible, Present, Gone, QueryOnly, tables, deletions
<1>1. CASE \E scope \in Scopes, includeTombstoned, includeDisputed \in BOOLEAN :
             SelectIndex(scope, includeTombstoned, includeDisputed)
  BY <1>1 DEF SelectIndex, known
<1>2. CASE ReadCandidate
  BY <1>2 DEF ReadCandidate
<1>3. CASE Clip
  BY <1>3 DEF Clip
<1>4. CASE Hydrate
  BY <1>4 DEF Hydrate
<1>5. CASE AnswerQuery
  BY <1>5 DEF AnswerQuery
<1> QED BY <1>1, <1>2, <1>3, <1>4, <1>5 DEF QueryStep

LEMMA NextSqlInv == SqlInv /\ [Next]_vars => SqlInv'
<1> SUFFICES ASSUME SqlInv, [Next]_vars PROVE SqlInv' OBVIOUS
<1>1. TablesInv'
  BY TypeStep, TablesStep DEF SqlInv, TablesInv
<1>2. CASE IngestStep \/ DeletionStep \/ UNCHANGED vars
  <2>1. UNCHANGED query /\ deleted \subseteq deleted' /\ overtaken \subseteq overtaken'
    BY <1>2 DEF IngestStep, StartIngest, ResolveDedupeKey, AppendEpisode, UpsertEpisode,
       IndexObject, UpsertAtom, GetDisputed, PutDisputed, AnswerIngest, FailIngest, IngestOnly,
       DeletionStep, StartDeletion, GetTarget, PutTombstoned, UnindexTarget, TombstoneEpisode,
       AnswerDeletion, FailDeletion, DeletionOnly, deletions, vars
  <2> QED BY <1>1, <2>1, OthersHide DEF SqlInv
<1>3. CASE QueryStep
  BY <1>1, <1>3, QueryStepKeeps DEF SqlInv
<1> QED BY <1>2, <1>3 DEF Next

-----------------------------------------------------------------------------
\* The tables, and what the calls and the query remember of them, stay consistent.
THEOREM SqlStaysConsistent == Spec => []SqlInv
<1>1. Init => SqlInv
  BY InitSqlInv
<1>2. SqlInv /\ [Next]_vars => SqlInv'
  BY NextSqlInv
<1> QED BY <1>1, <1>2, PTL DEF Spec

\* Every variable of the adapter and its calls has its type.
THEOREM TypeCorrect == Spec => []TypeOK
<1>1. SqlInv => TypeOK
  BY DEF SqlInv, TablesInv
<1> QED BY <1>1, SqlStaysConsistent, PTL

\* Over Postgres list returns nothing or throws, for every scope: ingest stores the scope's
\* row before the first object of the scope (service.ts 90, postgresStores.ts 118, 257).
THEOREM ListNeverFinds == Spec => []ListFindsNothing
<1>1. SqlInv => ListFindsNothing
  BY DEF SqlInv, TablesInv, ScopesStored, ListFindsNothing, rowsOf, listThrows, Present
<1> QED BY <1>1, SqlStaysConsistent, PTL

\* A query answers all that stays active, up to its limit (postgresStores.ts 222-244).
THEOREM SearchStaysComplete == Spec => []SearchIsComplete
<1>1. SqlInv => SearchIsComplete
  BY DEF SqlInv
<1> QED BY <1>1, SqlStaysConsistent, PTL

\* Deleted memory is not returned by a later query, however the statements interleave, but
\* for what a dispute read before the deletion, if the query asks for disputed memory
\* (service.ts 769-773).
THEOREM DeletedStaysOut == Spec => []DeletedStaysHidden
<1>1. SqlInv => DeletedStaysHidden
  BY DEF SqlInv
<1> QED BY <1>1, SqlStaysConsistent, PTL
=============================================================================
