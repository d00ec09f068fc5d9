------------------------------- MODULE Query --------------------------------
(***************************************************************************)
(* MemoryRuntimeService.query (service.ts 218-270): the index is searched, *)
(* then the objects are read and filtered by status, then ranked.  The text*)
(* and the limit are left out: every entry of the scope is a candidate.    *)
(***************************************************************************)
EXTENDS MemoryStores

CONSTANTS
  QueryCalls,  \* queries that may be in progress at once
  Filters      \* the filters asked for: sets of statuses to include

VARIABLE queries  \* the local state of each query

IdleQuery == [pc |-> "idle", shown |-> {}, candidates |-> {}, refs |-> {}, gone |-> {}]

QueryState == [pc : {"idle", "read", "return"}, shown : Filters \cup {{}},
               candidates : SUBSET Refs, refs : SUBSET Refs, gone : SUBSET Refs]

QueryTypeOK == queries \in [QueryCalls -> QueryState]

QueryInit == queries = [q \in QueryCalls |-> IdleQuery]

-----------------------------------------------------------------------------
\* search.  gone, the refs already deleted when the query starts, is kept only to
\* state a property.
SearchIndex(q, scope, shown, gone) ==
  /\ queries[q].pc = "idle"
  /\ queries' = [queries EXCEPT ![q] =
       [IdleQuery EXCEPT !.pc = "read", !.shown = shown,
                         !.candidates = search(scope), !.gone = gone]]
  /\ UNCHANGED stores

\* getMany reads every candidate; the filters drop what is not visible now.
ReadCandidates(q) ==
  /\ queries[q].pc = "read"
  /\ queries' = [queries EXCEPT ![q] =
       [@ EXCEPT !.pc = "return", !.candidates = {},
                 !.refs = {r \in queries[q].candidates : Visible(r, queries[q].shown)}]]
  /\ UNCHANGED stores

\* Mutant: hydrate returns whatever exists.
HydrateAll(q, refs, gone) ==
  /\ queries[q].pc = "idle"
  /\ queries' = [queries EXCEPT ![q] =
       [IdleQuery EXCEPT !.pc = "return", !.gone = gone, !.refs = {r \in refs : Exists(r)}]]
  /\ UNCHANGED stores

\* hydrate (service.ts 272-281): the refs asked for are read in one getMany, and
\* what is not tombstoned is returned.
Hydrate(q, refs, gone) ==
  /\ queries[q].pc = "idle"
  /\ queries' = [queries EXCEPT ![q] =
       [IdleQuery EXCEPT !.pc = "return", !.gone = gone,
          !.refs = {r \in refs : Exists(r) /\ status[r] # "tombstoned"}]]
  /\ UNCHANGED stores

ReturnQuery(q) ==
  /\ queries[q].pc = "return"
  /\ queries' = [queries EXCEPT ![q] = IdleQuery]
  /\ UNCHANGED stores

-----------------------------------------------------------------------------
StartQuery(known, gone) ==
  \E q \in QueryCalls :
    \/ \E s \in Scopes, shown \in Filters : SearchIndex(q, s, shown, gone)
    \/ \E refs \in SUBSET known : refs # {} /\ Hydrate(q, refs, gone)

QueryStep(q) ==
  \/ ReadCandidates(q)
  \/ ReturnQuery(q)
=============================================================================
