--------------------------- MODULE MemoryRuntime ----------------------------
(***************************************************************************)
(* MemoryRuntimeService as a whole: ingest, tombstone, consolidate, query  *)
(* and hydrate calls in progress at once over the same stores.  JavaScript *)
(* runs one of them at a time and switches at each await; there is no lock *)
(* and no transaction.                                                     *)
(***************************************************************************)
EXTENDS Ingest, Tombstone, Consolidate, Query

CONSTANTS
  MaxInFlight,  \* calls in progress at once; 1 is a caller that awaits each call
  MayFail       \* may a store call or a plugin throw, or the process die?

vars == <<stores, ingestVars, tombstoneVars, consolidations, queries>>

TypeOK ==
  /\ StoresTypeOK
  /\ IngestTypeOK
  /\ TombstoneTypeOK
  /\ ConsolidateTypeOK
  /\ QueryTypeOK

Init ==
  /\ StoresInit
  /\ IngestInit
  /\ TombstoneInit
  /\ ConsolidateInit
  /\ QueryInit

InFlight ==
    Cardinality({p \in IngestCalls : ingests[p].pc # "idle"})
  + Cardinality({t \in TombstoneCalls : tombstones[t].pc # "idle"})
  + Cardinality({c \in ConsolidateCalls : consolidations[c].pc # "idle"})
  + Cardinality({q \in QueryCalls : queries[q].pc # "idle"})

\* The refs a client can name: those it was given by an answer, an event, a query
\* or the provenance of what a query returns.
known == index \cup {a.ref : a \in answers} \cup {e.ref : e \in events}
               \cup UNION {sources[r] : r \in index}

\* The refs whose deletion has been answered.
gone == {a.ref : a \in {b \in results : b.status # "not_found"}}

IngestOnly == UNCHANGED <<tombstoneVars, consolidations, queries>>
TombstoneOnly == UNCHANGED <<ingestVars, consolidations, queries>>
ConsolidateOnly == UNCHANGED <<ingestVars, tombstoneVars, queries>>
QueryOnly == UNCHANGED <<ingestVars, tombstoneVars, consolidations>>

Start ==
  /\ InFlight < MaxInFlight
  /\ \/ StartIngest /\ IngestOnly
     \/ StartTombstone(known) /\ TombstoneOnly
     \/ StartConsolidate /\ ConsolidateOnly
     \/ StartQuery(known, gone) /\ QueryOnly

Step ==
  \/ \E p \in IngestCalls : IngestStep(p) /\ IngestOnly
  \/ \E t \in TombstoneCalls : TombstoneStep(t) /\ TombstoneOnly
  \/ \E c \in ConsolidateCalls : ConsolidateStep(c) /\ ConsolidateOnly
  \/ \E q \in QueryCalls : QueryStep(q) /\ QueryOnly

Abandon ==
  /\ MayFail
  /\ \/ \E p \in IngestCalls : AbandonIngest(p) /\ IngestOnly
     \/ \E t \in TombstoneCalls : AbandonTombstone(t) /\ TombstoneOnly
     \/ \E c \in ConsolidateCalls : AbandonConsolidate(c) /\ ConsolidateOnly

Next == Start \/ Step \/ Abandon

Spec == Init /\ [][Next]_vars

\* A call in progress goes on: store calls and plugins settle, and the event loop
\* runs what they resume.
Fairness ==
  /\ \A p \in IngestCalls : WF_vars(IngestStep(p) /\ IngestOnly)
  /\ \A t \in TombstoneCalls : WF_vars(TombstoneStep(t) /\ TombstoneOnly)
  /\ \A c \in ConsolidateCalls : WF_vars(ConsolidateStep(c) /\ ConsolidateOnly)
  /\ \A q \in QueryCalls : WF_vars(QueryStep(q) /\ QueryOnly)

FairSpec == Spec /\ Fairness

-----------------------------------------------------------------------------
(* What holds however calls interleave and fail.                           *)

\* A request named r for deletion, or named a source of r and asked to delete what
\* is derived from it.
Condemned(r) ==
  \E q \in requests : \/ q.ref = r
                      \/ q.policy = "tombstone_derived" /\ q.ref \in sources[r]

\* A deletion of a source of r asked for what is derived from it to be marked.
Marked(r) == \E q \in requests : q.policy = "mark_derived_stale" /\ q.ref \in sources[r]

\* An existing consolidation merged the episode r.
Merged(r) ==
  /\ r.type = "episode"
  /\ \E c \in Refs : Exists(c) /\ c.type = "consolidation" /\ r \in sources[c]

Contradicted(r) == \E l \in links : l.linkType = "contradicts" /\ r \in {l.from, l.to}

\* No memory leaves the active status without a cause on record (service.ts 681,
\* 703, 707, 737, 773), and each cause is a decision of another call.
StatusForCause ==
  \A r \in Refs :
    /\ status[r] = "tombstoned" => Condemned(r)
    /\ status[r] = "pending" => Marked(r)
    /\ status[r] = "superseded" => Merged(r)
    /\ status[r] = "disputed" => Contradicted(r)

\* Provenance leads to objects that exist, inside the scope of the object derived
\* from them (service.ts 159, 546, 569): a consolidation never merges memory of
\* another agent or session.
ProvenanceIntact ==
  \A r \in Refs : \A s \in sources[r] :
    Exists(r) /\ Exists(s) /\ matchesScope(s.scope, r.scope)

\* The cascade looks one level down (service.ts 694: derivedFrom of the ref itself).
\* That reaches everything derived from the ref because what derives from a derived
\* object derives from its sources too, unless they were already condemned.
OneLevelProvenance ==
  \A c, d, s \in Refs :
    d \in sources[c] /\ s \in sources[d] => s \in sources[c] \/ Condemned(s)

\* An episode answered "created" that is still active is in the index
\* (service.ts 134 before 203; 683, 708, 738 after the status changed).
CreatedIsIndexed ==
  \A a \in answers :
    a.result = "created" /\ status[a.ref] = "active" => a.ref \in index

\* Memory that was disputed, superseded, marked stale or deleted never becomes
\* active again (every upsert of the service but those of new objects).
NeverReactivated ==
  [][\A r \in Refs : status[r] \notin {"absent", "active"} => status'[r] # "active"]_vars

\* Every call that is answered or fails is over; every other is over some day.
CallsFinish ==
  /\ \A p \in IngestCalls : ingests[p].pc # "idle" ~> ingests[p].pc = "idle"
  /\ \A t \in TombstoneCalls : tombstones[t].pc # "idle" ~> tombstones[t].pc = "idle"
  /\ \A c \in ConsolidateCalls : consolidations[c].pc # "idle" ~> consolidations[c].pc = "idle"

-----------------------------------------------------------------------------
(* What holds when each call is awaited before the next begins, and which  *)
(* overlapping or failing calls break.                                     *)

\* Nothing brings deleted memory back (data-model.v0.md 251).
TombstoneIsFinal ==
  [][\A r \in Refs : status[r] = "tombstoned" => status'[r] = "tombstoned"]_vars

\* All answers to a scope's dedupe key name one episode (overview.md 80).
OneEpisodePerKey ==
  \A a, b \in answers :
    a.key = b.key /\ a.key # NoKey /\ a.ref.scope = b.ref.scope => a.ref = b.ref

\* A deletion answered under tombstone_derived leaves nothing derived from the ref
\* in the scope of the request (consistency.md 115).
CascadeReachesScope ==
  \A a \in results : \A d \in Refs :
    /\ a.status = "tombstoned" /\ a.policy = "tombstone_derived"
    /\ a.ref \in sources[d] /\ matchesScope(d.scope, a.scope)
    => status[d] = "tombstoned"

\* A query or hydrate that starts after a deletion was answered does not return the
\* deleted ref unless it asks for tombstoned memory (memory-api.v0.md 308).
DeletedStaysHidden ==
  \A q \in QueryCalls :
    "tombstoned" \notin queries[q].shown => queries[q].refs \cap queries[q].gone = {}

\* Between calls the index holds exactly the memory that is neither superseded nor
\* tombstoned, so nothing hidden takes the place of a visible hit.
IndexIsExact ==
  InFlight = 0 =>
    index = {r \in Refs : status[r] \in {"active", "disputed", "pending"}}

-----------------------------------------------------------------------------
(* What the documents say and the code does not do, if a call may fail.     *)

\* An episode an ingest answers for can be queried once no call is in progress,
\* unless it was superseded or deleted (memory-api.v0.md 133).
AnsweredIsIndexed ==
  InFlight = 0 =>
    \A a \in answers :
      status[a.ref] \in {"superseded", "tombstoned"} \/ a.ref \in index
=============================================================================
