----------------------------- MODULE Tombstone ------------------------------
(***************************************************************************)
(* MemoryRuntimeService.tombstone (service.ts 457-478) and the cascade it  *)
(* runs, executeTombstoneRefs (653-730).  A request of                     *)
(* asyncTombstoneRefThreshold refs or more runs the same cascade later, in *)
(* a job: here the call may start at any time with any refs a client knows,*)
(* tombstoned ones included, so the two are the same steps.                *)
(***************************************************************************)
EXTENDS MemoryStores

CONSTANTS
  TombstoneCalls,  \* tombstone calls that may be in progress at once
  MaxTombstoneRefs,\* refs in one request
  MaxRequests      \* distinct deletions asked for; bounds the history kept of them

VARIABLES
  tombstones,      \* the local state of each tombstone call
  requests,        \* every deletion asked for, as [ref, policy, scope]
  results          \* the answers given, as [ref, policy, scope, status]

tombstoneVars == <<tombstones, requests, results>>

Policies == {"none", "mark_derived_stale", "tombstone_derived"}
Answers == {"tombstoned", "already_tombstoned", "not_found"}
Request == [ref : Refs, policy : Policies, scope : Scopes]
TombstonePcs == {"idle", "next", "put", "unindex", "episode", "derived",
                 "stalePut", "derivedUnindex", "event"}

TombstoneState == [pc : TombstonePcs, scope : Scopes, policy : Policies, refs : SUBSET Refs,
                   allObjects : SUBSET Refs, ref : Refs \cup {NoRef},
                   derived : SUBSET Refs, derivedRef : Refs \cup {NoRef}]

TombstoneTypeOK ==
  /\ tombstones \in [TombstoneCalls -> TombstoneState]
  /\ requests \subseteq Request
  /\ results \subseteq [ref : Refs, policy : Policies, scope : Scopes,
                        status : Answers]

IdleTombstone == [pc |-> "idle", scope |-> CHOOSE s \in Scopes : TRUE,
                  policy |-> "none", refs |-> {}, allObjects |-> {}, ref |-> NoRef,
                  derived |-> {}, derivedRef |-> NoRef]

TombstoneInit ==
  /\ tombstones = [t \in TombstoneCalls |-> IdleTombstone]
  /\ requests = {}
  /\ results = {}

\* Mutant: provenance followed the other way.
derivedFromSwapped(t, r) == {d \in tombstones[t].allObjects : d \in sources[r]}

\* derivedFrom.get(refKey(ref)), from the snapshot the call took when it began.
derivedFrom(t, r) == {d \in tombstones[t].allObjects : r \in sources[d]}

pushResult(t, r, answer) ==
  results' = results \cup {[ref |-> r, policy |-> tombstones[t].policy,
                           scope |-> tombstones[t].scope, status |-> answer]}

-----------------------------------------------------------------------------
\* Takes the snapshot of the scope the whole call works from.
TombstoneCall(t, scope, refs, policy) ==
  /\ tombstones[t].pc = "idle"
  /\ tombstones' = [tombstones EXCEPT ![t] =
       [IdleTombstone EXCEPT !.pc = "next", !.scope = scope, !.policy = policy,
                             !.refs = refs, !.allObjects = list(scope)]]
  /\ requests' = requests \cup {[ref |-> r, policy |-> policy, scope |-> scope] : r \in refs}
  /\ UNCHANGED <<stores, results>>

\* The read of the next ref: one the store does not hold (yet) or already tombstoned
\* is skipped, with everything derived from it.
GetTarget(t) ==
  /\ tombstones[t].pc = "next"
  /\ \E r \in tombstones[t].refs :
       LET rest == tombstones[t].refs \ {r}
       IN \/ /\ ~Exists(r) \/ status[r] = "tombstoned"
             /\ pushResult(t, r, IF Exists(r) THEN "already_tombstoned" ELSE "not_found")
             /\ tombstones' = [tombstones EXCEPT ![t].refs = rest]
          \/ /\ Exists(r) /\ status[r] # "tombstoned"
             /\ tombstones' = [tombstones EXCEPT ![t] =
                  [@ EXCEPT !.refs = rest, !.ref = r, !.pc = "put"]]
             /\ UNCHANGED results
  /\ UNCHANGED <<stores, requests>>

PutTombstoned(t) ==
  /\ tombstones[t].pc = "put"
  /\ upsert(tombstones[t].ref, "tombstoned")
  /\ tombstones' = [tombstones EXCEPT ![t].pc = "unindex"]
  /\ UNCHANGED <<sources, minted, episodeRow, dedupe, index, links, events, requests, results>>

\* Where the cascade starts once the ref itself is done.
StartCascade(t) ==
  LET derived == IF tombstones[t].policy = "none" THEN {}
                 ELSE derivedFrom(t, tombstones[t].ref)
  IN tombstones' = [tombstones EXCEPT ![t] =
       [@ EXCEPT !.pc = IF derived = {} THEN "event" ELSE "derived", !.derived = derived]]

UnindexTarget(t) ==
  /\ tombstones[t].pc = "unindex"
  /\ removeIndexed(tombstones[t].ref)
  /\ IF tombstones[t].ref.type = "episode"
     THEN tombstones' = [tombstones EXCEPT ![t].pc = "episode"]
     ELSE StartCascade(t)
  /\ UNCHANGED <<status, sources, minted, episodeRow, dedupe, links, events, requests, results>>

TombstoneEpisode(t) ==
  /\ tombstones[t].pc = "episode"
  /\ tombstoneEpisode(tombstones[t].ref)
  /\ StartCascade(t)
  /\ UNCHANGED <<status, sources, minted, dedupe, index, links, events, requests, results>>

NextDerived(t, rest) ==
  tombstones' = [tombstones EXCEPT ![t] =
    [@ EXCEPT !.pc = IF rest = {} THEN "event" ELSE "derived",
              !.derived = rest, !.derivedRef = NoRef]]

\* Mutant: marks whatever the derived object has become.
MarkDerivedGetAny(t) ==
  /\ tombstones[t].pc = "derived" /\ tombstones[t].policy = "mark_derived_stale"
  /\ \E d \in tombstones[t].derived :
       tombstones' = [tombstones EXCEPT ![t] =
         [@ EXCEPT !.pc = "stalePut", !.derivedRef = d]]
  /\ UNCHANGED <<stores, requests, results>>

\* mark_derived_stale reads the derived object and, if it is active, writes it
\* back as pending in a later step.
MarkDerivedGet(t) ==
  /\ tombstones[t].pc = "derived" /\ tombstones[t].policy = "mark_derived_stale"
  /\ \E d \in tombstones[t].derived :
       IF status[d] = "active"
       THEN tombstones' = [tombstones EXCEPT ![t] =
              [@ EXCEPT !.pc = "stalePut", !.derivedRef = d]]
       ELSE NextDerived(t, tombstones[t].derived \ {d})
  /\ UNCHANGED <<stores, requests, results>>

MarkDerivedPut(t) ==
  /\ tombstones[t].pc = "stalePut"
  /\ upsert(tombstones[t].derivedRef, "pending")
  /\ NextDerived(t, tombstones[t].derived \ {tombstones[t].derivedRef})
  /\ UNCHANGED <<sources, minted, episodeRow, dedupe, index, links, events, requests, results>>

\* tombstone_derived reads only to find that the object exists, as it does.
TombstoneDerived(t) ==
  /\ tombstones[t].pc = "derived" /\ tombstones[t].policy = "tombstone_derived"
  /\ \E d \in tombstones[t].derived :
       /\ upsert(d, "tombstoned")
       /\ tombstones' = [tombstones EXCEPT ![t] =
            [@ EXCEPT !.pc = "derivedUnindex", !.derivedRef = d]]
  /\ UNCHANGED <<sources, minted, episodeRow, dedupe, index, links, events, requests, results>>

UnindexDerived(t) ==
  /\ tombstones[t].pc = "derivedUnindex"
  /\ removeIndexed(tombstones[t].derivedRef)
  /\ NextDerived(t, tombstones[t].derived \ {tombstones[t].derivedRef})
  /\ UNCHANGED <<status, sources, minted, episodeRow, dedupe, links, events, requests, results>>

\* The event and the answer for this ref.
AnswerTombstoned(t) ==
  /\ tombstones[t].pc = "event"
  /\ appendEvent("memory.tombstoned", tombstones[t].ref)
  /\ pushResult(t, tombstones[t].ref, "tombstoned")
  /\ tombstones' = [tombstones EXCEPT ![t] = [@ EXCEPT !.pc = "next", !.ref = NoRef]]
  /\ UNCHANGED <<status, sources, minted, episodeRow, dedupe, index, links, requests>>

ReturnTombstone(t) ==
  /\ tombstones[t].pc = "next" /\ tombstones[t].refs = {}
  /\ tombstones' = [tombstones EXCEPT ![t] = IdleTombstone]
  /\ UNCHANGED <<stores, requests, results>>

\* A store call throws or the process dies: the rest of the request is dropped.
AbandonTombstone(t) ==
  /\ tombstones[t].pc # "idle"
  /\ tombstones' = [tombstones EXCEPT ![t] = IdleTombstone]
  /\ UNCHANGED <<stores, requests, results>>

-----------------------------------------------------------------------------
StartTombstone(known) ==
  \E t \in TombstoneCalls, s \in Scopes, refs \in SUBSET known, policy \in Policies :
    /\ refs # {} /\ Cardinality(refs) <= MaxTombstoneRefs
    /\ TombstoneCall(t, s, refs, policy)
    /\ Cardinality(requests') <= MaxRequests

TombstoneStep(t) ==
  \/ GetTarget(t)
  \/ PutTombstoned(t)
  \/ UnindexTarget(t)
  \/ TombstoneEpisode(t)
  \/ MarkDerivedGet(t)
  \/ MarkDerivedPut(t)
  \/ TombstoneDerived(t)
  \/ UnindexDerived(t)
  \/ AnswerTombstoned(t)
  \/ ReturnTombstone(t)
=============================================================================
