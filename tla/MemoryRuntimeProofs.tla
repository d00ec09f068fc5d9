------------------------- MODULE MemoryRuntimeProofs ------------------------
(***************************************************************************)
(* Proofs about MemoryRuntime, for any scopes, refs, keys, calls and       *)
(* bounds, with or without failures: types, then that provenance stays     *)
(* whole, statuses have their causes and nothing becomes active again,     *)
(* and at last that no call takes steps for ever.                          *)
(***************************************************************************)
EXTENDS MemoryRuntime, FiniteSetTheorems, WellFoundedInduction, TLAPS

-----------------------------------------------------------------------------
(* Types.  A call's locals hold refs, not NoRef, where its code reads them.*)

IngestHolds(p) ==
  /\ ingests[p].pc # "idle" => ingests[p].ref \in Refs
  /\ ingests[p].pc \in {"atomIndex", "atomLink", "disputePut", "disputeEvent"} =>
       ingests[p].atom \in Refs

TombstoneHolds(t) ==
  /\ tombstones[t].pc \notin {"idle", "next"} => tombstones[t].ref \in Refs
  /\ tombstones[t].pc \in {"stalePut", "derivedUnindex"} => tombstones[t].derivedRef \in Refs

ConsolidateHolds(c) ==
  /\ consolidations[c].pc # "idle" => consolidations[c].con \in Refs
  /\ consolidations[c].pc \in {"supersedePut", "unindex", "link", "event"} =>
       consolidations[c].ref \in Refs

TypeInv ==
  /\ TypeOK
  /\ \A p \in IngestCalls : IngestHolds(p)
  /\ \A t \in TombstoneCalls : TombstoneHolds(t)
  /\ \A c \in ConsolidateCalls : ConsolidateHolds(c)

IngestTyped == IngestTypeOK /\ \A p \in IngestCalls : IngestHolds(p)

LEMMA StartIngestType ==
  ASSUME StoresTypeOK, IngestTyped, StartIngest
  PROVE  StoresTypeOK' /\ IngestTyped'
<1>1. PICK p \in IngestCalls, s \in Scopes, k \in Keys \cup {NoKey} : resolveDedupeKey(p, s, k)
  BY DEF StartIngest
<1> DEFINE hit == IF k = NoKey THEN NoRef ELSE dedupe[<<s, k>>]
<1>2. CASE hit # NoRef /\ answer("deduplicated", k, hit) /\ UNCHANGED <<minted, ingests>>
  <2>1. hit \in Refs
    BY <1>2 DEF StoresTypeOK
  <2>2. answers' \subseteq [result : {"created", "deduplicated"}, key : Keys \cup {NoKey}, ref : Refs]
    BY <1>2, <2>1 DEF answer, IngestTyped, IngestTypeOK
  <2>3. StoresTypeOK'
    BY <1>1, <1>2 DEF resolveDedupeKey, StoresTypeOK
  <2> QED
    BY <1>2, <2>2, <2>3 DEF IngestTyped, IngestTypeOK, IngestHolds
<1>3. ASSUME NEW e \in randomId("episode", s),
             minted' = minted \cup {e},
             ingests' = [ingests EXCEPT ![p] =
               [IdleIngest EXCEPT !.pc = "append", !.ref = e, !.key = k]],
             UNCHANGED answers
      PROVE  StoresTypeOK' /\ IngestTyped'
  <2>1. e \in Refs
    BY DEF randomId
  <2>2. [IdleIngest EXCEPT !.pc = "append", !.ref = e, !.key = k] \in IngestState
    BY <2>1 DEF IdleIngest, IngestState, IngestPcs
  <2>3. IngestTyped'
    BY <1>3, <2>1, <2>2 DEF IngestTyped, IngestTypeOK, IngestHolds, IdleIngest
  <2> QED
    BY <1>1, <1>3, <2>1, <2>3 DEF resolveDedupeKey, StoresTypeOK
<1> QED
  BY <1>1, <1>2, <1>3 DEF resolveDedupeKey

\* A step of p that gives it well-typed locals.
LEMMA IngestMoves ==
  ASSUME IngestTyped, NEW p \in IngestCalls, NEW i \in IngestState,
         ingests' = [ingests EXCEPT ![p] = i],
         answers' \subseteq [result : {"created", "deduplicated"}, key : Keys \cup {NoKey}, ref : Refs],
         i.pc # "idle" => i.ref \in Refs,
         i.pc \in {"atomIndex", "atomLink", "disputePut", "disputeEvent"} => i.atom \in Refs
  PROVE  IngestTyped'
BY DEF IngestTyped, IngestTypeOK, IngestHolds

LEMMA IngestStepType ==
  ASSUME StoresTypeOK, IngestTyped, NEW p \in IngestCalls, IngestStep(p)
  PROVE  StoresTypeOK' /\ IngestTyped'
<1> USE DEF IngestPcs
<1>0. /\ ingests[p] \in IngestState
      /\ ingests \in [IngestCalls -> IngestState]
      /\ IngestHolds(p)
      /\ answers \subseteq [result : {"created", "deduplicated"}, key : Keys \cup {NoKey}, ref : Refs]
  BY DEF IngestTyped, IngestTypeOK
<1>1. CASE StoreEpisode(p)
  <2> DEFINE i == [ingests[p] EXCEPT !.pc = "upsert"]
  <2>1. StoresTypeOK'
    BY <1>1, <1>0 DEF StoreEpisode, appendEpisode, StoresTypeOK, IngestState, IngestHolds, EventTypes, Statuses
  <2>2. /\ i \in IngestState
        /\ i.pc # "idle" => i.ref \in Refs
        /\ i.pc \in {"atomIndex", "atomLink", "disputePut", "disputeEvent"} => i.atom \in Refs
    BY <1>1, <1>0 DEF StoreEpisode, IngestState, IngestHolds
  <2>3. ingests' = [ingests EXCEPT ![p] = i]
    BY <1>1, <1>0 DEF StoreEpisode
  <2>4. answers' \subseteq [result : {"created", "deduplicated"}, key : Keys \cup {NoKey}, ref : Refs]
    BY <1>1, <1>0 DEF StoreEpisode, answer, IngestState, IngestHolds
  <2> HIDE DEF i
  <2> QED
    BY <2>1, <2>2, <2>3, <2>4, IngestMoves
<1>2. CASE UpsertEpisode(p)
  <2> DEFINE i == [ingests[p] EXCEPT !.pc = "index"]
  <2>1. StoresTypeOK'
    BY <1>2, <1>0 DEF UpsertEpisode, upsert, StoresTypeOK, IngestState, IngestHolds, EventTypes, Statuses
  <2>2. /\ i \in IngestState
        /\ i.pc # "idle" => i.ref \in Refs
        /\ i.pc \in {"atomIndex", "atomLink", "disputePut", "disputeEvent"} => i.atom \in Refs
    BY <1>2, <1>0 DEF UpsertEpisode, IngestState, IngestHolds
  <2>3. ingests' = [ingests EXCEPT ![p] = i]
    BY <1>2, <1>0 DEF UpsertEpisode
  <2>4. answers' \subseteq [result : {"created", "deduplicated"}, key : Keys \cup {NoKey}, ref : Refs]
    BY <1>2, <1>0 DEF UpsertEpisode, answer, IngestState, IngestHolds
  <2> HIDE DEF i
  <2> QED
    BY <2>1, <2>2, <2>3, <2>4, IngestMoves
<1>3. CASE IndexAtom(p)
  <2> DEFINE i == [ingests[p] EXCEPT !.pc = "atomLink"]
  <2>1. StoresTypeOK'
    BY <1>3, <1>0 DEF IndexAtom, indexMemory, StoresTypeOK, IngestState, IngestHolds, EventTypes, Statuses
  <2>2. /\ i \in IngestState
        /\ i.pc # "idle" => i.ref \in Refs
        /\ i.pc \in {"atomIndex", "atomLink", "disputePut", "disputeEvent"} => i.atom \in Refs
    BY <1>3, <1>0 DEF IndexAtom, IngestState, IngestHolds
  <2>3. ingests' = [ingests EXCEPT ![p] = i]
    BY <1>3, <1>0 DEF IndexAtom
  <2>4. answers' \subseteq [result : {"created", "deduplicated"}, key : Keys \cup {NoKey}, ref : Refs]
    BY <1>3, <1>0 DEF IndexAtom, answer, IngestState, IngestHolds
  <2> HIDE DEF i
  <2> QED
    BY <2>1, <2>2, <2>3, <2>4, IngestMoves
<1>4. CASE createDerivedLink(p)
  <2> DEFINE i == [ingests[p] EXCEPT !.pc = NextDraft(ingests[p].atoms, ingests[p].drafts), !.atom = NoRef]
  <2>1. StoresTypeOK'
    BY <1>4, <1>0 DEF createDerivedLink, addLink, StoresTypeOK, IngestState, IngestHolds, EventTypes, Statuses
  <2>2. /\ i \in IngestState
        /\ i.pc # "idle" => i.ref \in Refs
        /\ i.pc \in {"atomIndex", "atomLink", "disputePut", "disputeEvent"} => i.atom \in Refs
    BY <1>4, <1>0 DEF createDerivedLink, IngestState, IngestHolds, NextDraft
  <2>3. ingests' = [ingests EXCEPT ![p] = i]
    BY <1>4, <1>0 DEF createDerivedLink
  <2>4. answers' \subseteq [result : {"created", "deduplicated"}, key : Keys \cup {NoKey}, ref : Refs]
    BY <1>4, <1>0 DEF createDerivedLink, answer, IngestState, IngestHolds
  <2> HIDE DEF i
  <2> QED
    BY <2>1, <2>2, <2>3, <2>4, IngestMoves
<1>5. CASE DisputePut(p)
  <2> DEFINE i == [ingests[p] EXCEPT !.pc = "disputeEvent"]
  <2>1. StoresTypeOK'
    BY <1>5, <1>0 DEF DisputePut, upsert, StoresTypeOK, IngestState, IngestHolds, EventTypes, Statuses
  <2>2. /\ i \in IngestState
        /\ i.pc # "idle" => i.ref \in Refs
        /\ i.pc \in {"atomIndex", "atomLink", "disputePut", "disputeEvent"} => i.atom \in Refs
    BY <1>5, <1>0 DEF DisputePut, IngestState, IngestHolds
  <2>3. ingests' = [ingests EXCEPT ![p] = i]
    BY <1>5, <1>0 DEF DisputePut
  <2>4. answers' \subseteq [result : {"created", "deduplicated"}, key : Keys \cup {NoKey}, ref : Refs]
    BY <1>5, <1>0 DEF DisputePut, answer, IngestState, IngestHolds
  <2> HIDE DEF i
  <2> QED
    BY <2>1, <2>2, <2>3, <2>4, IngestMoves
<1>6. CASE DisputeEvent(p)
  <2> DEFINE i == [ingests[p] EXCEPT !.sides = @ \ {ingests[p].atom}, !.atom = NoRef,
                  !.pc = NextSide(ingests[p].sides \ {ingests[p].atom}, ingests[p].drafts)]
  <2>1. StoresTypeOK'
    BY <1>6, <1>0 DEF DisputeEvent, appendEvent, StoresTypeOK, IngestState, IngestHolds, EventTypes, Statuses
  <2>2. /\ i \in IngestState
        /\ i.pc # "idle" => i.ref \in Refs
        /\ i.pc \in {"atomIndex", "atomLink", "disputePut", "disputeEvent"} => i.atom \in Refs
    BY <1>6, <1>0 DEF DisputeEvent, IngestState, IngestHolds, NextSide, NextDraft
  <2>3. ingests' = [ingests EXCEPT ![p] = i]
    BY <1>6, <1>0 DEF DisputeEvent
  <2>4. answers' \subseteq [result : {"created", "deduplicated"}, key : Keys \cup {NoKey}, ref : Refs]
    BY <1>6, <1>0 DEF DisputeEvent, answer, IngestState, IngestHolds
  <2> HIDE DEF i
  <2> QED
    BY <2>1, <2>2, <2>3, <2>4, IngestMoves
<1>7. CASE AnswerCreated(p)
  <2> DEFINE i == IdleIngest
  <2>1. StoresTypeOK'
    BY <1>7, <1>0 DEF AnswerCreated, appendEvent, answer, StoresTypeOK, IngestState, IngestHolds, EventTypes, Statuses
  <2>2. /\ i \in IngestState
        /\ i.pc # "idle" => i.ref \in Refs
        /\ i.pc \in {"atomIndex", "atomLink", "disputePut", "disputeEvent"} => i.atom \in Refs
    BY <1>7, <1>0 DEF AnswerCreated, IngestState, IngestHolds, IdleIngest
  <2>3. ingests' = [ingests EXCEPT ![p] = i]
    BY <1>7, <1>0 DEF AnswerCreated
  <2>4. answers' \subseteq [result : {"created", "deduplicated"}, key : Keys \cup {NoKey}, ref : Refs]
    BY <1>7, <1>0 DEF AnswerCreated, answer, IngestState, IngestHolds
  <2> HIDE DEF i
  <2> QED
    BY <2>1, <2>2, <2>3, <2>4, IngestMoves
<1>8. CASE IndexEpisode(p)
  <2>1. PICK atoms \in SUBSET randomId("atom", ingests[p].ref.scope), drafts \in SUBSET Contradicting :
          /\ minted' = minted \cup atoms
          /\ ingests' = [ingests EXCEPT ![p] =
               [@ EXCEPT !.pc = NextDraft(atoms, drafts), !.atoms = atoms, !.drafts = drafts]]
    BY <1>8 DEF IndexEpisode
  <2> DEFINE i == [ingests[p] EXCEPT !.pc = NextDraft(atoms, drafts), !.atoms = atoms, !.drafts = drafts]
  <2>2. atoms \subseteq Refs /\ drafts \subseteq Contradicts
    BY DEF randomId, Contradicting
  <2>3. StoresTypeOK'
    BY <1>8, <1>0, <2>1, <2>2 DEF IndexEpisode, indexMemory, StoresTypeOK, IngestState, IngestHolds
  <2>4. /\ i \in IngestState
        /\ i.pc # "idle" => i.ref \in Refs
        /\ i.pc \in {"atomIndex", "atomLink", "disputePut", "disputeEvent"} => i.atom \in Refs
    BY <1>8, <1>0, <2>2 DEF IndexEpisode, IngestState, IngestHolds, NextDraft
  <2>5. ingests' = [ingests EXCEPT ![p] = i]
    BY <1>0, <2>1
  <2>6. answers' = answers
    BY <1>8 DEF IndexEpisode
  <2> HIDE DEF i
  <2> QED
    BY <1>0, <2>3, <2>4, <2>5, <2>6, IngestMoves
<1>9. CASE UpsertAtom(p)
  <2>1. PICK a \in ingests[p].atoms :
          /\ upsert(a, "active")
          /\ sources' = [sources EXCEPT ![a] = {ingests[p].ref}]
          /\ ingests' = [ingests EXCEPT ![p] =
               [@ EXCEPT !.pc = "atomIndex", !.atom = a, !.atoms = ingests[p].atoms \ {a}]]
    BY <1>9 DEF UpsertAtom
  <2> DEFINE i == [ingests[p] EXCEPT !.pc = "atomIndex", !.atom = a, !.atoms = ingests[p].atoms \ {a}]
  <2>2. a \in Refs
    BY <1>0 DEF IngestState
  <2>3. StoresTypeOK'
    BY <1>9, <1>0, <2>1, <2>2 DEF UpsertAtom, upsert, StoresTypeOK, IngestState, IngestHolds, Statuses
  <2>4. /\ i \in IngestState
        /\ i.pc # "idle" => i.ref \in Refs
        /\ i.pc \in {"atomIndex", "atomLink", "disputePut", "disputeEvent"} => i.atom \in Refs
    BY <1>9, <1>0, <2>2 DEF UpsertAtom, IngestState, IngestHolds
  <2>5. ingests' = [ingests EXCEPT ![p] = i]
    BY <1>0, <2>1
  <2>6. answers' = answers
    BY <1>9 DEF UpsertAtom
  <2> HIDE DEF i
  <2> QED
    BY <1>0, <2>3, <2>4, <2>5, <2>6, IngestMoves
<1>10. CASE AddContradicts(p)
  <2>1. PICK draft \in ingests[p].drafts :
          /\ addLink("contradicts", draft[1], draft[2])
          /\ ingests' = [ingests EXCEPT ![p] =
               [@ EXCEPT !.pc = "disputeGet", !.drafts = ingests[p].drafts \ {draft},
                         !.sides = {draft[1], draft[2]}]]
    BY <1>10 DEF AddContradicts
  <2> DEFINE i == [ingests[p] EXCEPT !.pc = "disputeGet", !.drafts = ingests[p].drafts \ {draft},
                                     !.sides = {draft[1], draft[2]}]
  <2>2. draft[1] \in Refs /\ draft[2] \in Refs
    BY <1>0, ContradictsAssumption DEF IngestState
  <2>3. StoresTypeOK'
    BY <1>10, <1>0, <2>1, <2>2 DEF AddContradicts, addLink, StoresTypeOK
  <2>4. /\ i \in IngestState
        /\ i.pc # "idle" => i.ref \in Refs
        /\ i.pc \in {"atomIndex", "atomLink", "disputePut", "disputeEvent"} => i.atom \in Refs
    BY <1>10, <1>0, <2>2 DEF AddContradicts, IngestState, IngestHolds
  <2>5. ingests' = [ingests EXCEPT ![p] = i]
    BY <1>0, <2>1
  <2>6. answers' = answers
    BY <1>10 DEF AddContradicts
  <2> HIDE DEF i
  <2> QED
    BY <1>0, <2>3, <2>4, <2>5, <2>6, IngestMoves
<1>11. CASE DisputeGet(p)
  <2>1. PICK r \in ingests[p].sides :
          ingests' = [ingests EXCEPT ![p] =
            IF status[r] = "active" THEN [@ EXCEPT !.pc = "disputePut", !.atom = r]
            ELSE [@ EXCEPT !.sides = ingests[p].sides \ {r},
                    !.pc = NextSide(ingests[p].sides \ {r}, ingests[p].drafts)]]
    BY <1>11 DEF DisputeGet
  <2>2. r \in Refs /\ answers' = answers /\ StoresTypeOK'
    BY <1>11, <1>0 DEF DisputeGet, IngestState, stores, StoresTypeOK
  <2>3. CASE status[r] = "active"
    <3> DEFINE i == [ingests[p] EXCEPT !.pc = "disputePut", !.atom = r]
    <3>1. ingests' = [ingests EXCEPT ![p] = i]
      BY <1>0, <2>1, <2>3
    <3>2. i \in IngestState /\ i.ref \in Refs /\ i.atom \in Refs
      BY <1>11, <1>0, <2>2 DEF DisputeGet, IngestState, IngestHolds
    <3> HIDE DEF i
    <3> QED
      BY <1>0, <2>2, <3>1, <3>2, IngestMoves
  <2>4. CASE status[r] # "active"
    <3> DEFINE rest == ingests[p].sides \ {r}
               i == [ingests[p] EXCEPT !.sides = rest, !.pc = NextSide(rest, ingests[p].drafts)]
    <3>1. ingests' = [ingests EXCEPT ![p] = i]
      BY <1>0, <2>1, <2>4
    <3>2. /\ i \in IngestState /\ i.ref \in Refs
          /\ i.pc \notin {"atomIndex", "atomLink", "disputePut", "disputeEvent"}
      BY <1>11, <1>0, <2>2 DEF DisputeGet, IngestState, IngestHolds, NextSide, NextDraft
    <3> HIDE DEF i
    <3> QED
      BY <1>0, <2>2, <3>1, <3>2, IngestMoves
  <2> QED
    BY <2>3, <2>4
<1> QED
  BY <1>1, <1>2, <1>3, <1>4, <1>5, <1>6, <1>7, <1>8, <1>9, <1>10, <1>11 DEF IngestStep

TombstoneTyped == TombstoneTypeOK /\ \A t \in TombstoneCalls : TombstoneHolds(t)

\* A step of t that gives it well-typed locals.
LEMMA TombstoneMoves ==
  ASSUME TombstoneTyped, NEW t \in TombstoneCalls, NEW u \in TombstoneState,
         tombstones' = [tombstones EXCEPT ![t] = u],
         requests' \subseteq Request,
         results' \subseteq [ref : Refs, policy : Policies, scope : Scopes, status : Answers],
         u.pc \notin {"idle", "next"} => u.ref \in Refs,
         u.pc \in {"stalePut", "derivedUnindex"} => u.derivedRef \in Refs
  PROVE  TombstoneTyped'
BY DEF TombstoneTyped, TombstoneTypeOK, TombstoneHolds

LEMMA IdleTombstoneType == IdleTombstone \in TombstoneState
BY ScopesAssumption DEF IdleTombstone, TombstoneState, TombstonePcs, Policies

\* The cascade keeps the types, whether it starts or finds nothing derived.
LEMMA StartCascadeType ==
  ASSUME TombstoneTyped, NEW t \in TombstoneCalls, tombstones[t].ref \in Refs,
         StartCascade(t), UNCHANGED <<requests, results>>
  PROVE  TombstoneTyped'
<1> DEFINE derived == IF tombstones[t].policy = "none" THEN {}
                      ELSE derivedFrom(t, tombstones[t].ref)
           u == [tombstones[t] EXCEPT !.pc = IF derived = {} THEN "event" ELSE "derived",
                                      !.derived = derived]
<1>0. tombstones[t] \in TombstoneState /\ tombstones \in [TombstoneCalls -> TombstoneState]
  BY DEF TombstoneTyped, TombstoneTypeOK
<1>1. derived \in SUBSET Refs
  BY <1>0 DEF derivedFrom, TombstoneState
<1>2. tombstones' = [tombstones EXCEPT ![t] = u]
  BY <1>0 DEF StartCascade
<1> HIDE DEF derived
<1>3. u \in TombstoneState /\ u.ref \in Refs /\ u.pc \in {"event", "derived"}
  BY <1>0, <1>1 DEF TombstoneState, TombstonePcs
<1> HIDE DEF u
<1> QED
  BY <1>2, <1>3, TombstoneMoves DEF TombstoneTyped, TombstoneTypeOK

LEMMA NextDerivedType ==
  ASSUME TombstoneTyped, NEW t \in TombstoneCalls, tombstones[t].ref \in Refs,
         NEW rest \in SUBSET Refs,
         NextDerived(t, rest), UNCHANGED <<requests, results>>
  PROVE  TombstoneTyped'
<1> DEFINE u == [tombstones[t] EXCEPT !.pc = IF rest = {} THEN "event" ELSE "derived",
                                      !.derived = rest, !.derivedRef = NoRef]
<1>0. tombstones[t] \in TombstoneState /\ tombstones \in [TombstoneCalls -> TombstoneState]
  BY DEF TombstoneTyped, TombstoneTypeOK
<1>1. tombstones' = [tombstones EXCEPT ![t] = u]
  BY <1>0 DEF NextDerived
<1>2. u \in TombstoneState /\ u.ref \in Refs /\ u.pc \in {"event", "derived"}
  BY <1>0 DEF TombstoneState, TombstonePcs
<1> HIDE DEF u
<1> QED
  BY <1>1, <1>2, TombstoneMoves DEF TombstoneTyped, TombstoneTypeOK

LEMMA StartTombstoneType ==
  ASSUME StoresTypeOK, TombstoneTyped, NEW K \in SUBSET Refs, StartTombstone(K)
  PROVE  StoresTypeOK' /\ TombstoneTyped'
<1>1. PICK t \in TombstoneCalls, s \in Scopes, refs \in SUBSET K, policy \in Policies :
        TombstoneCall(t, s, refs, policy)
  BY DEF StartTombstone
<1> DEFINE u == [IdleTombstone EXCEPT !.pc = "next", !.scope = s, !.policy = policy,
                                      !.refs = refs, !.allObjects = list(s)]
<1>2. u \in TombstoneState /\ u.pc = "next"
  BY IdleTombstoneType DEF TombstoneState, TombstonePcs, list
<1>3. tombstones' = [tombstones EXCEPT ![t] = u]
  BY <1>1 DEF TombstoneCall
<1>4. requests' \subseteq Request
  BY <1>1 DEF TombstoneCall, Request, TombstoneTyped, TombstoneTypeOK
<1>5. StoresTypeOK' /\ results' = results
  BY <1>1 DEF TombstoneCall, stores, StoresTypeOK
<1> HIDE DEF u
<1> QED
  BY <1>2, <1>3, <1>4, <1>5, TombstoneMoves DEF TombstoneTyped, TombstoneTypeOK

LEMMA TombstoneStepType ==
  ASSUME StoresTypeOK, TombstoneTyped, NEW t \in TombstoneCalls, TombstoneStep(t)
  PROVE  StoresTypeOK' /\ TombstoneTyped'
<1> USE DEF TombstonePcs, Answers
<1>0. /\ tombstones[t] \in TombstoneState
      /\ tombstones \in [TombstoneCalls -> TombstoneState]
      /\ TombstoneHolds(t)
      /\ requests \subseteq Request
      /\ results \subseteq [ref : Refs, policy : Policies, scope : Scopes, status : Answers]
  BY DEF TombstoneTyped, TombstoneTypeOK
<1>1. CASE GetTarget(t)
  <2>1. StoresTypeOK' /\ requests' = requests
    BY <1>1 DEF GetTarget, stores, StoresTypeOK
  <2>2. PICK r \in tombstones[t].refs :
          \/ /\ pushResult(t, r, IF Exists(r) THEN "already_tombstoned" ELSE "not_found")
             /\ tombstones' = [tombstones EXCEPT ![t].refs = tombstones[t].refs \ {r}]
          \/ /\ tombstones' = [tombstones EXCEPT ![t] =
                  [@ EXCEPT !.refs = tombstones[t].refs \ {r}, !.ref = r, !.pc = "put"]]
             /\ UNCHANGED results
    BY <1>1 DEF GetTarget
  <2>3. r \in Refs
    BY <1>0 DEF TombstoneState
  <2>4. CASE /\ pushResult(t, r, IF Exists(r) THEN "already_tombstoned" ELSE "not_found")
             /\ tombstones' = [tombstones EXCEPT ![t].refs = tombstones[t].refs \ {r}]
    <3> DEFINE u == [tombstones[t] EXCEPT !.refs = tombstones[t].refs \ {r}]
    <3>1. tombstones' = [tombstones EXCEPT ![t] = u]
      BY <1>0, <2>4
    <3>2. u \in TombstoneState /\ u.pc = "next"
      BY <1>0, <1>1 DEF GetTarget, TombstoneState
    <3>3. results' \subseteq [ref : Refs, policy : Policies, scope : Scopes, status : Answers]
      BY <1>0, <2>3, <2>4 DEF pushResult, TombstoneState
    <3> HIDE DEF u
    <3> QED
      BY <1>0, <2>1, <3>1, <3>2, <3>3, TombstoneMoves
  <2>5. CASE /\ tombstones' = [tombstones EXCEPT ![t] =
                  [@ EXCEPT !.refs = tombstones[t].refs \ {r}, !.ref = r, !.pc = "put"]]
             /\ UNCHANGED results
    <3> DEFINE u == [tombstones[t] EXCEPT !.refs = tombstones[t].refs \ {r}, !.ref = r, !.pc = "put"]
    <3>1. tombstones' = [tombstones EXCEPT ![t] = u]
      BY <1>0, <2>5
    <3>2. u \in TombstoneState /\ u.ref \in Refs /\ u.pc = "put"
      BY <1>0, <2>3 DEF TombstoneState
    <3> HIDE DEF u
    <3> QED
      BY <1>0, <2>1, <2>5, <3>1, <3>2, TombstoneMoves
  <2> QED
    BY <2>2, <2>4, <2>5
<1>2. CASE PutTombstoned(t)
  <2> DEFINE u == [tombstones[t] EXCEPT !.pc = "unindex"]
  <2>1. StoresTypeOK' /\ requests' = requests /\ results' \subseteq [ref : Refs, policy : Policies, scope : Scopes, status : Answers]
    BY <1>2, <1>0 DEF PutTombstoned, upsert, StoresTypeOK, Statuses, EventTypes, TombstoneState, TombstoneHolds
  <2>2. tombstones' = [tombstones EXCEPT ![t] = u]
    BY <1>2, <1>0 DEF PutTombstoned
  <2>3. u \in TombstoneState /\ u.pc = "unindex" /\ u.ref \in Refs
    BY <1>2, <1>0, IdleTombstoneType DEF PutTombstoned, TombstoneState, TombstoneHolds
  <2> HIDE DEF u
  <2> QED
    BY <1>0, <2>1, <2>2, <2>3, TombstoneMoves
<1>3. CASE UnindexTarget(t)
  <2>1. StoresTypeOK' /\ UNCHANGED <<requests, results>> /\ tombstones[t].ref \in Refs
    BY <1>3, <1>0 DEF UnindexTarget, removeIndexed, StoresTypeOK, TombstoneHolds
  <2>2. CASE tombstones' = [tombstones EXCEPT ![t].pc = "episode"]
    <3> DEFINE u == [tombstones[t] EXCEPT !.pc = "episode"]
    <3>1. tombstones' = [tombstones EXCEPT ![t] = u] /\ u \in TombstoneState
          /\ u.pc = "episode" /\ u.ref \in Refs
      BY <1>0, <2>1, <2>2 DEF TombstoneState
    <3> HIDE DEF u
    <3> QED
      BY <1>0, <2>1, <3>1, TombstoneMoves
  <2> QED
    BY <1>3, <2>1, <2>2, StartCascadeType DEF UnindexTarget
<1>4. CASE TombstoneEpisode(t)
  <2>1. StoresTypeOK' /\ UNCHANGED <<requests, results>> /\ tombstones[t].ref \in Refs
    BY <1>4, <1>0 DEF TombstoneEpisode, tombstoneEpisode, StoresTypeOK, TombstoneHolds
  <2> QED
    BY <1>4, <2>1, StartCascadeType DEF TombstoneEpisode
<1>5. CASE MarkDerivedGet(t)
  <2>1. StoresTypeOK' /\ UNCHANGED <<requests, results>> /\ tombstones[t].ref \in Refs
    BY <1>5, <1>0 DEF MarkDerivedGet, stores, StoresTypeOK, TombstoneHolds
  <2>2. PICK d \in tombstones[t].derived :
          IF status[d] = "active"
          THEN tombstones' = [tombstones EXCEPT ![t] =
                 [@ EXCEPT !.pc = "stalePut", !.derivedRef = d]]
          ELSE NextDerived(t, tombstones[t].derived \ {d})
    BY <1>5 DEF MarkDerivedGet
  <2>3. d \in Refs /\ tombstones[t].derived \ {d} \in SUBSET Refs
    BY <1>0 DEF TombstoneState
  <2>4. CASE status[d] = "active"
    <3> DEFINE u == [tombstones[t] EXCEPT !.pc = "stalePut", !.derivedRef = d]
    <3>1. tombstones' = [tombstones EXCEPT ![t] = u]
      BY <1>0, <2>2, <2>4
    <3>2. u \in TombstoneState /\ u.ref \in Refs /\ u.derivedRef \in Refs
      BY <1>0, <2>1, <2>3 DEF TombstoneState
    <3> HIDE DEF u
    <3> QED
      BY <1>0, <2>1, <3>1, <3>2, TombstoneMoves
  <2> QED
    BY <2>1, <2>2, <2>3, <2>4, NextDerivedType
<1>6. CASE MarkDerivedPut(t)
  <2>1. /\ tombstones[t].ref \in Refs /\ tombstones[t].derivedRef \in Refs
        /\ tombstones[t].derived \ {tombstones[t].derivedRef} \in SUBSET Refs
    BY <1>6, <1>0 DEF MarkDerivedPut, TombstoneHolds, TombstoneState
  <2>2. StoresTypeOK' /\ UNCHANGED <<requests, results>>
    BY <1>6, <2>1 DEF MarkDerivedPut, upsert, StoresTypeOK, Statuses
  <2> QED
    BY <1>6, <2>1, <2>2, NextDerivedType DEF MarkDerivedPut
<1>7. CASE TombstoneDerived(t)
  <2>1. PICK d \in tombstones[t].derived :
          /\ upsert(d, "tombstoned")
          /\ tombstones' = [tombstones EXCEPT ![t] =
               [@ EXCEPT !.pc = "derivedUnindex", !.derivedRef = d]]
    BY <1>7 DEF TombstoneDerived
  <2>2. d \in Refs /\ tombstones[t].ref \in Refs
    BY <1>7, <1>0 DEF TombstoneDerived, TombstoneState, TombstoneHolds
  <2>3. StoresTypeOK' /\ UNCHANGED <<requests, results>>
    BY <1>7, <2>1, <2>2 DEF TombstoneDerived, upsert, StoresTypeOK, Statuses
  <2> DEFINE u == [tombstones[t] EXCEPT !.pc = "derivedUnindex", !.derivedRef = d]
  <2>4. tombstones' = [tombstones EXCEPT ![t] = u]
    BY <1>0, <2>1
  <2>5. u \in TombstoneState /\ u.ref \in Refs /\ u.derivedRef \in Refs
    BY <1>0, <2>2 DEF TombstoneState
  <2> HIDE DEF u
  <2> QED
    BY <1>0, <2>3, <2>4, <2>5, TombstoneMoves
<1>8. CASE UnindexDerived(t)
  <2>1. /\ tombstones[t].ref \in Refs
        /\ tombstones[t].derived \ {tombstones[t].derivedRef} \in SUBSET Refs
    BY <1>8, <1>0 DEF UnindexDerived, TombstoneHolds, TombstoneState
  <2>2. StoresTypeOK' /\ UNCHANGED <<requests, results>>
    BY <1>8 DEF UnindexDerived, removeIndexed, StoresTypeOK
  <2> QED
    BY <1>8, <2>1, <2>2, NextDerivedType DEF UnindexDerived
<1>9. CASE AnswerTombstoned(t)
  <2> DEFINE u == [tombstones[t] EXCEPT !.pc = "next", !.ref = NoRef]
  <2>1. StoresTypeOK' /\ requests' = requests /\ results' \subseteq [ref : Refs, policy : Policies, scope : Scopes, status : Answers]
    BY <1>9, <1>0 DEF AnswerTombstoned, appendEvent, pushResult, StoresTypeOK, Statuses, EventTypes, TombstoneState, TombstoneHolds
  <2>2. tombstones' = [tombstones EXCEPT ![t] = u]
    BY <1>9, <1>0 DEF AnswerTombstoned
  <2>3. u \in TombstoneState /\ u.pc = "next"
    BY <1>9, <1>0, IdleTombstoneType DEF AnswerTombstoned, TombstoneState, TombstoneHolds
  <2> HIDE DEF u
  <2> QED
    BY <1>0, <2>1, <2>2, <2>3, TombstoneMoves
<1>10. CASE ReturnTombstone(t)
  <2> DEFINE u == IdleTombstone
  <2>1. StoresTypeOK' /\ requests' = requests /\ results' \subseteq [ref : Refs, policy : Policies, scope : Scopes, status : Answers]
    BY <1>10, <1>0 DEF ReturnTombstone, stores, StoresTypeOK, Statuses, EventTypes, TombstoneState, TombstoneHolds
  <2>2. tombstones' = [tombstones EXCEPT ![t] = u]
    BY <1>10, <1>0 DEF ReturnTombstone
  <2>3. u \in TombstoneState /\ u.pc = "idle"
    BY <1>10, <1>0, IdleTombstoneType DEF ReturnTombstone, TombstoneState, TombstoneHolds, IdleTombstone
  <2> HIDE DEF u
  <2> QED
    BY <1>0, <2>1, <2>2, <2>3, TombstoneMoves
<1> QED
  BY <1>1, <1>2, <1>3, <1>4, <1>5, <1>6, <1>7, <1>8, <1>9, <1>10 DEF TombstoneStep

ConsolidateTyped == ConsolidateTypeOK /\ \A c \in ConsolidateCalls : ConsolidateHolds(c)

\* A step of c that gives it well-typed locals.
LEMMA ConsolidateMoves ==
  ASSUME ConsolidateTyped, NEW c \in ConsolidateCalls, NEW u \in ConsolidateState,
         consolidations' = [consolidations EXCEPT ![c] = u],
         u.pc # "idle" => u.con \in Refs,
         u.pc \in {"supersedePut", "unindex", "link", "event"} => u.ref \in Refs
  PROVE  ConsolidateTyped'
BY DEF ConsolidateTyped, ConsolidateTypeOK, ConsolidateHolds

LEMMA IdleConsolidateType == IdleConsolidate \in ConsolidateState /\ IdleConsolidate.pc = "idle"
BY DEF IdleConsolidate, ConsolidateState, ConsolidatePcs

LEMMA NextSupersededType ==
  ASSUME ConsolidateTyped, NEW c \in ConsolidateCalls, consolidations[c].con \in Refs,
         NEW left \in SUBSET Refs, NextSuperseded(c, left)
  PROVE  ConsolidateTyped'
<1>0. consolidations[c] \in ConsolidateState /\ consolidations \in [ConsolidateCalls -> ConsolidateState]
  BY DEF ConsolidateTyped, ConsolidateTypeOK
<1>1. CASE left = {}
  <2>1. consolidations' = [consolidations EXCEPT ![c] = IdleConsolidate]
    BY <1>0, <1>1 DEF NextSuperseded
  <2> QED
    BY <2>1, IdleConsolidateType, ConsolidateMoves
<1>2. CASE left # {}
  <2> DEFINE u == [consolidations[c] EXCEPT !.pc = "supersede", !.left = left, !.ref = NoRef]
  <2>1. consolidations' = [consolidations EXCEPT ![c] = u]
    BY <1>0, <1>2 DEF NextSuperseded
  <2>2. u \in ConsolidateState /\ u.con \in Refs /\ u.pc = "supersede"
    BY <1>0 DEF ConsolidateState, ConsolidatePcs
  <2> HIDE DEF u
  <2> QED
    BY <2>1, <2>2, ConsolidateMoves
<1> QED
  BY <1>1, <1>2

LEMMA StartConsolidateType ==
  ASSUME StoresTypeOK, ConsolidateTyped, StartConsolidate
  PROVE  StoresTypeOK' /\ ConsolidateTyped'
<1>1. PICK c \in ConsolidateCalls, s \in Scopes : ListSources(c, s)
  BY DEF StartConsolidate
<1>2. PICK con \in randomId("consolidation", s) :
        /\ minted' = minted \cup {con}
        /\ consolidations' = [consolidations EXCEPT ![c] =
             [IdleConsolidate EXCEPT !.pc = "upsert", !.con = con,
                                     !.sources = consolidatable(s)]]
  BY <1>1 DEF ListSources
<1>3. con \in Refs /\ consolidatable(s) \in SUBSET Refs
  BY DEF randomId, consolidatable, list
<1> DEFINE u == [IdleConsolidate EXCEPT !.pc = "upsert", !.con = con,
                                        !.sources = consolidatable(s)]
<1>4. u \in ConsolidateState /\ u.con \in Refs /\ u.pc = "upsert"
  BY <1>3, IdleConsolidateType DEF ConsolidateState, ConsolidatePcs
<1>5. StoresTypeOK'
  BY <1>1, <1>2, <1>3 DEF ListSources, StoresTypeOK
<1>6. consolidations' = [consolidations EXCEPT ![c] = u]
  BY <1>2
<1> HIDE DEF u
<1> QED
  BY <1>4, <1>5, <1>6, ConsolidateMoves

LEMMA ConsolidateStepType ==
  ASSUME StoresTypeOK, ConsolidateTyped, NEW c \in ConsolidateCalls, ConsolidateStep(c)
  PROVE  StoresTypeOK' /\ ConsolidateTyped'
<1> USE DEF ConsolidatePcs
<1>0. /\ consolidations[c] \in ConsolidateState
      /\ consolidations \in [ConsolidateCalls -> ConsolidateState]
      /\ ConsolidateHolds(c)
  BY DEF ConsolidateTyped, ConsolidateTypeOK
<1>1. CASE UpsertConsolidation(c)
  <2> DEFINE u == [consolidations[c] EXCEPT !.pc = "index"]
  <2>1. StoresTypeOK'
    BY <1>1, <1>0 DEF UpsertConsolidation, upsert, StoresTypeOK, Statuses, EventTypes, ConsolidateState, ConsolidateHolds
  <2>2. consolidations' = [consolidations EXCEPT ![c] = u]
    BY <1>1, <1>0 DEF UpsertConsolidation
  <2>3. u \in ConsolidateState /\ u.con \in Refs /\ u.pc = "index"
    BY <1>1, <1>0 DEF UpsertConsolidation, ConsolidateState, ConsolidateHolds
  <2> HIDE DEF u
  <2> QED
    BY <2>1, <2>2, <2>3, ConsolidateMoves
<1>2. CASE IndexConsolidation(c)
  <2>1. StoresTypeOK' /\ consolidations[c].con \in Refs
    BY <1>2, <1>0 DEF IndexConsolidation, indexMemory, StoresTypeOK, ConsolidateHolds
  <2>2. supersedes(consolidations[c].sources) \in SUBSET Refs
    BY <1>0 DEF supersedes, ConsolidateState
  <2> QED
    BY <1>2, <2>1, <2>2, NextSupersededType DEF IndexConsolidation
<1>3. CASE SupersedeGet(c)
  <2>1. StoresTypeOK' /\ consolidations[c].con \in Refs
    BY <1>3, <1>0 DEF SupersedeGet, stores, StoresTypeOK, ConsolidateHolds
  <2>2. PICK r \in consolidations[c].left :
          IF ~Exists(r) \/ status[r] = "tombstoned"
          THEN NextSuperseded(c, consolidations[c].left \ {r})
          ELSE consolidations' = [consolidations EXCEPT ![c] =
                 [@ EXCEPT !.pc = "supersedePut", !.ref = r]]
    BY <1>3 DEF SupersedeGet
  <2>3. r \in Refs /\ consolidations[c].left \ {r} \in SUBSET Refs
    BY <1>0 DEF ConsolidateState
  <2>4. CASE ~(~Exists(r) \/ status[r] = "tombstoned")
    <3> DEFINE u == [consolidations[c] EXCEPT !.pc = "supersedePut", !.ref = r]
    <3>1. consolidations' = [consolidations EXCEPT ![c] = u]
      BY <1>0, <2>2, <2>4
    <3>2. u \in ConsolidateState /\ u.con \in Refs /\ u.ref \in Refs
      BY <1>0, <2>1, <2>3 DEF ConsolidateState
    <3> HIDE DEF u
    <3> QED
      BY <2>1, <3>1, <3>2, ConsolidateMoves
  <2> QED
    BY <2>1, <2>2, <2>3, <2>4, NextSupersededType
<1>4. CASE SupersedePut(c)
  <2> DEFINE u == [consolidations[c] EXCEPT !.pc = "unindex"]
  <2>1. StoresTypeOK'
    BY <1>4, <1>0 DEF SupersedePut, upsert, StoresTypeOK, Statuses, EventTypes, ConsolidateState, ConsolidateHolds
  <2>2. consolidations' = [consolidations EXCEPT ![c] = u]
    BY <1>4, <1>0 DEF SupersedePut
  <2>3. u \in ConsolidateState /\ u.con \in Refs /\ u.ref \in Refs
    BY <1>4, <1>0 DEF SupersedePut, ConsolidateState, ConsolidateHolds
  <2> HIDE DEF u
  <2> QED
    BY <2>1, <2>2, <2>3, ConsolidateMoves
<1>5. CASE UnindexSuperseded(c)
  <2> DEFINE u == [consolidations[c] EXCEPT !.pc = "link"]
  <2>1. StoresTypeOK'
    BY <1>5, <1>0 DEF UnindexSuperseded, removeIndexed, StoresTypeOK, Statuses, EventTypes, ConsolidateState, ConsolidateHolds
  <2>2. consolidations' = [consolidations EXCEPT ![c] = u]
    BY <1>5, <1>0 DEF UnindexSuperseded
  <2>3. u \in ConsolidateState /\ u.con \in Refs /\ u.ref \in Refs
    BY <1>5, <1>0 DEF UnindexSuperseded, ConsolidateState, ConsolidateHolds
  <2> HIDE DEF u
  <2> QED
    BY <2>1, <2>2, <2>3, ConsolidateMoves
<1>6. CASE LinkSuperseded(c)
  <2> DEFINE u == [consolidations[c] EXCEPT !.pc = "event"]
  <2>1. StoresTypeOK'
    BY <1>6, <1>0 DEF LinkSuperseded, addLink, StoresTypeOK, Statuses, EventTypes, ConsolidateState, ConsolidateHolds
  <2>2. consolidations' = [consolidations EXCEPT ![c] = u]
    BY <1>6, <1>0 DEF LinkSuperseded
  <2>3. u \in ConsolidateState /\ u.con \in Refs /\ u.ref \in Refs
    BY <1>6, <1>0 DEF LinkSuperseded, ConsolidateState, ConsolidateHolds
  <2> HIDE DEF u
  <2> QED
    BY <2>1, <2>2, <2>3, ConsolidateMoves
<1>7. CASE ReportSuperseded(c)
  <2>1. /\ consolidations[c].con \in Refs /\ consolidations[c].ref \in Refs
        /\ consolidations[c].left \ {consolidations[c].ref} \in SUBSET Refs
    BY <1>7, <1>0 DEF ReportSuperseded, ConsolidateState, ConsolidateHolds
  <2>2. StoresTypeOK'
    BY <1>7, <2>1 DEF ReportSuperseded, appendEvent, StoresTypeOK, EventTypes
  <2> QED
    BY <1>7, <2>1, <2>2, NextSupersededType DEF ReportSuperseded
<1> QED
  BY <1>1, <1>2, <1>3, <1>4, <1>5, <1>6, <1>7 DEF ConsolidateStep

LEMMA QueryType ==
  ASSUME StoresTypeOK, QueryTypeOK, NEW K \in SUBSET Refs, NEW G \in SUBSET Refs,
         StartQuery(K, G) \/ \E q \in QueryCalls : QueryStep(q)
  PROVE  StoresTypeOK' /\ QueryTypeOK'
<1>1. PICK q \in QueryCalls, u \in QueryState :
        queries' = [queries EXCEPT ![q] = u] /\ UNCHANGED stores
  <2>1. IdleQuery \in QueryState
    BY DEF IdleQuery, QueryState
  <2>2. ASSUME NEW q \in QueryCalls, NEW s \in Scopes, NEW shown \in Filters,
               SearchIndex(q, s, shown, G)
        PROVE  \E u \in QueryState : queries' = [queries EXCEPT ![q] = u] /\ UNCHANGED stores
    BY <2>1, <2>2 DEF SearchIndex, QueryState, search, StoresTypeOK
  <2>3. ASSUME NEW q \in QueryCalls, NEW refs \in SUBSET K, Hydrate(q, refs, G)
        PROVE  \E u \in QueryState : queries' = [queries EXCEPT ![q] = u] /\ UNCHANGED stores
    BY <2>1, <2>3 DEF Hydrate, QueryState
  <2>4. ASSUME NEW q \in QueryCalls, ReadCandidates(q)
        PROVE  \E u \in QueryState : queries' = [queries EXCEPT ![q] = u] /\ UNCHANGED stores
    <3> DEFINE u == [queries[q] EXCEPT !.pc = "return", !.candidates = {},
                       !.refs = {r \in queries[q].candidates : Visible(r, queries[q].shown)}]
    <3>1. queries[q] \in QueryState
      BY DEF QueryTypeOK
    <3>2. u \in QueryState
      BY <3>1 DEF QueryState
    <3>3. queries' = [queries EXCEPT ![q] = u] /\ UNCHANGED stores
      BY <2>4 DEF ReadCandidates, QueryTypeOK
    <3> QED
      BY <3>2, <3>3
  <2>5. ASSUME NEW q \in QueryCalls, ReturnQuery(q)
        PROVE  \E u \in QueryState : queries' = [queries EXCEPT ![q] = u] /\ UNCHANGED stores
    BY <2>1, <2>5 DEF ReturnQuery
  <2> QED
    BY <2>2, <2>3, <2>4, <2>5 DEF StartQuery, QueryStep
<1> QED
  BY <1>1 DEF QueryTypeOK, stores, StoresTypeOK

-----------------------------------------------------------------------------
LEMMA TypeInvInit == Init => TypeInv
<1> SUFFICES ASSUME Init PROVE TypeInv
  OBVIOUS
<1>1. StoresTypeOK
  BY DEF Init, StoresInit, StoresTypeOK, Statuses
<1>2. IngestTypeOK /\ \A p \in IngestCalls : IngestHolds(p)
  BY DEF Init, IngestInit, IdleIngest, IngestTypeOK, IngestState, IngestPcs, IngestHolds
<1>3. TombstoneTypeOK /\ \A t \in TombstoneCalls : TombstoneHolds(t)
  <2>1. IdleTombstone.pc = "idle"
    BY DEF IdleTombstone
  <2> QED
    BY <2>1, IdleTombstoneType DEF Init, TombstoneInit, TombstoneTypeOK, TombstoneHolds
<1>4. ConsolidateTypeOK /\ \A c \in ConsolidateCalls : ConsolidateHolds(c)
  BY IdleConsolidateType DEF Init, ConsolidateInit, ConsolidateTypeOK, ConsolidateHolds
<1>5. QueryTypeOK
  BY DEF Init, QueryInit, IdleQuery, QueryTypeOK, QueryState
<1> QED
  BY <1>1, <1>2, <1>3, <1>4, <1>5 DEF TypeInv, TypeOK

LEMMA TypeInvNext == TypeInv /\ [Next]_vars => TypeInv'
<1> SUFFICES ASSUME TypeInv, [Next]_vars PROVE TypeInv'
  OBVIOUS
<1> DEFINE AllTyped == /\ StoresTypeOK /\ QueryTypeOK
                       /\ IngestTyped /\ TombstoneTyped /\ ConsolidateTyped
<1>0. AllTyped
  BY DEF TypeInv, TypeOK, IngestTyped, TombstoneTyped, ConsolidateTyped
<1>1. known \in SUBSET Refs /\ gone \in SUBSET Refs
  BY <1>0 DEF known, gone, StoresTypeOK, IngestTyped, IngestTypeOK, TombstoneTyped, TombstoneTypeOK
<1>2. IngestOnly => UNCHANGED <<tombstones, requests, results, consolidations, queries>>
  BY DEF IngestOnly, tombstoneVars
<1>3. TombstoneOnly => UNCHANGED <<ingests, answers, consolidations, queries>>
  BY DEF TombstoneOnly, ingestVars
<1>4. ConsolidateOnly => UNCHANGED <<ingests, answers, tombstones, requests, results, queries>>
  BY DEF ConsolidateOnly, ingestVars, tombstoneVars
<1>5. QueryOnly => UNCHANGED <<ingests, answers, tombstones, requests, results, consolidations>>
  BY DEF QueryOnly, ingestVars, tombstoneVars
<1>6. /\ UNCHANGED <<ingests, answers>> => IngestTyped'
      /\ UNCHANGED <<tombstones, requests, results>> => TombstoneTyped'
      /\ UNCHANGED consolidations => ConsolidateTyped'
      /\ UNCHANGED queries => QueryTypeOK'
  BY <1>0 DEF IngestTyped, IngestTypeOK, IngestHolds, TombstoneTyped, TombstoneTypeOK,
       TombstoneHolds, ConsolidateTyped, ConsolidateTypeOK, ConsolidateHolds, QueryTypeOK
<1>7. AllTyped'
  <2>1. CASE Start
    <3>1. CASE StartIngest /\ IngestOnly
      BY <3>1, <1>0, <1>2, <1>6, StartIngestType
    <3>2. CASE StartTombstone(known) /\ TombstoneOnly
      BY <3>2, <1>0, <1>1, <1>3, <1>6, StartTombstoneType
    <3>3. CASE StartConsolidate /\ ConsolidateOnly
      BY <3>3, <1>0, <1>4, <1>6, StartConsolidateType
    <3>4. CASE StartQuery(known, gone) /\ QueryOnly
      BY <3>4, <1>0, <1>1, <1>5, <1>6, QueryType
    <3> QED
      BY <2>1, <3>1, <3>2, <3>3, <3>4 DEF Start
  <2>2. CASE Step
    <3>1. ASSUME NEW p \in IngestCalls, IngestStep(p), IngestOnly
          PROVE  AllTyped'
      BY <3>1, <1>0, <1>2, <1>6, IngestStepType
    <3>2. ASSUME NEW t \in TombstoneCalls, TombstoneStep(t), TombstoneOnly
          PROVE  AllTyped'
      BY <3>2, <1>0, <1>3, <1>6, TombstoneStepType
    <3>3. ASSUME NEW c \in ConsolidateCalls, ConsolidateStep(c), ConsolidateOnly
          PROVE  AllTyped'
      BY <3>3, <1>0, <1>4, <1>6, ConsolidateStepType
    <3>4. ASSUME NEW q \in QueryCalls, QueryStep(q), QueryOnly
          PROVE  AllTyped'
      BY <3>4, <1>0, <1>1, <1>5, <1>6, QueryType
    <3> HIDE DEF AllTyped
    <3> QED
      BY <2>2, <3>1, <3>2, <3>3, <3>4 DEF Step
  <2>3. CASE Abandon
    <3>1. ASSUME NEW p \in IngestCalls, AbandonIngest(p), IngestOnly
          PROVE  AllTyped'
      <4>1. IdleIngest \in IngestState /\ IdleIngest.pc = "idle"
        BY DEF IdleIngest, IngestState, IngestPcs
      <4>2. StoresTypeOK' /\ answers' = answers
        BY <3>1, <1>0 DEF AbandonIngest, stores, StoresTypeOK
      <4>3. IngestTyped'
        BY <3>1, <4>1, <4>2, <1>0, IngestMoves DEF AbandonIngest, IngestTyped, IngestTypeOK
      <4> QED
        BY <3>1, <4>2, <4>3, <1>0, <1>2, <1>6
    <3>2. ASSUME NEW t \in TombstoneCalls, AbandonTombstone(t), TombstoneOnly
          PROVE  AllTyped'
      <4>1. IdleTombstone.pc = "idle"
        BY DEF IdleTombstone
      <4>2. StoresTypeOK' /\ UNCHANGED <<requests, results>>
        BY <3>2, <1>0 DEF AbandonTombstone, stores, StoresTypeOK
      <4>3. TombstoneTyped'
        BY <3>2, <4>1, <4>2, <1>0, IdleTombstoneType, TombstoneMoves
           DEF AbandonTombstone, TombstoneTyped, TombstoneTypeOK
      <4> QED
        BY <3>2, <4>2, <4>3, <1>0, <1>3, <1>6
    <3>3. ASSUME NEW c \in ConsolidateCalls, AbandonConsolidate(c), ConsolidateOnly
          PROVE  AllTyped'
      <4>1. StoresTypeOK' /\ ConsolidateTyped'
        BY <3>3, <1>0, IdleConsolidateType, ConsolidateMoves
           DEF AbandonConsolidate, stores, StoresTypeOK
      <4> QED
        BY <3>3, <4>1, <1>0, <1>4, <1>6
    <3> HIDE DEF AllTyped
    <3> QED
      BY <2>3, <3>1, <3>2, <3>3 DEF Abandon
  <2>4. CASE UNCHANGED vars
    <3>1. /\ UNCHANGED <<ingests, answers, tombstones, requests, results, consolidations, queries>>
          /\ UNCHANGED stores
      BY <2>4 DEF vars, ingestVars, tombstoneVars
    <3> QED
      BY <3>1, <1>0, <1>6 DEF stores, StoresTypeOK
  <2> QED
    BY <2>1, <2>2, <2>3, <2>4 DEF Next
<1> QED
  BY <1>7 DEF TypeInv, TypeOK, IngestTyped, TombstoneTyped, ConsolidateTyped

\* Every state the service reaches is well typed, whatever calls interleave and fail
\* (inMemoryStores.ts, service.ts 88-763).
THEOREM TypeCorrect == Spec => []TypeOK
<1>1. TypeInv => TypeOK
  BY DEF TypeInv
<1> QED
  BY <1>1, TypeInvInit, TypeInvNext, PTL DEF Spec

-----------------------------------------------------------------------------
(* The inductive invariant.  First, the objects a call has named but not   *)
(* yet stored: nobody else has them, and they have no provenance.          *)

PendingIngest(p) ==
  ingests[p].atoms
  \cup (IF ingests[p].pc \in {"append", "upsert"} THEN {ingests[p].ref} ELSE {})

PendingConsolidate(c) ==
  IF consolidations[c].pc = "upsert" THEN {consolidations[c].con} ELSE {}

Unborn(r) == r \in minted /\ ~Exists(r)

Fresh ==
  /\ \A r \in Refs : Exists(r) => r \in minted
  /\ \A p \in IngestCalls : \A r \in PendingIngest(p) : Unborn(r)
  /\ \A c \in ConsolidateCalls : \A r \in PendingConsolidate(c) : Unborn(r)
  /\ \A p, q \in IngestCalls : p # q => PendingIngest(p) \cap PendingIngest(q) = {}
  /\ \A c, d \in ConsolidateCalls :
       c # d => PendingConsolidate(c) \cap PendingConsolidate(d) = {}

\* Not active, and never again.
Retired(r) == status[r] \notin {"absent", "active"}

\* What a call knows of the objects its locals hold.
IngestKnows(p) ==
  LET i == ingests[p]
  IN /\ i.pc # "idle" => i.ref.type = "episode"
     /\ i.pc \notin {"idle", "append", "upsert"} => Exists(i.ref)
     /\ i.pc \notin {"idle", "append", "upsert", "index"} =>
          (status[i.ref] = "active" => i.ref \in index)
     /\ \A a \in i.atoms : a.type = "atom" /\ a.scope = i.ref.scope
     /\ \A r \in i.sides : Contradicted(r)
     /\ i.pc \in {"disputePut", "disputeEvent"} => i.atom \in i.sides /\ Exists(i.atom)

Asked(t, r) ==
  [ref |-> r, policy |-> tombstones[t].policy, scope |-> tombstones[t].scope] \in requests

TombstoneKnows(t) ==
  LET u == tombstones[t]
  IN /\ \A r \in u.refs : Asked(t, r)
     /\ \A r \in u.allObjects : Exists(r)
     /\ u.pc \notin {"idle", "next"} => Asked(t, u.ref) /\ Exists(u.ref)
     /\ u.pc \notin {"idle", "next", "put"} => Retired(u.ref)
     /\ u.pc \in {"derived", "stalePut", "derivedUnindex"} =>
          \A d \in u.derived : Exists(d) /\ u.ref \in sources[d]
     /\ u.pc \in {"stalePut", "derivedUnindex"} => u.derivedRef \in u.derived
     /\ u.pc = "stalePut" => u.policy = "mark_derived_stale"
     /\ u.pc = "derivedUnindex" => Retired(u.derivedRef)

ConsolidateKnows(c) ==
  LET u == consolidations[c]
  IN u.pc # "idle" =>
     /\ u.con.type = "consolidation"
     /\ \A s \in u.sources : Exists(s) /\ matchesScope(s.scope, u.con.scope)
     /\ \A d \in u.sources : \A s \in sources[d] : s \in u.sources \/ Condemned(s)
     /\ u.pc # "upsert" => Exists(u.con) /\ sources[u.con] = u.sources
     /\ u.pc \notin {"upsert", "index"} => u.left \subseteq supersedes(u.sources)
     /\ u.pc \in {"supersedePut", "unindex", "link", "event"} => u.ref \in u.left
     /\ u.pc \in {"unindex", "link", "event"} => Retired(u.ref)

\* What provenance and statuses say; what an answer promises.
Lineage ==
  /\ \A r \in Refs : ~Exists(r) \/ r.type = "episode" => sources[r] = {}
  /\ ProvenanceIntact
  /\ OneLevelProvenance
  /\ StatusForCause

Promised ==
  \A a \in answers :
    a.result = "created" =>
      Exists(a.ref) /\ (status[a.ref] = "active" => a.ref \in index)

SafetyInv ==
  /\ TypeInv
  /\ Fresh
  /\ \A p \in IngestCalls : IngestKnows(p)
  /\ \A t \in TombstoneCalls : TombstoneKnows(t)
  /\ \A c \in ConsolidateCalls : ConsolidateKnows(c)
  /\ Lineage
  /\ Promised

-----------------------------------------------------------------------------
(* What every step preserves of the stores, and what follows of the causes.*)

Grows ==
  /\ minted \subseteq minted' /\ links \subseteq links' /\ requests \subseteq requests'
  /\ \A r \in index : r \in index' \/ Retired(r)'

Mono ==
  /\ Grows
  /\ \A r \in Refs : Exists(r) => Exists(r)' /\ sources'[r] = sources[r]
  /\ \A r \in Refs : sources[r] \subseteq sources'[r]
  /\ \A r \in Refs : Retired(r) => Retired(r)'

LEMMA CausesStay ==
  ASSUME Mono, NEW r \in Refs
  PROVE  /\ Condemned(r) => Condemned(r)'
         /\ Marked(r) => Marked(r)'
         /\ Merged(r) => Merged(r)'
         /\ Contradicted(r) => Contradicted(r)'
<1>1. Condemned(r) => Condemned(r)'
  BY DEF Mono, Grows, Condemned
<1>2. Marked(r) => Marked(r)'
  BY DEF Mono, Grows, Marked
<1>3. Merged(r) => Merged(r)'
  BY DEF Mono, Grows, Merged
<1>4. Contradicted(r) => Contradicted(r)'
  BY DEF Mono, Grows, Contradicted
<1> QED
  BY <1>1, <1>2, <1>3, <1>4

\* A step that writes no object.
LEMMA QuietStep ==
  ASSUME Lineage, Grows, UNCHANGED <<status, sources>>
  PROVE  Mono /\ Lineage'
<1>1. Mono
  BY DEF Mono, Retired, Exists
<1>2. StatusForCause'
  BY <1>1, CausesStay DEF Lineage, StatusForCause
<1>3. OneLevelProvenance'
  BY <1>1, CausesStay DEF Lineage, OneLevelProvenance
<1>4. ProvenanceIntact'
  BY DEF Lineage, ProvenanceIntact, Exists
<1> QED
  BY <1>1, <1>2, <1>3, <1>4 DEF Lineage, Exists

\* A step that retires an object for a cause on record.
LEMMA RetiringStep ==
  ASSUME TypeInv, Lineage, Grows, NEW r \in Refs, NEW s, Exists(r),
         status' = [status EXCEPT ![r] = s], UNCHANGED sources,
         s \in {"tombstoned", "pending", "superseded", "disputed"},
         s = "tombstoned" => Condemned(r),
         s = "pending" => Marked(r),
         s = "superseded" => Merged(r),
         s = "disputed" => Contradicted(r)
  PROVE  Mono /\ Lineage' /\ (\A x \in Refs : Exists(x)' <=> Exists(x))
<1>0. status \in [Refs -> Statuses]
  BY DEF TypeInv, TypeOK, StoresTypeOK
<1>1. \A x \in Refs : Exists(x)' <=> Exists(x)
  BY <1>0 DEF Exists
<1>2. Mono
  BY <1>0, <1>1 DEF Mono, Retired, Exists
<1>3. StatusForCause'
  <2> SUFFICES ASSUME NEW x \in Refs
               PROVE  /\ status'[x] = "tombstoned" => Condemned(x)'
                      /\ status'[x] = "pending" => Marked(x)'
                      /\ status'[x] = "superseded" => Merged(x)'
                      /\ status'[x] = "disputed" => Contradicted(x)'
    BY DEF StatusForCause
  <2>1. CASE x = r
    BY <2>1, <1>0, <1>2, CausesStay
  <2>2. CASE x # r
    BY <2>2, <1>0, <1>2, CausesStay DEF Lineage, StatusForCause
  <2> QED
    BY <2>1, <2>2
<1>4. OneLevelProvenance'
  BY <1>2, CausesStay DEF Lineage, OneLevelProvenance
<1>5. ProvenanceIntact'
  BY <1>1 DEF Lineage, ProvenanceIntact, TypeInv, TypeOK, StoresTypeOK
<1> QED
  BY <1>1, <1>2, <1>3, <1>4, <1>5 DEF Lineage

\* A step that stores a new object with its sources.
LEMMA BirthStep ==
  ASSUME TypeInv, Lineage, Grows, NEW r \in Refs, NEW S \in SUBSET Refs, ~Exists(r),
         status' = [status EXCEPT ![r] = "active"], sources' = [sources EXCEPT ![r] = S],
         r.type = "episode" => S = {},
         \A x \in S : Exists(x) /\ matchesScope(x.scope, r.scope),
         \A d \in S : \A x \in sources[d] : x \in S \/ Condemned(x)
  PROVE  Mono /\ Lineage' /\ (\A x \in Refs : Exists(x)' <=> Exists(x) \/ x = r)
<1>0. status \in [Refs -> Statuses] /\ sources \in [Refs -> SUBSET Refs]
  BY DEF TypeInv, TypeOK, StoresTypeOK
<1>1. \A x \in Refs : Exists(x)' <=> Exists(x) \/ x = r
  BY <1>0 DEF Exists
<1>2. Mono
  BY <1>0, <1>1 DEF Mono, Retired, Exists, Lineage
<1>3. StatusForCause'
  <2> SUFFICES ASSUME NEW x \in Refs
               PROVE  /\ status'[x] = "tombstoned" => Condemned(x)'
                      /\ status'[x] = "pending" => Marked(x)'
                      /\ status'[x] = "superseded" => Merged(x)'
                      /\ status'[x] = "disputed" => Contradicted(x)'
    BY DEF StatusForCause
  <2>1. CASE x = r
    BY <2>1, <1>0
  <2>2. CASE x # r
    BY <2>2, <1>0, <1>2, CausesStay DEF Lineage, StatusForCause
  <2> QED
    BY <2>1, <2>2
<1>4. \A x \in Refs : r \notin sources[x] /\ r \notin S
  BY <1>0 DEF Lineage, ProvenanceIntact
<1>5. OneLevelProvenance'
  <2> SUFFICES ASSUME NEW c \in Refs, NEW d \in Refs, NEW x \in Refs,
                      d \in sources'[c], x \in sources'[d]
               PROVE  x \in sources'[c] \/ Condemned(x)'
    BY DEF OneLevelProvenance
  <2>1. d # r /\ x \in sources[d]
    BY <1>0, <1>4
  <2>2. CASE c = r
    BY <2>1, <2>2, <1>0, <1>2, CausesStay
  <2>3. CASE c # r
    BY <2>1, <2>3, <1>0, <1>2, CausesStay DEF Lineage, OneLevelProvenance
  <2> QED
    BY <2>2, <2>3
<1>6. ProvenanceIntact'
  BY <1>0, <1>1 DEF Lineage, ProvenanceIntact
<1>7. \A x \in Refs : ~Exists(x)' \/ x.type = "episode" => sources'[x] = {}
  BY <1>0, <1>1 DEF Lineage
<1> QED
  BY <1>1, <1>2, <1>3, <1>5, <1>6, <1>7 DEF Lineage

-----------------------------------------------------------------------------
(* What a call knows stays true while other calls step.                    *)

LEMMA IngestKnowsStays ==
  ASSUME TypeInv, Mono, NEW p \in IngestCalls, IngestKnows(p), ingests'[p] = ingests[p]
  PROVE  IngestKnows(p)'
<1>1. ingests[p] \in IngestState /\ IngestHolds(p)
  BY DEF TypeInv, TypeOK, IngestTypeOK
<1>2. \A r \in ingests[p].sides : r \in Refs /\ Contradicted(r)'
  BY <1>1, CausesStay DEF IngestKnows, IngestState
<1>3. ingests[p].pc \notin {"idle", "append", "upsert"} => Exists(ingests[p].ref)'
  BY <1>1 DEF IngestKnows, Mono, IngestHolds
<1>4. ingests[p].pc \in {"disputePut", "disputeEvent"} => Exists(ingests[p].atom)'
  BY <1>1 DEF IngestKnows, Mono, IngestHolds
<1>5. ingests[p].pc \notin {"idle", "append", "upsert", "index"} =>
        (status'[ingests[p].ref] = "active" => ingests[p].ref \in index')
  BY <1>1 DEF IngestKnows, Mono, Grows, IngestHolds, Retired, Exists
<1> QED
  BY <1>2, <1>3, <1>4, <1>5 DEF IngestKnows

LEMMA TombstoneKnowsStays ==
  ASSUME TypeInv, Mono, NEW t \in TombstoneCalls, TombstoneKnows(t), tombstones'[t] = tombstones[t]
  PROVE  TombstoneKnows(t)'
<1>1. tombstones[t] \in TombstoneState /\ TombstoneHolds(t)
  BY DEF TypeInv, TypeOK, TombstoneTypeOK
<1>2. \A r \in Refs : Asked(t, r) => Asked(t, r)'
  BY DEF Asked, Mono, Grows
<1> QED
  BY <1>1, <1>2 DEF TombstoneKnows, TombstoneHolds, TombstoneState, TombstonePcs, Mono

LEMMA ConsolidateKnowsStays ==
  ASSUME TypeInv, Mono, NEW c \in ConsolidateCalls, ConsolidateKnows(c),
         consolidations'[c] = consolidations[c]
  PROVE  ConsolidateKnows(c)'
<1>1. consolidations[c] \in ConsolidateState /\ ConsolidateHolds(c)
  BY DEF TypeInv, TypeOK, ConsolidateTypeOK
<1>2. sources \in [Refs -> SUBSET Refs]
  BY DEF TypeInv, TypeOK, StoresTypeOK
<1> QED
  BY <1>1, <1>2, CausesStay DEF ConsolidateKnows, ConsolidateHolds, ConsolidateState, ConsolidatePcs, Mono

-----------------------------------------------------------------------------
(* A step of one call keeps the invariant if it keeps what that call knows,*)
(* names only ids of its own and stores only what it had named.            *)

LEMMA KindsDiffer ==
  ASSUME TypeInv, NEW p \in IngestCalls, NEW c \in ConsolidateCalls,
         IngestKnows(p), ConsolidateKnows(c)
  PROVE  PendingIngest(p) \cap PendingConsolidate(c) = {}
BY DEF IngestKnows, ConsolidateKnows, PendingIngest, PendingConsolidate

LEMMA PromisesStay ==
  ASSUME TypeInv, TypeInv', Mono, Promised,
         \A a \in answers' :
           a.result = "created" =>
             a \in answers \/ (Exists(a.ref)' /\ (status'[a.ref] = "active" => a.ref \in index'))
  PROVE  Promised'
<1> SUFFICES ASSUME NEW a \in answers', a.result = "created", a \in answers
             PROVE  Exists(a.ref)' /\ (status'[a.ref] = "active" => a.ref \in index')
  BY DEF Promised
<1>1. a.ref \in Refs
  BY DEF TypeInv, TypeOK, IngestTypeOK
<1> QED
  BY <1>1 DEF Promised, Mono, Grows, Retired, Exists

LEMMA IngestFrame ==
  ASSUME SafetyInv, TypeInv', Mono, Lineage', IngestOnly, NEW p \in IngestCalls,
         \A q \in IngestCalls : q # p => ingests'[q] = ingests[q],
         IngestKnows(p)',
         PendingIngest(p)' \subseteq PendingIngest(p) \cup (minted' \ minted),
         \A r \in PendingIngest(p)' : ~Exists(r)',
         \A r \in Refs : Exists(r)' => Exists(r) \/ r \in PendingIngest(p),
         \A a \in answers' :
           a.result = "created" =>
             a \in answers \/ (Exists(a.ref)' /\ (status'[a.ref] = "active" => a.ref \in index'))
  PROVE  SafetyInv'
<1>1. UNCHANGED <<tombstones, consolidations>>
  BY DEF IngestOnly, tombstoneVars
<1>2. \A q \in IngestCalls : IngestKnows(q)'
  BY IngestKnowsStays DEF SafetyInv
<1>3. \A t \in TombstoneCalls : TombstoneKnows(t)'
  BY <1>1, TombstoneKnowsStays DEF SafetyInv
<1>4. \A c \in ConsolidateCalls : ConsolidateKnows(c)'
  BY <1>1, ConsolidateKnowsStays DEF SafetyInv
<1>5. Fresh'
  <2>1. /\ \A q \in IngestCalls : q # p => PendingIngest(q)' = PendingIngest(q)
        /\ \A c \in ConsolidateCalls : PendingConsolidate(c)' = PendingConsolidate(c)
    BY <1>1 DEF PendingIngest, PendingConsolidate
  <2>2. minted \subseteq minted'
    BY DEF Mono, Grows
  <2>3. /\ \A q \in IngestCalls : PendingIngest(q) \subseteq minted
        /\ \A c \in ConsolidateCalls : PendingConsolidate(c) \subseteq minted
    BY DEF SafetyInv, Fresh, Unborn
  <2>4. \A r \in Refs : Exists(r)' => r \in minted'
    BY <2>2, <2>3 DEF SafetyInv, Fresh
  <2>5. \A q \in IngestCalls : \A r \in PendingIngest(q)' : Unborn(r)'
    <3>1. CASE minted \subseteq Refs
      <4> SUFFICES ASSUME NEW q \in IngestCalls, NEW r \in PendingIngest(q)' PROVE Unborn(r)'
        OBVIOUS
      <4>1. CASE q = p
        BY <4>1, <2>2, <2>3 DEF Unborn
      <4>2. CASE q # p
        BY <4>2, <3>1, <2>1, <2>2, <2>3 DEF SafetyInv, Fresh, Unborn
      <4> QED
        BY <4>1, <4>2
    <3> QED
      BY <3>1 DEF SafetyInv, TypeInv, TypeOK, StoresTypeOK
  <2>6. \A c \in ConsolidateCalls : \A r \in PendingConsolidate(c)' : Unborn(r)'
    <3> SUFFICES ASSUME NEW c \in ConsolidateCalls, NEW r \in PendingConsolidate(c) PROVE Unborn(r)'
      BY <2>1
    <3>1. r \in Refs /\ r \in minted /\ ~Exists(r)
      BY <2>3 DEF SafetyInv, Fresh, Unborn, TypeInv, TypeOK, StoresTypeOK
    <3>2. r \notin PendingIngest(p)
      BY KindsDiffer DEF SafetyInv
    <3> QED
      BY <3>1, <3>2, <2>2 DEF Unborn
  <2>7. \A q1, q2 \in IngestCalls : q1 # q2 => PendingIngest(q1)' \cap PendingIngest(q2)' = {}
    BY <2>1, <2>3 DEF SafetyInv, Fresh
  <2>8. \A c, d \in ConsolidateCalls :
          c # d => PendingConsolidate(c)' \cap PendingConsolidate(d)' = {}
    BY <2>1 DEF SafetyInv, Fresh
  <2> QED
    BY <2>4, <2>5, <2>6, <2>7, <2>8 DEF Fresh
<1>6. Promised'
  BY PromisesStay DEF SafetyInv
<1> QED
  BY <1>2, <1>3, <1>4, <1>5, <1>6 DEF SafetyInv

LEMMA TombstoneFrame ==
  ASSUME SafetyInv, TypeInv', Mono, Lineage', TombstoneOnly, NEW t \in TombstoneCalls,
         \A u \in TombstoneCalls : u # t => tombstones'[u] = tombstones[u],
         TombstoneKnows(t)',
         \A r \in Refs : Exists(r)' <=> Exists(r)
  PROVE  SafetyInv'
<1>1. UNCHANGED <<ingests, answers, consolidations>>
  BY DEF TombstoneOnly, ingestVars
<1>2. \A u \in TombstoneCalls : TombstoneKnows(u)'
  BY TombstoneKnowsStays DEF SafetyInv
<1>3. \A p \in IngestCalls : IngestKnows(p)'
  BY <1>1, IngestKnowsStays DEF SafetyInv
<1>4. \A c \in ConsolidateCalls : ConsolidateKnows(c)'
  BY <1>1, ConsolidateKnowsStays DEF SafetyInv
<1>5. Fresh'
  <2>1. /\ \A q \in IngestCalls : PendingIngest(q)' = PendingIngest(q)
        /\ \A c \in ConsolidateCalls : PendingConsolidate(c)' = PendingConsolidate(c)
    BY <1>1 DEF PendingIngest, PendingConsolidate
  <2>2. minted \subseteq minted' /\ minted \subseteq Refs
    BY DEF Mono, Grows, SafetyInv, TypeInv, TypeOK, StoresTypeOK
  <2>3. \A r \in Refs : Unborn(r) => Unborn(r)'
    BY <2>2 DEF Unborn
  <2>4. \A q \in IngestCalls : \A r \in PendingIngest(q) : Unborn(r) /\ r \in Refs
    BY <2>2 DEF SafetyInv, Fresh, Unborn
  <2>5. \A c \in ConsolidateCalls : \A r \in PendingConsolidate(c) : Unborn(r) /\ r \in Refs
    BY <2>2 DEF SafetyInv, Fresh, Unborn
  <2>6. \A r \in Refs : Exists(r)' => r \in minted'
    BY <2>2 DEF SafetyInv, Fresh
  <2> QED
    BY <2>1, <2>3, <2>4, <2>5, <2>6 DEF SafetyInv, Fresh
<1>6. Promised'
  BY <1>1, PromisesStay DEF SafetyInv
<1> QED
  BY <1>2, <1>3, <1>4, <1>5, <1>6 DEF SafetyInv

LEMMA ConsolidateFrame ==
  ASSUME SafetyInv, TypeInv', Mono, Lineage', ConsolidateOnly, NEW c \in ConsolidateCalls,
         \A d \in ConsolidateCalls : d # c => consolidations'[d] = consolidations[d],
         ConsolidateKnows(c)',
         PendingConsolidate(c)' \subseteq PendingConsolidate(c) \cup (minted' \ minted),
         \A r \in PendingConsolidate(c)' : ~Exists(r)',
         \A r \in Refs : Exists(r)' => Exists(r) \/ r \in PendingConsolidate(c)
  PROVE  SafetyInv'
<1>1. UNCHANGED <<ingests, answers, tombstones>>
  BY DEF ConsolidateOnly, ingestVars, tombstoneVars
<1>2. \A d \in ConsolidateCalls : ConsolidateKnows(d)'
  BY ConsolidateKnowsStays DEF SafetyInv
<1>3. \A t \in TombstoneCalls : TombstoneKnows(t)'
  BY <1>1, TombstoneKnowsStays DEF SafetyInv
<1>4. \A p \in IngestCalls : IngestKnows(p)'
  BY <1>1, IngestKnowsStays DEF SafetyInv
<1>5. Fresh'
  <2>1. /\ \A d \in ConsolidateCalls : d # c => PendingConsolidate(d)' = PendingConsolidate(d)
        /\ \A q \in IngestCalls : PendingIngest(q)' = PendingIngest(q)
    BY <1>1 DEF PendingIngest, PendingConsolidate
  <2>2. minted \subseteq minted' /\ minted \subseteq Refs
    BY DEF Mono, Grows, SafetyInv, TypeInv, TypeOK, StoresTypeOK
  <2>3. /\ \A q \in IngestCalls : PendingIngest(q) \subseteq minted
        /\ \A d \in ConsolidateCalls : PendingConsolidate(d) \subseteq minted
    BY DEF SafetyInv, Fresh, Unborn
  <2>4. \A r \in Refs : Exists(r)' => r \in minted'
    BY <2>2, <2>3 DEF SafetyInv, Fresh
  <2>5. \A d \in ConsolidateCalls : \A r \in PendingConsolidate(d)' : Unborn(r)'
    <3> SUFFICES ASSUME NEW d \in ConsolidateCalls, NEW r \in PendingConsolidate(d)' PROVE Unborn(r)'
      OBVIOUS
    <3>1. CASE d = c
      BY <3>1, <2>2, <2>3 DEF Unborn
    <3>2. CASE d # c
      BY <3>2, <2>1, <2>2, <2>3 DEF SafetyInv, Fresh, Unborn
    <3> QED
      BY <3>1, <3>2
  <2>6. \A q \in IngestCalls : \A r \in PendingIngest(q)' : Unborn(r)'
    <3> SUFFICES ASSUME NEW q \in IngestCalls, NEW r \in PendingIngest(q) PROVE Unborn(r)'
      BY <2>1
    <3>1. r \in Refs /\ r \in minted /\ ~Exists(r)
      BY <2>2, <2>3 DEF SafetyInv, Fresh, Unborn
    <3>2. r \notin PendingConsolidate(c)
      BY KindsDiffer DEF SafetyInv
    <3> QED
      BY <3>1, <3>2, <2>2 DEF Unborn
  <2>7. \A d, e \in ConsolidateCalls :
          d # e => PendingConsolidate(d)' \cap PendingConsolidate(e)' = {}
    BY <2>1, <2>3 DEF SafetyInv, Fresh
  <2>8. \A q1, q2 \in IngestCalls : q1 # q2 => PendingIngest(q1)' \cap PendingIngest(q2)' = {}
    BY <2>1 DEF SafetyInv, Fresh
  <2> QED
    BY <2>4, <2>5, <2>6, <2>7, <2>8 DEF Fresh
<1>6. Promised'
  BY <1>1, PromisesStay DEF SafetyInv
<1> QED
  BY <1>2, <1>3, <1>4, <1>5, <1>6 DEF SafetyInv

-----------------------------------------------------------------------------
(* The steps of ingest.                                                    *)

\* A step of ingest that writes no object.
LEMMA IngestQuiet ==
  ASSUME SafetyInv, TypeInv', IngestOnly, NEW p \in IngestCalls,
         \A q \in IngestCalls : q # p => ingests'[q] = ingests[q],
         UNCHANGED <<status, sources>>,
         minted \subseteq minted', links \subseteq links', index \subseteq index',
         IngestKnows(p)',
         PendingIngest(p)' \subseteq PendingIngest(p) \cup (minted' \ minted),
         \A a \in answers' :
           a.result = "created" =>
             a \in answers \/ (Exists(a.ref) /\ (status[a.ref] = "active" => a.ref \in index))
  PROVE  SafetyInv' /\ Mono
<1>1. Grows
  BY DEF Grows, IngestOnly, tombstoneVars
<1>2. Mono /\ Lineage'
  BY <1>1, QuietStep DEF SafetyInv
<1>3. \A r \in PendingIngest(p)' : ~Exists(r)'
  <2>1. minted' \subseteq Refs
    BY DEF TypeInv, TypeOK, StoresTypeOK
  <2> QED
    BY <2>1 DEF SafetyInv, Fresh, Unborn, Exists
<1>4. \A r \in Refs : Exists(r)' => Exists(r)
  BY DEF Exists
<1>5. \A a \in answers' :
        a.result = "created" =>
          a \in answers \/ (Exists(a.ref)' /\ (status'[a.ref] = "active" => a.ref \in index'))
  BY DEF Exists
<1> QED
  BY <1>2, <1>3, <1>4, <1>5, IngestFrame

LEMMA IngestSafe ==
  ASSUME SafetyInv, TypeInv', IngestOnly, NEW p \in IngestCalls, IngestStep(p)
  PROVE  SafetyInv' /\ Mono
<1>0. /\ ingests[p] \in IngestState /\ ingests \in [IngestCalls -> IngestState]
      /\ IngestHolds(p) /\ IngestKnows(p)
      /\ TypeInv /\ Lineage
      /\ status \in [Refs -> Statuses] /\ sources \in [Refs -> SUBSET Refs] /\ minted \subseteq Refs
      /\ requests' = requests
      /\ \A r \in PendingIngest(p) : Unborn(r)
  BY DEF SafetyInv, TypeInv, TypeOK, StoresTypeOK, IngestTypeOK, IngestOnly, tombstoneVars, Fresh
<1>a. \A r \in Refs : ~Exists(r) \/ r.type = "episode" => sources[r] = {}
  BY <1>0 DEF Lineage
<1>b. \A r : (links \subseteq links' /\ Contradicted(r)) => Contradicted(r)'
  BY DEF Contradicted
<1>1. CASE StoreEpisode(p)
  <2>1. /\ UNCHANGED <<status, sources, answers>> /\ minted \subseteq minted' /\ links \subseteq links'
        /\ index \subseteq index'
    BY <1>1 DEF StoreEpisode
  <2>2. /\ \A q \in IngestCalls : q # p => ingests'[q] = ingests[q]
        /\ ingests'[p].ref = ingests[p].ref /\ ingests'[p].atoms = ingests[p].atoms /\ ingests'[p].sides = ingests[p].sides
        /\ ingests'[p].pc = "upsert"
    BY <1>1, <1>0 DEF StoreEpisode, IngestState
  <2>3. IngestKnows(p)'
    BY <1>1, <1>0, <1>b, <2>1, <2>2 DEF StoreEpisode, IngestKnows, IngestHolds, Exists
  <2>4. PendingIngest(p)' \subseteq PendingIngest(p) \cup (minted' \ minted)
    BY <1>1, <2>2 DEF StoreEpisode, PendingIngest
  <2> QED
    BY <2>1, <2>2, <2>3, <2>4, IngestQuiet
<1>2. CASE UpsertEpisode(p)
  <2> DEFINE r == ingests[p].ref
  <2>1. r \in Refs /\ r \in PendingIngest(p) /\ ~Exists(r) /\ sources[r] = {} /\ r.type = "episode"
    BY <1>2, <1>0, <1>a DEF UpsertEpisode, IngestHolds, IngestKnows, PendingIngest, Unborn
  <2>2. /\ status' = [status EXCEPT ![r] = "active"]
        /\ sources' = [sources EXCEPT ![r] = {}]
        /\ UNCHANGED <<minted, links, index, answers>>
    BY <1>2, <1>0, <2>1 DEF UpsertEpisode, upsert
  <2>3. /\ \A q \in IngestCalls : q # p => ingests'[q] = ingests[q]
        /\ ingests'[p].ref = r /\ ingests'[p].atoms = ingests[p].atoms
        /\ ingests'[p].sides = ingests[p].sides /\ ingests'[p].pc = "index"
    BY <1>2, <1>0 DEF UpsertEpisode, IngestState
  <2>4. Grows
    BY <1>0, <2>2 DEF Grows
  <2> HIDE DEF r
  <2>5. Mono /\ Lineage' /\ (\A x \in Refs : Exists(x)' <=> Exists(x) \/ x = r)
    BY <1>0, <2>1, <2>2, <2>4, BirthStep
  <2>6. IngestKnows(p)'
    BY <1>0, <1>b, <2>1, <2>2, <2>3, <2>5 DEF IngestKnows, r
  <2>7. /\ PendingIngest(p)' \subseteq PendingIngest(p)
        /\ \A x \in PendingIngest(p)' : ~Exists(x)'
    <3>1. PendingIngest(p)' = ingests[p].atoms /\ ingests[p].atoms \subseteq PendingIngest(p)
      BY <2>3 DEF PendingIngest
    <3>2. \A x \in ingests[p].atoms : x \in Refs /\ x # r /\ ~Exists(x)
      BY <1>0, <2>1, <3>1 DEF IngestKnows, Unborn
    <3> QED
      BY <3>1, <3>2, <2>5
  <2> QED
    BY <2>1, <2>2, <2>3, <2>5, <2>6, <2>7, IngestFrame
<1>3. CASE IndexEpisode(p)
  <2>1. PICK atoms \in SUBSET randomId("atom", ingests[p].ref.scope), drafts \in SUBSET Contradicting :
          /\ minted' = minted \cup atoms
          /\ ingests' = [ingests EXCEPT ![p] =
               [@ EXCEPT !.pc = NextDraft(atoms, drafts), !.atoms = atoms, !.drafts = drafts]]
    BY <1>3 DEF IndexEpisode
  <2>2. UNCHANGED <<status, sources, answers, links>> /\ index' = index \cup {ingests[p].ref}
    BY <1>3 DEF IndexEpisode, indexMemory
  <2>3. /\ \A q \in IngestCalls : q # p => ingests'[q] = ingests[q]
        /\ ingests'[p].ref = ingests[p].ref /\ ingests'[p].atoms = atoms
        /\ ingests'[p].sides = ingests[p].sides /\ ingests'[p].pc \in {"atom", "link", "event"}
    BY <1>0, <2>1 DEF IngestState, NextDraft
  <2>4. \A a \in atoms : a.type = "atom" /\ a.scope = ingests[p].ref.scope /\ a \notin minted
    BY DEF randomId
  <2>5. IngestKnows(p)'
    BY <1>3, <1>0, <1>b, <2>2, <2>3, <2>4 DEF IndexEpisode, IngestKnows, Exists
  <2>6. PendingIngest(p)' \subseteq PendingIngest(p) \cup (minted' \ minted)
    BY <2>1, <2>3, <2>4 DEF PendingIngest
  <2> QED
    BY <2>1, <2>2, <2>3, <2>5, <2>6, IngestQuiet
<1>4. CASE UpsertAtom(p)
  <2>1. PICK a \in ingests[p].atoms :
          /\ upsert(a, "active")
          /\ sources' = [sources EXCEPT ![a] = {ingests[p].ref}]
          /\ ingests' = [ingests EXCEPT ![p] =
               [@ EXCEPT !.pc = "atomIndex", !.atom = a, !.atoms = ingests[p].atoms \ {a}]]
    BY <1>4 DEF UpsertAtom
  <2> DEFINE e == ingests[p].ref
  <2>2. /\ a \in Refs /\ a \in PendingIngest(p) /\ ~Exists(a) /\ a.type = "atom" /\ a.scope = e.scope
        /\ e \in Refs /\ Exists(e) /\ e.type = "episode" /\ sources[e] = {}
    BY <1>4, <1>0, <1>a DEF UpsertAtom, IngestState, IngestHolds, IngestKnows, PendingIngest, Unborn
  <2>3. /\ status' = [status EXCEPT ![a] = "active"]
        /\ sources' = [sources EXCEPT ![a] = {e}]
        /\ UNCHANGED <<minted, links, index, answers>>
    BY <1>4, <2>1 DEF UpsertAtom, upsert
  <2>4. /\ \A q \in IngestCalls : q # p => ingests'[q] = ingests[q]
        /\ ingests'[p].ref = e /\ ingests'[p].atoms = ingests[p].atoms \ {a}
        /\ ingests'[p].sides = ingests[p].sides /\ ingests'[p].pc = "atomIndex"
    BY <1>0, <2>1 DEF IngestState
  <2>5. Grows
    BY <1>0, <2>3 DEF Grows
  <2>5a. matchesScope(e.scope, a.scope)
    BY <2>2 DEF matchesScope
  <2> HIDE DEF e
  <2>6. Mono /\ Lineage' /\ (\A x \in Refs : Exists(x)' <=> Exists(x) \/ x = a)
    <3>1. {e} \in SUBSET Refs /\ (a.type = "episode" => {e} = {})
      BY <2>2
    <3>2. \A x \in {e} : Exists(x) /\ matchesScope(x.scope, a.scope)
      BY <2>2, <2>5a
    <3>3. \A d \in {e} : \A x \in sources[d] : x \in {e} \/ Condemned(x)
      BY <2>2
    <3> QED
      BY <1>0, <2>2, <2>3, <2>5, <3>1, <3>2, <3>3, BirthStep
  <2>7. IngestKnows(p)'
    BY <1>4, <1>0, <1>b, <2>2, <2>3, <2>4, <2>6 DEF UpsertAtom, IngestKnows, e, Exists
  <2>8. /\ PendingIngest(p)' \subseteq PendingIngest(p)
        /\ \A x \in PendingIngest(p)' : ~Exists(x)'
    <3>1. PendingIngest(p)' = ingests[p].atoms \ {a} /\ ingests[p].atoms \subseteq PendingIngest(p)
      BY <2>4 DEF PendingIngest
    <3>2. \A x \in ingests[p].atoms : x \in Refs /\ ~Exists(x)
      BY <1>0, <3>1 DEF IngestState, Unborn
    <3> QED
      BY <3>1, <3>2, <2>6
  <2> QED
    BY <2>2, <2>3, <2>4, <2>6, <2>7, <2>8, IngestFrame
<1>5. CASE IndexAtom(p)
  <2>1. /\ UNCHANGED <<status, sources, answers>> /\ minted \subseteq minted' /\ links \subseteq links'
        /\ index \subseteq index'
    BY <1>5 DEF IndexAtom, indexMemory
  <2>2. /\ \A q \in IngestCalls : q # p => ingests'[q] = ingests[q]
        /\ ingests'[p].ref = ingests[p].ref /\ ingests'[p].atoms = ingests[p].atoms /\ ingests'[p].sides = ingests[p].sides
        /\ ingests'[p].pc = "atomLink"
    BY <1>5, <1>0 DEF IndexAtom, IngestState
  <2>3. IngestKnows(p)'
    BY <1>5, <1>0, <1>b, <2>1, <2>2 DEF IndexAtom, IngestKnows, IngestHolds, Exists
  <2>4. PendingIngest(p)' \subseteq PendingIngest(p) \cup (minted' \ minted)
    BY <1>5, <2>2 DEF IndexAtom, PendingIngest
  <2> QED
    BY <2>1, <2>2, <2>3, <2>4, IngestQuiet
<1>6. CASE createDerivedLink(p)
  <2>1. /\ UNCHANGED <<status, sources, answers>> /\ minted \subseteq minted' /\ links \subseteq links'
        /\ index \subseteq index'
    BY <1>6 DEF createDerivedLink, addLink
  <2>2. /\ \A q \in IngestCalls : q # p => ingests'[q] = ingests[q]
        /\ ingests'[p].ref = ingests[p].ref /\ ingests'[p].atoms = ingests[p].atoms /\ ingests'[p].sides = ingests[p].sides
        /\ ingests'[p].pc \in {"atom", "link", "event"}
    BY <1>6, <1>0 DEF createDerivedLink, IngestState, NextDraft
  <2>3. IngestKnows(p)'
    BY <1>6, <1>0, <1>b, <2>1, <2>2 DEF createDerivedLink, IngestKnows, IngestHolds, Exists
  <2>4. PendingIngest(p)' \subseteq PendingIngest(p) \cup (minted' \ minted)
    BY <1>6, <2>2 DEF createDerivedLink, PendingIngest
  <2> QED
    BY <2>1, <2>2, <2>3, <2>4, IngestQuiet
<1>7. CASE AddContradicts(p)
  <2>1. PICK draft \in ingests[p].drafts :
          /\ addLink("contradicts", draft[1], draft[2])
          /\ ingests' = [ingests EXCEPT ![p] =
               [@ EXCEPT !.pc = "disputeGet", !.drafts = ingests[p].drafts \ {draft},
                         !.sides = {draft[1], draft[2]}]]
    BY <1>7 DEF AddContradicts
  <2>2. UNCHANGED <<status, sources, minted, index, answers>> /\ links \subseteq links'
    BY <1>7, <2>1 DEF AddContradicts, addLink
  <2>3. /\ \A q \in IngestCalls : q # p => ingests'[q] = ingests[q]
        /\ ingests'[p].ref = ingests[p].ref /\ ingests'[p].atoms = ingests[p].atoms
        /\ ingests'[p].sides = {draft[1], draft[2]} /\ ingests'[p].pc = "disputeGet"
    BY <1>0, <2>1 DEF IngestState
  <2>4. Contradicted(draft[1])' /\ Contradicted(draft[2])'
    <3>1. [linkType |-> "contradicts", from |-> draft[1], to |-> draft[2]] \in links'
      BY <2>1 DEF addLink
    <3> QED
      BY <3>1 DEF Contradicted
  <2>5. IngestKnows(p)'
    BY <1>7, <1>0, <2>2, <2>3, <2>4 DEF AddContradicts, IngestKnows, Exists
  <2>6. PendingIngest(p)' \subseteq PendingIngest(p) \cup (minted' \ minted)
    BY <2>3 DEF PendingIngest
  <2> QED
    BY <2>2, <2>3, <2>5, <2>6, IngestQuiet
<1>8. CASE DisputeGet(p)
  <2>1. PICK r \in ingests[p].sides :
          ingests' = [ingests EXCEPT ![p] =
            IF status[r] = "active" THEN [@ EXCEPT !.pc = "disputePut", !.atom = r]
            ELSE [@ EXCEPT !.sides = ingests[p].sides \ {r},
                    !.pc = NextSide(ingests[p].sides \ {r}, ingests[p].drafts)]]
    BY <1>8 DEF DisputeGet
  <2>2. UNCHANGED <<status, sources, minted, links, index, answers>>
    BY <1>8 DEF DisputeGet, stores
  <2>3. /\ \A q \in IngestCalls : q # p => ingests'[q] = ingests[q]
        /\ ingests'[p].ref = ingests[p].ref /\ ingests'[p].atoms = ingests[p].atoms
        /\ ingests'[p].sides \subseteq ingests[p].sides
        /\ \/ /\ ingests'[p].pc = "disputePut" /\ ingests'[p].atom = r
              /\ ingests'[p].sides = ingests[p].sides /\ status[r] = "active"
           \/ ingests'[p].pc \in {"disputeGet", "link", "event"}
    BY <1>0, <2>1 DEF IngestState, NextSide, NextDraft
  <2>4. IngestKnows(p)'
    BY <1>8, <1>0, <1>b, <2>2, <2>3 DEF DisputeGet, IngestKnows, Exists
  <2>5. PendingIngest(p)' \subseteq PendingIngest(p) \cup (minted' \ minted)
    BY <2>3 DEF PendingIngest
  <2> QED
    BY <2>2, <2>3, <2>4, <2>5, IngestQuiet
<1>9. CASE DisputePut(p)
  <2> DEFINE r == ingests[p].atom
  <2>1. r \in Refs /\ Exists(r) /\ Contradicted(r)
    BY <1>9, <1>0 DEF DisputePut, IngestHolds, IngestKnows
  <2>2. /\ status' = [status EXCEPT ![r] = "disputed"]
        /\ UNCHANGED <<sources, minted, links, index, answers>>
    BY <1>9 DEF DisputePut, upsert
  <2>3. /\ \A q \in IngestCalls : q # p => ingests'[q] = ingests[q]
        /\ ingests'[p].ref = ingests[p].ref /\ ingests'[p].atoms = ingests[p].atoms
        /\ ingests'[p].sides = ingests[p].sides /\ ingests'[p].atom = r
        /\ ingests'[p].pc = "disputeEvent"
    BY <1>9, <1>0 DEF DisputePut, IngestState
  <2>4. Grows
    BY <1>0, <2>2 DEF Grows
  <2> HIDE DEF r
  <2>5. Mono /\ Lineage' /\ (\A x \in Refs : Exists(x)' <=> Exists(x))
    BY <1>0, <2>1, <2>2, <2>4, RetiringStep
  <2>6. IngestKnows(p)'
    BY <1>9, <1>0, <1>b, <2>1, <2>2, <2>3, <2>5 DEF DisputePut, IngestKnows, IngestHolds, Mono, Grows, r
  <2>7. /\ PendingIngest(p)' \subseteq PendingIngest(p)
        /\ \A x \in PendingIngest(p)' : ~Exists(x)'
    BY <1>0, <2>3, <2>5 DEF PendingIngest, Unborn
  <2> QED
    BY <2>2, <2>3, <2>5, <2>6, <2>7, IngestFrame
<1>10. CASE DisputeEvent(p)
  <2>1. UNCHANGED <<status, sources, minted, links, index, answers>>
    BY <1>10 DEF DisputeEvent
  <2>2. /\ \A q \in IngestCalls : q # p => ingests'[q] = ingests[q]
        /\ ingests'[p].ref = ingests[p].ref /\ ingests'[p].atoms = ingests[p].atoms
        /\ ingests'[p].sides \subseteq ingests[p].sides
        /\ ingests'[p].pc \in {"disputeGet", "link", "event"}
    BY <1>10, <1>0 DEF DisputeEvent, IngestState, NextSide, NextDraft
  <2>3. IngestKnows(p)'
    BY <1>10, <1>0, <1>b, <2>1, <2>2 DEF DisputeEvent, IngestKnows, Exists
  <2>4. PendingIngest(p)' \subseteq PendingIngest(p) \cup (minted' \ minted)
    BY <2>2 DEF PendingIngest
  <2> QED
    BY <2>1, <2>2, <2>3, <2>4, IngestQuiet
<1>11. CASE AnswerCreated(p)
  <2>1. UNCHANGED <<status, sources, minted, links, index>>
    BY <1>11 DEF AnswerCreated
  <2>2. /\ \A q \in IngestCalls : q # p => ingests'[q] = ingests[q]
        /\ ingests'[p] = IdleIngest
    BY <1>11, <1>0 DEF AnswerCreated
  <2>3. IngestKnows(p)' /\ PendingIngest(p)' = {}
    BY <2>2 DEF IngestKnows, PendingIngest, IdleIngest
  <2>4. \A a \in answers' :
          a.result = "created" =>
            a \in answers \/ (Exists(a.ref) /\ (status[a.ref] = "active" => a.ref \in index))
    <3>1. Exists(ingests[p].ref) /\ (status[ingests[p].ref] = "active" => ingests[p].ref \in index)
      BY <1>11, <1>0 DEF AnswerCreated, IngestKnows
    <3> QED
      BY <1>11, <3>1 DEF AnswerCreated, answer
  <2> QED
    BY <2>1, <2>2, <2>3, <2>4, IngestQuiet
<1> QED
  BY <1>1, <1>2, <1>3, <1>4, <1>5, <1>6, <1>7, <1>8, <1>9, <1>10, <1>11 DEF IngestStep

LEMMA StartIngestSafe ==
  ASSUME SafetyInv, TypeInv', IngestOnly, StartIngest
  PROVE  SafetyInv' /\ Mono
<1>1. PICK p \in IngestCalls, s \in Scopes, k \in Keys \cup {NoKey} : resolveDedupeKey(p, s, k)
  BY DEF StartIngest
<1>2. UNCHANGED <<status, sources, links, index>>
  BY <1>1 DEF resolveDedupeKey
<1>3. ingests \in [IngestCalls -> IngestState] /\ IngestKnows(p)
  BY DEF SafetyInv, TypeInv, TypeOK, IngestTypeOK
<1> DEFINE hit == IF k = NoKey THEN NoRef ELSE dedupe[<<s, k>>]
<1>4. CASE answer("deduplicated", k, hit) /\ UNCHANGED <<minted, ingests>>
  <2>1. IngestKnows(p)' /\ PendingIngest(p)' = PendingIngest(p)
    BY <1>2, <1>3, <1>4 DEF IngestKnows, PendingIngest, Exists, Contradicted
  <2>2. \A a \in answers' : a.result = "created" => a \in answers
    BY <1>4 DEF answer
  <2> QED
    BY <1>2, <1>4, <2>1, <2>2, IngestQuiet
<1>5. ASSUME NEW e \in randomId("episode", s),
             minted' = minted \cup {e},
             ingests' = [ingests EXCEPT ![p] =
               [IdleIngest EXCEPT !.pc = "append", !.ref = e, !.key = k]],
             UNCHANGED answers
      PROVE  SafetyInv' /\ Mono
  <2>1. e.type = "episode" /\ e \notin minted
    BY DEF randomId
  <2>2. /\ \A q \in IngestCalls : q # p => ingests'[q] = ingests[q]
        /\ ingests'[p].pc = "append" /\ ingests'[p].ref = e
        /\ ingests'[p].atoms = {} /\ ingests'[p].sides = {}
    BY <1>3, <1>5 DEF IdleIngest
  <2>3. IngestKnows(p)' /\ PendingIngest(p)' = {e}
    BY <2>1, <2>2 DEF IngestKnows, PendingIngest
  <2> QED
    BY <1>2, <1>5, <2>1, <2>2, <2>3, IngestQuiet
<1> QED
  BY <1>1, <1>4, <1>5 DEF resolveDedupeKey

LEMMA AbandonIngestSafe ==
  ASSUME SafetyInv, TypeInv', IngestOnly, NEW p \in IngestCalls, AbandonIngest(p)
  PROVE  SafetyInv' /\ Mono
<1>1. UNCHANGED <<status, sources, minted, links, index, answers>>
  BY DEF AbandonIngest, stores
<1>2. (\A q \in IngestCalls : q # p => ingests'[q] = ingests[q]) /\ ingests'[p] = IdleIngest
  BY DEF AbandonIngest, SafetyInv, TypeInv, TypeOK, IngestTypeOK
<1>3. IngestKnows(p)' /\ PendingIngest(p)' = {}
  BY <1>2 DEF IngestKnows, PendingIngest, IdleIngest
<1> QED
  BY <1>1, <1>2, <1>3, IngestQuiet

-----------------------------------------------------------------------------
(* The steps of tombstone.                                                 *)

\* A step of tombstone that writes no object.
LEMMA TombstoneQuiet ==
  ASSUME SafetyInv, TypeInv', TombstoneOnly, NEW t \in TombstoneCalls,
         \A u \in TombstoneCalls : u # t => tombstones'[u] = tombstones[u],
         UNCHANGED <<status, sources, minted, links>>,
         requests \subseteq requests',
         \A r \in index : r \in index' \/ Retired(r),
         TombstoneKnows(t)'
  PROVE  SafetyInv' /\ Mono
<1>1. Grows
  BY DEF Grows, Retired
<1>2. Mono /\ Lineage'
  BY <1>1, QuietStep DEF SafetyInv
<1>3. \A r \in Refs : Exists(r)' <=> Exists(r)
  BY DEF Exists
<1> QED
  BY <1>2, <1>3, TombstoneFrame

\* The locals a call keeps, whatever ref it is at.
KeepsRequest(t) ==
  /\ \A u \in TombstoneCalls : u # t => tombstones'[u] = tombstones[u]
  /\ tombstones'[t].policy = tombstones[t].policy /\ tombstones'[t].scope = tombstones[t].scope
  /\ tombstones'[t].allObjects = tombstones[t].allObjects

LEMMA StartCascadeFields ==
  ASSUME TypeInv, NEW t \in TombstoneCalls, StartCascade(t)
  PROVE  /\ KeepsRequest(t) /\ tombstones'[t].refs = tombstones[t].refs
         /\ tombstones'[t].ref = tombstones[t].ref
         /\ tombstones'[t].pc \in {"event", "derived"}
         /\ \A d \in tombstones'[t].derived :
              d \in tombstones[t].allObjects /\ tombstones[t].ref \in sources[d]
<1>1. tombstones \in [TombstoneCalls -> TombstoneState] /\ tombstones[t] \in TombstoneState
  BY DEF TypeInv, TypeOK, TombstoneTypeOK
<1> DEFINE derived == IF tombstones[t].policy = "none" THEN {}
                      ELSE derivedFrom(t, tombstones[t].ref)
<1>2. \A d \in derived : d \in tombstones[t].allObjects /\ tombstones[t].ref \in sources[d]
  BY DEF derivedFrom
<1>3. tombstones' = [tombstones EXCEPT ![t] =
       [@ EXCEPT !.pc = IF derived = {} THEN "event" ELSE "derived", !.derived = derived]]
  BY DEF StartCascade
<1> HIDE DEF derived
<1> QED
  BY <1>1, <1>2, <1>3 DEF KeepsRequest, TombstoneState

LEMMA NextDerivedFields ==
  ASSUME TypeInv, NEW t \in TombstoneCalls, NEW rest, NextDerived(t, rest)
  PROVE  /\ KeepsRequest(t) /\ tombstones'[t].refs = tombstones[t].refs
         /\ tombstones'[t].ref = tombstones[t].ref
         /\ tombstones'[t].pc \in {"event", "derived"} /\ tombstones'[t].derived = rest
BY DEF NextDerived, KeepsRequest, TypeInv, TypeOK, TombstoneTypeOK, TombstoneState

LEMMA TombstoneSafe ==
  ASSUME SafetyInv, TypeInv', TombstoneOnly, NEW t \in TombstoneCalls, TombstoneStep(t)
  PROVE  SafetyInv' /\ Mono
<1>0. /\ tombstones[t] \in TombstoneState /\ tombstones \in [TombstoneCalls -> TombstoneState]
      /\ TombstoneHolds(t) /\ TombstoneKnows(t)
      /\ TypeInv /\ Lineage
      /\ status \in [Refs -> Statuses]
  BY DEF SafetyInv, TypeInv, TypeOK, StoresTypeOK, TombstoneTypeOK
<1>a. KeepsRequest(t) /\ requests \subseteq requests' => \A r : Asked(t, r) => Asked(t, r)'
  BY DEF KeepsRequest, Asked
<1>b. KeepsRequest(t) => \A u \in TombstoneCalls : u # t => tombstones'[u] = tombstones[u]
  BY DEF KeepsRequest
<1>1. CASE GetTarget(t)
  <2>1. UNCHANGED <<status, sources, minted, links, index, requests>>
    BY <1>1 DEF GetTarget, stores
  <2>2. PICK r \in tombstones[t].refs :
          \/ tombstones' = [tombstones EXCEPT ![t].refs = tombstones[t].refs \ {r}]
          \/ /\ Exists(r)
             /\ tombstones' = [tombstones EXCEPT ![t] =
                  [@ EXCEPT !.refs = tombstones[t].refs \ {r}, !.ref = r, !.pc = "put"]]
    BY <1>1 DEF GetTarget
  <2>3. /\ KeepsRequest(t) /\ tombstones'[t].refs \subseteq tombstones[t].refs
        /\ \/ tombstones'[t].pc = tombstones[t].pc
           \/ Exists(r) /\ tombstones'[t].ref = r /\ tombstones'[t].pc = "put"
    <3>1. CASE tombstones' = [tombstones EXCEPT ![t].refs = tombstones[t].refs \ {r}]
      BY <1>0, <3>1 DEF KeepsRequest, TombstoneState
    <3>2. CASE /\ Exists(r)
               /\ tombstones' = [tombstones EXCEPT ![t] =
                    [@ EXCEPT !.refs = tombstones[t].refs \ {r}, !.ref = r, !.pc = "put"]]
      <4> DEFINE u == [tombstones[t] EXCEPT !.refs = tombstones[t].refs \ {r}, !.ref = r, !.pc = "put"]
      <4>1. tombstones' = [tombstones EXCEPT ![t] = u]
        BY <3>2
      <4>2. /\ u.policy = tombstones[t].policy /\ u.scope = tombstones[t].scope
            /\ u.allObjects = tombstones[t].allObjects
            /\ u.refs \subseteq tombstones[t].refs /\ u.ref = r /\ u.pc = "put"
        BY <1>0 DEF TombstoneState
      <4> HIDE DEF u
      <4>3. tombstones'[t] = u /\ \A v \in TombstoneCalls : v # t => tombstones'[v] = tombstones[v]
        BY <1>0, <4>1
      <4> QED
        BY <3>2, <4>2, <4>3 DEF KeepsRequest
    <3> QED
      BY <2>2, <3>1, <3>2
  <2>4. TombstoneKnows(t)'
    BY <1>1, <1>0, <1>a, <2>1, <2>3 DEF GetTarget, TombstoneKnows, KeepsRequest, Exists
  <2> QED
    BY <1>b, <2>1, <2>3, <2>4, TombstoneQuiet
<1>2. CASE PutTombstoned(t)
  <2> DEFINE r == tombstones[t].ref
  <2>1. r \in Refs /\ Exists(r) /\ Condemned(r)
    BY <1>2, <1>0 DEF PutTombstoned, TombstoneHolds, TombstoneKnows, Asked, Condemned
  <2>2. /\ status' = [status EXCEPT ![r] = "tombstoned"]
        /\ UNCHANGED <<sources, minted, links, index, requests>>
    BY <1>2 DEF PutTombstoned, upsert
  <2>3. /\ KeepsRequest(t) /\ tombstones'[t].refs = tombstones[t].refs
        /\ tombstones'[t].ref = r /\ tombstones'[t].pc = "unindex"
    BY <1>2, <1>0 DEF PutTombstoned, KeepsRequest, TombstoneState
  <2>4. Asked(t, r)
    BY <1>2, <1>0 DEF PutTombstoned, TombstoneKnows
  <2>5. Grows
    BY <2>2 DEF Grows
  <2> HIDE DEF r
  <2>6. Mono /\ Lineage' /\ (\A x \in Refs : Exists(x)' <=> Exists(x))
    BY <1>0, <2>1, <2>2, <2>5, RetiringStep
  <2>7. status'[r] = "tombstoned"
    BY <1>0, <2>1, <2>2
  <2>8. Retired(tombstones[t].ref)' /\ Exists(tombstones[t].ref)'
    BY <2>3, <2>7 DEF Retired, Exists
  <2>9. Asked(t, tombstones[t].ref)'
    BY <1>a, <2>2, <2>3, <2>4 DEF Asked, KeepsRequest, r
  <2>10. TombstoneKnows(t)'
    BY <1>0, <1>a, <2>2, <2>3, <2>6, <2>8, <2>9 DEF TombstoneKnows, KeepsRequest, TombstoneState, r
  <2> QED
    BY <1>b, <2>3, <2>6, <2>10, TombstoneFrame
<1>3. CASE UnindexTarget(t)
  <2>1. /\ UNCHANGED <<status, sources, minted, links, requests>>
        /\ index' = index \ {tombstones[t].ref}
        /\ Asked(t, tombstones[t].ref) /\ Exists(tombstones[t].ref) /\ Retired(tombstones[t].ref)
    BY <1>3, <1>0 DEF UnindexTarget, removeIndexed, TombstoneKnows
  <2>2. /\ KeepsRequest(t) /\ tombstones'[t].refs = tombstones[t].refs
        /\ tombstones'[t].ref = tombstones[t].ref
        /\ \/ tombstones'[t].pc = "episode"
           \/ /\ tombstones'[t].pc \in {"event", "derived"}
              /\ \A d \in tombstones'[t].derived :
                   d \in tombstones[t].allObjects /\ tombstones[t].ref \in sources[d]
    <3>1. CASE tombstones' = [tombstones EXCEPT ![t].pc = "episode"]
      BY <1>0, <3>1 DEF KeepsRequest, TombstoneState
    <3>2. CASE StartCascade(t)
      BY <1>0, <3>2, StartCascadeFields
    <3> QED
      BY <1>3, <3>1, <3>2 DEF UnindexTarget
  <2>3. TombstoneKnows(t)'
    BY <1>0, <1>a, <2>1, <2>2 DEF TombstoneKnows, KeepsRequest, Exists, Retired
  <2> QED
    BY <1>b, <2>1, <2>2, <2>3, TombstoneQuiet
<1>4. CASE TombstoneEpisode(t)
  <2>1. /\ UNCHANGED <<status, sources, minted, links, index, requests>>
        /\ Asked(t, tombstones[t].ref) /\ Exists(tombstones[t].ref) /\ Retired(tombstones[t].ref)
    BY <1>4, <1>0 DEF TombstoneEpisode, TombstoneKnows
  <2>2. /\ KeepsRequest(t) /\ tombstones'[t].refs = tombstones[t].refs
        /\ tombstones'[t].ref = tombstones[t].ref
        /\ tombstones'[t].pc \in {"event", "derived"}
        /\ \A d \in tombstones'[t].derived :
             d \in tombstones[t].allObjects /\ tombstones[t].ref \in sources[d]
    BY <1>4, <1>0, StartCascadeFields DEF TombstoneEpisode
  <2>3. TombstoneKnows(t)'
    BY <1>0, <1>a, <2>1, <2>2 DEF TombstoneKnows, KeepsRequest, Exists, Retired
  <2> QED
    BY <1>b, <2>1, <2>2, <2>3, TombstoneQuiet
<1>5. CASE MarkDerivedGet(t)
  <2>1. /\ UNCHANGED <<status, sources, minted, links, index, requests>>
        /\ Asked(t, tombstones[t].ref) /\ Exists(tombstones[t].ref) /\ Retired(tombstones[t].ref)
        /\ tombstones[t].policy = "mark_derived_stale"
        /\ \A d \in tombstones[t].derived : Exists(d) /\ tombstones[t].ref \in sources[d]
    BY <1>5, <1>0 DEF MarkDerivedGet, TombstoneKnows, stores
  <2>2. PICK d \in tombstones[t].derived :
          IF status[d] = "active"
          THEN tombstones' = [tombstones EXCEPT ![t] =
                 [@ EXCEPT !.pc = "stalePut", !.derivedRef = d]]
          ELSE NextDerived(t, tombstones[t].derived \ {d})
    BY <1>5 DEF MarkDerivedGet
  <2>3. /\ KeepsRequest(t) /\ tombstones'[t].refs = tombstones[t].refs
        /\ tombstones'[t].ref = tombstones[t].ref
        /\ tombstones'[t].derived \subseteq tombstones[t].derived
        /\ \/ tombstones'[t].pc \in {"event", "derived"}
           \/ /\ tombstones'[t].pc = "stalePut" /\ tombstones'[t].derivedRef = d
              /\ tombstones'[t].derived = tombstones[t].derived
    <3>1. CASE status[d] = "active"
      <4>1. tombstones' = [tombstones EXCEPT ![t] = [@ EXCEPT !.pc = "stalePut", !.derivedRef = d]]
        BY <2>2, <3>1
      <4> QED
        BY <1>0, <4>1 DEF KeepsRequest, TombstoneState
    <3>2. CASE status[d] # "active"
      BY <1>0, <2>2, <3>2, NextDerivedFields
    <3> QED
      BY <3>1, <3>2
  <2>4. TombstoneKnows(t)'
    BY <1>0, <1>a, <2>1, <2>3 DEF TombstoneKnows, KeepsRequest, Exists, Retired
  <2> QED
    BY <1>b, <2>1, <2>3, <2>4, TombstoneQuiet
<1>6. CASE MarkDerivedPut(t)
  <2> DEFINE r == tombstones[t].derivedRef
  <2>1. /\ r \in Refs /\ Exists(r) /\ Marked(r)
        /\ tombstones[t].ref \in Refs /\ Asked(t, tombstones[t].ref) /\ Exists(tombstones[t].ref)
        /\ Retired(tombstones[t].ref)
        /\ \A d \in tombstones[t].derived : Exists(d) /\ tombstones[t].ref \in sources[d]
    BY <1>6, <1>0 DEF MarkDerivedPut, TombstoneHolds, TombstoneKnows, Asked, Marked
  <2>2. /\ status' = [status EXCEPT ![r] = "pending"]
        /\ UNCHANGED <<sources, minted, links, index, requests>>
    BY <1>6 DEF MarkDerivedPut, upsert
  <2>3. /\ KeepsRequest(t) /\ tombstones'[t].refs = tombstones[t].refs
        /\ tombstones'[t].ref = tombstones[t].ref
        /\ tombstones'[t].pc \in {"event", "derived"}
        /\ tombstones'[t].derived \subseteq tombstones[t].derived
    BY <1>6, <1>0, NextDerivedFields DEF MarkDerivedPut
  <2>4. Grows
    BY <2>2 DEF Grows
  <2> HIDE DEF r
  <2>5. Mono /\ Lineage' /\ (\A x \in Refs : Exists(x)' <=> Exists(x))
    BY <1>0, <2>1, <2>2, <2>4, RetiringStep
  <2>6. TombstoneKnows(t)'
    BY <1>0, <1>a, <2>1, <2>2, <2>3, <2>5 DEF TombstoneKnows, KeepsRequest, TombstoneState, Mono
  <2> QED
    BY <1>b, <2>3, <2>5, <2>6, TombstoneFrame
<1>7. CASE TombstoneDerived(t)
  <2>1. PICK r \in tombstones[t].derived :
          /\ upsert(r, "tombstoned")
          /\ tombstones' = [tombstones EXCEPT ![t] =
               [@ EXCEPT !.pc = "derivedUnindex", !.derivedRef = r]]
    BY <1>7 DEF TombstoneDerived
  <2>2. /\ r \in Refs /\ Exists(r) /\ Condemned(r)
        /\ tombstones[t].ref \in Refs /\ Asked(t, tombstones[t].ref) /\ Exists(tombstones[t].ref)
        /\ Retired(tombstones[t].ref)
        /\ \A d \in tombstones[t].derived : Exists(d) /\ tombstones[t].ref \in sources[d]
    BY <1>7, <1>0 DEF TombstoneDerived, TombstoneHolds, TombstoneKnows, TombstoneState, Asked, Condemned
  <2>3. /\ status' = [status EXCEPT ![r] = "tombstoned"]
        /\ UNCHANGED <<sources, minted, links, index, requests>>
    BY <1>7, <2>1 DEF TombstoneDerived, upsert
  <2>4. /\ KeepsRequest(t) /\ tombstones'[t].refs = tombstones[t].refs
        /\ tombstones'[t].ref = tombstones[t].ref
        /\ tombstones'[t].pc = "derivedUnindex" /\ tombstones'[t].derivedRef = r
        /\ tombstones'[t].derived = tombstones[t].derived
    BY <1>0, <2>1 DEF KeepsRequest, TombstoneState
  <2>5. Grows
    BY <2>3 DEF Grows
  <2>6. Mono /\ Lineage' /\ (\A x \in Refs : Exists(x)' <=> Exists(x))
    BY <1>0, <2>2, <2>3, <2>5, RetiringStep
  <2>7. Retired(r)'
    BY <1>0, <2>2, <2>3 DEF Retired
  <2>8. TombstoneKnows(t)'
    BY <1>0, <1>a, <2>2, <2>3, <2>4, <2>6, <2>7 DEF TombstoneKnows, KeepsRequest, TombstoneState, Mono
  <2> QED
    BY <1>b, <2>4, <2>6, <2>8, TombstoneFrame
<1>8. CASE UnindexDerived(t)
  <2>1. /\ UNCHANGED <<status, sources, minted, links, requests>>
        /\ index' = index \ {tombstones[t].derivedRef} /\ Retired(tombstones[t].derivedRef)
        /\ Asked(t, tombstones[t].ref) /\ Exists(tombstones[t].ref) /\ Retired(tombstones[t].ref)
        /\ \A d \in tombstones[t].derived : Exists(d) /\ tombstones[t].ref \in sources[d]
    BY <1>8, <1>0 DEF UnindexDerived, removeIndexed, TombstoneKnows
  <2>2. /\ KeepsRequest(t) /\ tombstones'[t].refs = tombstones[t].refs
        /\ tombstones'[t].ref = tombstones[t].ref
        /\ tombstones'[t].pc \in {"event", "derived"}
        /\ tombstones'[t].derived \subseteq tombstones[t].derived
    BY <1>8, <1>0, NextDerivedFields DEF UnindexDerived
  <2>3. TombstoneKnows(t)'
    BY <1>0, <1>a, <2>1, <2>2 DEF TombstoneKnows, KeepsRequest, Exists, Retired
  <2> QED
    BY <1>b, <2>1, <2>2, <2>3, TombstoneQuiet
<1>9. CASE AnswerTombstoned(t)
  <2>1. UNCHANGED <<status, sources, minted, links, index, requests>>
    BY <1>9 DEF AnswerTombstoned
  <2>2. /\ KeepsRequest(t) /\ tombstones'[t].refs = tombstones[t].refs
        /\ tombstones'[t].pc = "next"
    BY <1>9, <1>0 DEF AnswerTombstoned, KeepsRequest, TombstoneState
  <2>3. TombstoneKnows(t)'
    BY <1>0, <1>a, <2>1, <2>2 DEF TombstoneKnows, KeepsRequest, Exists
  <2> QED
    BY <1>b, <2>1, <2>2, <2>3, TombstoneQuiet
<1>10. CASE ReturnTombstone(t)
  <2>1. UNCHANGED <<status, sources, minted, links, index, requests>>
    BY <1>10 DEF ReturnTombstone, stores
  <2>2. /\ \A u \in TombstoneCalls : u # t => tombstones'[u] = tombstones[u]
        /\ tombstones'[t] = IdleTombstone
    BY <1>10, <1>0 DEF ReturnTombstone
  <2>3. TombstoneKnows(t)'
    BY <2>2 DEF TombstoneKnows, IdleTombstone
  <2> QED
    BY <2>1, <2>2, <2>3, TombstoneQuiet
<1> QED
  BY <1>1, <1>2, <1>3, <1>4, <1>5, <1>6, <1>7, <1>8, <1>9, <1>10 DEF TombstoneStep

LEMMA AbandonTombstoneSafe ==
  ASSUME SafetyInv, TypeInv', TombstoneOnly, NEW t \in TombstoneCalls, AbandonTombstone(t)
  PROVE  SafetyInv' /\ Mono
<1>1. UNCHANGED <<status, sources, minted, links, index, requests>>
  BY DEF AbandonTombstone, stores
<1>2. (\A u \in TombstoneCalls : u # t => tombstones'[u] = tombstones[u]) /\ tombstones'[t] = IdleTombstone
  BY DEF AbandonTombstone, SafetyInv, TypeInv, TypeOK, TombstoneTypeOK
<1>3. TombstoneKnows(t)'
  BY <1>2 DEF TombstoneKnows, IdleTombstone
<1> QED
  BY <1>1, <1>2, <1>3, TombstoneQuiet

LEMMA StartTombstoneSafe ==
  ASSUME SafetyInv, TypeInv', TombstoneOnly, NEW K, StartTombstone(K)
  PROVE  SafetyInv' /\ Mono
<1>1. PICK t \in TombstoneCalls, s \in Scopes, refs \in SUBSET K, policy \in Policies :
        TombstoneCall(t, s, refs, policy)
  BY DEF StartTombstone
<1>2. /\ UNCHANGED <<status, sources, minted, links, index>>
      /\ requests \subseteq requests'
      /\ \A r \in refs : [ref |-> r, policy |-> policy, scope |-> s] \in requests'
  BY <1>1 DEF TombstoneCall, stores
<1>3. /\ \A u \in TombstoneCalls : u # t => tombstones'[u] = tombstones[u]
      /\ tombstones'[t].pc = "next" /\ tombstones'[t].refs = refs
      /\ tombstones'[t].policy = policy /\ tombstones'[t].scope = s
      /\ tombstones'[t].allObjects = list(s)
  BY <1>1 DEF TombstoneCall, SafetyInv, TypeInv, TypeOK, TombstoneTypeOK, IdleTombstone
<1>4. TombstoneKnows(t)'
  BY <1>2, <1>3 DEF TombstoneKnows, Asked, list, Exists
<1> QED
  BY <1>2, <1>3, <1>4, TombstoneQuiet

-----------------------------------------------------------------------------
(* The steps of consolidate.                                               *)

\* A step of consolidate that writes no object.
LEMMA ConsolidateQuiet ==
  ASSUME SafetyInv, TypeInv', ConsolidateOnly, NEW c \in ConsolidateCalls,
         \A d \in ConsolidateCalls : d # c => consolidations'[d] = consolidations[d],
         UNCHANGED <<status, sources>>,
         minted \subseteq minted', links \subseteq links',
         \A r \in index : r \in index' \/ Retired(r),
         ConsolidateKnows(c)',
         PendingConsolidate(c)' \subseteq minted' \ minted
  PROVE  SafetyInv' /\ Mono
<1>1. Grows
  BY DEF Grows, Retired, ConsolidateOnly, tombstoneVars
<1>2. Mono /\ Lineage'
  BY <1>1, QuietStep DEF SafetyInv
<1>3. \A r \in Refs : Exists(r)' <=> Exists(r)
  BY DEF Exists
<1>4. \A r \in PendingConsolidate(c)' : ~Exists(r)'
  BY <1>3 DEF SafetyInv, Fresh, TypeInv, TypeOK, StoresTypeOK
<1> QED
  BY <1>2, <1>3, <1>4, ConsolidateFrame

LEMMA NextSupersededFields ==
  ASSUME TypeInv, NEW c \in ConsolidateCalls, NEW left, NextSuperseded(c, left)
  PROVE  /\ \A d \in ConsolidateCalls : d # c => consolidations'[d] = consolidations[d]
         /\ \/ consolidations'[c].pc = "idle"
            \/ /\ consolidations'[c].pc = "supersede" /\ consolidations'[c].left = left
               /\ consolidations'[c].con = consolidations[c].con
               /\ consolidations'[c].sources = consolidations[c].sources
<1>1. /\ consolidations \in [ConsolidateCalls -> ConsolidateState]
      /\ consolidations[c] \in ConsolidateState
  BY DEF TypeInv, TypeOK, ConsolidateTypeOK
<1>2. CASE left = {}
  BY <1>1, <1>2 DEF NextSuperseded, IdleConsolidate
<1>3. CASE left # {}
  <2>1. consolidations' = [consolidations EXCEPT ![c] =
          [@ EXCEPT !.pc = "supersede", !.left = left, !.ref = NoRef]]
    BY <1>3 DEF NextSuperseded
  <2> QED
    BY <1>1, <2>1 DEF ConsolidateState
<1> QED
  BY <1>2, <1>3

LEMMA ConsolidateSafe ==
  ASSUME SafetyInv, TypeInv', ConsolidateOnly, NEW c \in ConsolidateCalls, ConsolidateStep(c)
  PROVE  SafetyInv' /\ Mono
<1>0. /\ consolidations \in [ConsolidateCalls -> ConsolidateState]
      /\ consolidations[c] \in ConsolidateState
      /\ ConsolidateHolds(c) /\ ConsolidateKnows(c)
      /\ TypeInv /\ Lineage
      /\ status \in [Refs -> Statuses] /\ sources \in [Refs -> SUBSET Refs]
  BY DEF SafetyInv, TypeInv, TypeOK, StoresTypeOK, ConsolidateTypeOK
<1>a. UNCHANGED requests
  BY DEF ConsolidateOnly, tombstoneVars
<1> DEFINE u == consolidations[c]
           con == consolidations[c].con
           S == consolidations[c].sources
           Others == \A d \in ConsolidateCalls : d # c => consolidations'[d] = consolidations[d]
\* What a call that has stored its consolidation goes on knowing.
<1>b. u.pc \notin {"idle", "upsert"} /\ UNCHANGED <<status, sources>> =>
        /\ con.type = "consolidation" /\ status'[con] # "absent" /\ sources'[con] = S
        /\ \A s \in S : Exists(s)' /\ matchesScope(s.scope, con.scope)
        /\ \A d \in S : \A s \in sources'[d] : s \in S \/ Condemned(s)'
  <2> SUFFICES ASSUME u.pc \notin {"idle", "upsert"}, UNCHANGED <<status, sources>>
               PROVE  /\ con.type = "consolidation" /\ Exists(con) /\ sources[con] = S
                      /\ \A s \in S : Exists(s) /\ matchesScope(s.scope, con.scope)
                      /\ \A d \in S : \A s \in sources[d] : s \in S \/ Condemned(s)
    BY <1>a DEF Exists, Condemned
  <2> QED
    BY <1>0 DEF ConsolidateKnows
\* The step to the next ref, or to the end.
<1>c. ASSUME u.pc \notin {"idle", "upsert"}, UNCHANGED <<status, sources>>,
             NEW left, left \subseteq supersedes(S), NextSuperseded(c, left)
      PROVE  Others /\ ConsolidateKnows(c)' /\ PendingConsolidate(c)' = {}
  BY <1>0, <1>b, <1>c, NextSupersededFields DEF ConsolidateKnows, PendingConsolidate, supersedes, Exists
<1>1. CASE UpsertConsolidation(c)
  <2>1. /\ con \in Refs /\ con.type = "consolidation" /\ ~Exists(con) /\ con \in minted
        /\ S \in SUBSET Refs
        /\ \A s \in S : Exists(s) /\ matchesScope(s.scope, con.scope)
        /\ \A d \in S : \A s \in sources[d] : s \in S \/ Condemned(s)
        /\ PendingConsolidate(c) = {con}
    BY <1>1, <1>0 DEF UpsertConsolidation, ConsolidateHolds, ConsolidateKnows, ConsolidateState,
         SafetyInv, Fresh, PendingConsolidate, Unborn
  <2>2. /\ status' = [status EXCEPT ![con] = "active"] /\ sources' = [sources EXCEPT ![con] = S]
        /\ UNCHANGED <<minted, links, index>>
    BY <1>1 DEF UpsertConsolidation, upsert
  <2>3. /\ Others
        /\ consolidations'[c].pc = "index" /\ consolidations'[c].con = con
        /\ consolidations'[c].sources = S
    BY <1>1, <1>0 DEF UpsertConsolidation, ConsolidateState
  <2>4. Grows
    BY <2>2, <1>a DEF Grows
  <2>5. Mono /\ Lineage' /\ (\A x \in Refs : Exists(x)' <=> Exists(x) \/ x = con)
    <3> HIDE DEF con, S
    <3> QED
      BY <1>0, <2>1, <2>2, <2>4, BirthStep
  <2>6. sources'[con] = S /\ status'[con] # "absent"
    BY <1>0, <2>1, <2>2
  <2>7. \A d \in S : \A s \in sources'[d] : s \in S \/ Condemned(s)'
    BY <1>0, <2>1, <2>5, CausesStay DEF Mono, Lineage, ProvenanceIntact
  <2>8. ConsolidateKnows(c)'
    BY <2>1, <2>3, <2>5, <2>6, <2>7 DEF ConsolidateKnows, Exists
  <2>9. PendingConsolidate(c)' = {}
    BY <2>3 DEF PendingConsolidate
  <2> QED
    BY <2>1, <2>3, <2>5, <2>8, <2>9, ConsolidateFrame
<1>2. CASE IndexConsolidation(c)
  <2>1. u.pc = "index" /\ UNCHANGED <<status, sources, minted, links>> /\ index \subseteq index'
    BY <1>2 DEF IndexConsolidation, indexMemory
  <2>2. Others /\ ConsolidateKnows(c)' /\ PendingConsolidate(c)' = {}
    <3>1. NextSuperseded(c, supersedes(S))
      BY <1>2 DEF IndexConsolidation
    <3> HIDE DEF Others, S
    <3> QED
      BY <1>c, <2>1, <3>1
  <2> QED
    BY <2>1, <2>2, ConsolidateQuiet
<1>3. CASE SupersedeGet(c)
  <2>1. /\ u.pc = "supersede" /\ UNCHANGED <<status, sources, minted, links, index>>
        /\ u.left \subseteq supersedes(S)
    BY <1>3, <1>0 DEF SupersedeGet, stores, ConsolidateKnows
  <2>2. PICK r \in u.left :
          \/ NextSuperseded(c, u.left \ {r})
          \/ consolidations' = [consolidations EXCEPT ![c] =
               [@ EXCEPT !.pc = "supersedePut", !.ref = r]]
    BY <1>3 DEF SupersedeGet
  <2>3. CASE NextSuperseded(c, u.left \ {r})
    <3>1. u.left \ {r} \subseteq supersedes(S)
      BY <2>1
    <3>2. Others /\ ConsolidateKnows(c)' /\ PendingConsolidate(c)' = {}
      <4> HIDE DEF Others, S
      <4> QED
        BY <1>c, <2>1, <2>3, <3>1
    <3> QED
      BY <2>1, <3>2, ConsolidateQuiet
  <2>4. CASE consolidations' = [consolidations EXCEPT ![c] =
               [@ EXCEPT !.pc = "supersedePut", !.ref = r]]
    <3>1. /\ Others
          /\ consolidations'[c].pc = "supersedePut" /\ consolidations'[c].ref = r
          /\ consolidations'[c].con = con /\ consolidations'[c].sources = S
          /\ consolidations'[c].left = u.left
      BY <1>0, <2>4 DEF ConsolidateState
    <3>2. ConsolidateKnows(c)'
      BY <1>b, <2>1, <2>2, <3>1 DEF ConsolidateKnows, supersedes, Exists
    <3>3. PendingConsolidate(c)' = {}
      BY <3>1 DEF PendingConsolidate
    <3> QED
      BY <2>1, <3>1, <3>2, <3>3, ConsolidateQuiet
  <2> QED
    BY <2>2, <2>3, <2>4
<1>4. CASE SupersedePut(c)
  <2> DEFINE r == consolidations[c].ref
  <2>1. /\ con \in Refs /\ con.type = "consolidation" /\ Exists(con) /\ sources[con] = S
        /\ S \in SUBSET Refs
        /\ \A s \in S : Exists(s) /\ matchesScope(s.scope, con.scope)
        /\ \A d \in S : \A s \in sources[d] : s \in S \/ Condemned(s)
        /\ u.left \subseteq supersedes(S) /\ r \in u.left
    BY <1>4, <1>0 DEF SupersedePut, ConsolidateKnows, ConsolidateHolds, ConsolidateState
  <2>2. r \in Refs /\ Exists(r) /\ Merged(r)
    BY <2>1 DEF supersedes, Merged
  <2>3. /\ status' = [status EXCEPT ![r] = "superseded"]
        /\ UNCHANGED <<sources, minted, links, index>>
    BY <1>4 DEF SupersedePut, upsert
  <2>4. /\ Others
        /\ consolidations'[c].pc = "unindex" /\ consolidations'[c].ref = r
        /\ consolidations'[c].con = con /\ consolidations'[c].sources = S
        /\ consolidations'[c].left = u.left
    BY <1>4, <1>0 DEF SupersedePut, ConsolidateState
  <2>5. Grows
    BY <2>3, <1>a DEF Grows
  <2>6. Mono /\ Lineage' /\ (\A x \in Refs : Exists(x)' <=> Exists(x))
    <3> HIDE DEF r
    <3> QED
      BY <1>0, <2>2, <2>3, <2>5, RetiringStep
  <2>7. Retired(consolidations[c].ref)'
    BY <1>0, <2>2, <2>3, <2>4 DEF Retired
  <2>8. \A d \in S : \A s \in sources'[d] : s \in S \/ Condemned(s)'
    BY <1>0, <2>1, <2>3, <2>6, CausesStay
  <2>9. ConsolidateKnows(c)'
    BY <2>1, <2>3, <2>4, <2>6, <2>7, <2>8 DEF ConsolidateKnows, supersedes, Exists
  <2>10. PendingConsolidate(c)' = {}
    BY <2>4 DEF PendingConsolidate
  <2> QED
    BY <2>4, <2>6, <2>9, <2>10, ConsolidateFrame
<1>5. CASE UnindexSuperseded(c)
  <2>1. /\ UNCHANGED <<status, sources, minted, links>> /\ index' = index \ {u.ref}
        /\ u.pc = "unindex" /\ u.left \subseteq supersedes(S) /\ u.ref \in u.left /\ Retired(u.ref)
    BY <1>5, <1>0 DEF UnindexSuperseded, removeIndexed, ConsolidateKnows
  <2>2. /\ Others
        /\ consolidations'[c].pc = "link" /\ consolidations'[c].ref = u.ref
        /\ consolidations'[c].con = con /\ consolidations'[c].sources = S
        /\ consolidations'[c].left = u.left
    BY <1>5, <1>0 DEF UnindexSuperseded, ConsolidateState
  <2>3. ConsolidateKnows(c)' /\ PendingConsolidate(c)' = {}
    BY <1>b, <2>1, <2>2 DEF ConsolidateKnows, supersedes, Retired, PendingConsolidate, Exists
  <2> QED
    BY <2>1, <2>2, <2>3, ConsolidateQuiet
<1>6. CASE LinkSuperseded(c)
  <2>1. /\ UNCHANGED <<status, sources, minted, index>> /\ links \subseteq links'
        /\ u.pc = "link" /\ u.left \subseteq supersedes(S) /\ u.ref \in u.left /\ Retired(u.ref)
    BY <1>6, <1>0 DEF LinkSuperseded, addLink, ConsolidateKnows
  <2>2. /\ Others
        /\ consolidations'[c].pc = "event" /\ consolidations'[c].ref = u.ref
        /\ consolidations'[c].con = con /\ consolidations'[c].sources = S
        /\ consolidations'[c].left = u.left
    BY <1>6, <1>0 DEF LinkSuperseded, ConsolidateState
  <2>3. ConsolidateKnows(c)' /\ PendingConsolidate(c)' = {}
    BY <1>b, <2>1, <2>2 DEF ConsolidateKnows, supersedes, Retired, PendingConsolidate, Exists
  <2> QED
    BY <2>1, <2>2, <2>3, ConsolidateQuiet
<1>7. CASE ReportSuperseded(c)
  <2>1. /\ UNCHANGED <<status, sources, minted, links, index>>
        /\ u.pc = "event" /\ u.left \ {u.ref} \subseteq supersedes(S)
        /\ NextSuperseded(c, u.left \ {u.ref})
    BY <1>7, <1>0 DEF ReportSuperseded, ConsolidateKnows
  <2>2. Others /\ ConsolidateKnows(c)' /\ PendingConsolidate(c)' = {}
    <3> HIDE DEF Others, S
    <3> QED
      BY <1>c, <2>1
  <2> QED
    BY <2>1, <2>2, ConsolidateQuiet
<1> QED
  BY <1>1, <1>2, <1>3, <1>4, <1>5, <1>6, <1>7 DEF ConsolidateStep

LEMMA AbandonConsolidateSafe ==
  ASSUME SafetyInv, TypeInv', ConsolidateOnly, NEW c \in ConsolidateCalls, AbandonConsolidate(c)
  PROVE  SafetyInv' /\ Mono
<1>1. UNCHANGED <<status, sources, minted, links, index>>
  BY DEF AbandonConsolidate, stores
<1>2. /\ \A d \in ConsolidateCalls : d # c => consolidations'[d] = consolidations[d]
      /\ consolidations'[c] = IdleConsolidate
  BY DEF AbandonConsolidate, SafetyInv, TypeInv, TypeOK, ConsolidateTypeOK
<1>3. ConsolidateKnows(c)' /\ PendingConsolidate(c)' = {}
  BY <1>2 DEF ConsolidateKnows, PendingConsolidate, IdleConsolidate
<1> QED
  BY <1>1, <1>2, <1>3, ConsolidateQuiet

\* What a scope reads, a wider scope reads.
LEMMA ScopesNest ==
  ASSUME NEW s, NEW t, NEW u, matchesScope(s, t), matchesScope(t, u)
  PROVE  matchesScope(s, u)
BY DEF matchesScope

LEMMA StartConsolidateSafe ==
  ASSUME SafetyInv, TypeInv', ConsolidateOnly, StartConsolidate
  PROVE  SafetyInv' /\ Mono
<1>1. PICK c \in ConsolidateCalls, scope \in Scopes : ListSources(c, scope)
  BY DEF StartConsolidate
<1>2. UNCHANGED <<status, sources, links, index, requests>>
  BY <1>1 DEF ListSources, ConsolidateOnly, tombstoneVars
<1>3. PICK con \in randomId("consolidation", scope) :
        /\ minted' = minted \cup {con}
        /\ consolidations' = [consolidations EXCEPT ![c] =
             [IdleConsolidate EXCEPT !.pc = "upsert", !.con = con,
                                     !.sources = consolidatable(scope)]]
  BY <1>1 DEF ListSources
<1>4. con.type = "consolidation" /\ con.scope = scope /\ con \notin minted
  BY DEF randomId
<1>5. /\ \A d \in ConsolidateCalls : d # c => consolidations'[d] = consolidations[d]
      /\ consolidations'[c].pc = "upsert" /\ consolidations'[c].con = con
      /\ consolidations'[c].sources = consolidatable(scope)
  BY <1>3 DEF SafetyInv, TypeInv, TypeOK, ConsolidateTypeOK, IdleConsolidate
<1>6. \A s \in consolidatable(scope) : Exists(s) /\ matchesScope(s.scope, scope)
  BY DEF consolidatable, list
<1>7. \A d \in consolidatable(scope) : \A s \in sources[d] :
        s \in consolidatable(scope) \/ Condemned(s)
  <2> SUFFICES ASSUME NEW d \in consolidatable(scope), NEW s \in sources[d]
               PROVE  s \in consolidatable(scope) \/ Condemned(s)
    OBVIOUS
  <2>1. d \in Refs /\ matchesScope(d.scope, scope)
    BY DEF consolidatable, list
  <2>2. s \in Refs /\ Exists(s) /\ matchesScope(s.scope, d.scope)
    BY <2>1 DEF SafetyInv, TypeInv, TypeOK, StoresTypeOK, Lineage, ProvenanceIntact
  <2>3. matchesScope(s.scope, scope)
    BY <2>1, <2>2, ScopesNest
  <2>4. status[s] = "tombstoned" => Condemned(s)
    BY <2>2 DEF SafetyInv, Lineage, StatusForCause
  <2> QED
    BY <2>2, <2>3, <2>4 DEF consolidatable, list
<1>8. ConsolidateKnows(c)'
  BY <1>2, <1>4, <1>5, <1>6, <1>7 DEF ConsolidateKnows, Exists, Condemned
<1>9. PendingConsolidate(c)' = {con}
  BY <1>5 DEF PendingConsolidate
<1> QED
  BY <1>2, <1>3, <1>4, <1>5, <1>8, <1>9, ConsolidateQuiet

-----------------------------------------------------------------------------
(* Every step preserves the invariant.                                     *)

LEMMA SafetyInvInit == Init => SafetyInv
<1> SUFFICES ASSUME Init PROVE SafetyInv
  OBVIOUS
<1>1. TypeInv
  BY TypeInvInit
<1>2. /\ \A r \in Refs : status[r] = "absent" /\ sources[r] = {}
      /\ \A p \in IngestCalls : ingests[p] = IdleIngest
      /\ \A t \in TombstoneCalls : tombstones[t] = IdleTombstone
      /\ \A c \in ConsolidateCalls : consolidations[c] = IdleConsolidate
      /\ answers = {}
  BY DEF Init, StoresInit, IngestInit, TombstoneInit, ConsolidateInit
<1>3. Fresh
  BY <1>2 DEF Fresh, Exists, PendingIngest, PendingConsolidate, IdleIngest, IdleConsolidate
<1>4. \A p \in IngestCalls : IngestKnows(p)
  BY <1>2 DEF IngestKnows, IdleIngest
<1>5. \A t \in TombstoneCalls : TombstoneKnows(t)
  <2>1. IdleTombstone.pc = "idle" /\ IdleTombstone.refs = {} /\ IdleTombstone.allObjects = {}
    BY DEF IdleTombstone
  <2> QED
    BY <1>2, <2>1 DEF TombstoneKnows
<1>6. \A c \in ConsolidateCalls : ConsolidateKnows(c)
  BY <1>2 DEF ConsolidateKnows, IdleConsolidate
<1>7. Lineage
  BY <1>2 DEF Lineage, ProvenanceIntact, OneLevelProvenance, StatusForCause
<1>8. Promised
  BY <1>2 DEF Promised
<1> QED
  BY <1>1, <1>3, <1>4, <1>5, <1>6, <1>7, <1>8 DEF SafetyInv

\* A step that touches no store and no call's locals.
LEMMA NoStep ==
  ASSUME SafetyInv, TypeInv',
         UNCHANGED <<stores, ingests, answers, tombstones, requests, consolidations>>
  PROVE  SafetyInv' /\ Mono
<1>1. Grows
  BY DEF Grows, stores
<1>2. Mono /\ Lineage'
  BY <1>1, QuietStep DEF SafetyInv, stores
<1>3. /\ \A p \in IngestCalls : IngestKnows(p)'
      /\ \A t \in TombstoneCalls : TombstoneKnows(t)'
      /\ \A c \in ConsolidateCalls : ConsolidateKnows(c)'
  BY <1>2, IngestKnowsStays, TombstoneKnowsStays, ConsolidateKnowsStays DEF SafetyInv
<1>4. Fresh'
  BY DEF SafetyInv, Fresh, PendingIngest, PendingConsolidate, Unborn, Exists, stores
<1>5. Promised'
  BY <1>2, PromisesStay DEF SafetyInv
<1> QED
  BY <1>2, <1>3, <1>4, <1>5 DEF SafetyInv

LEMMA SafetyInvNext == SafetyInv /\ [Next]_vars => SafetyInv' /\ Mono
<1> SUFFICES ASSUME SafetyInv, [Next]_vars PROVE SafetyInv' /\ Mono
  OBVIOUS
<1>1. TypeInv'
  BY TypeInvNext DEF SafetyInv
<1>2. QueryOnly => UNCHANGED <<ingests, answers, tombstones, requests, consolidations>>
  BY DEF QueryOnly, ingestVars, tombstoneVars
<1>3. CASE Start
  <2>1. CASE StartIngest /\ IngestOnly
    BY <2>1, <1>1, StartIngestSafe
  <2>2. CASE StartTombstone(known) /\ TombstoneOnly
    BY <2>2, <1>1, StartTombstoneSafe
  <2>3. CASE StartConsolidate /\ ConsolidateOnly
    BY <2>3, <1>1, StartConsolidateSafe
  <2>4. CASE StartQuery(known, gone) /\ QueryOnly
    <3>1. UNCHANGED stores
      BY <2>4 DEF StartQuery, SearchIndex, Hydrate
    <3> QED
      BY <2>4, <3>1, <1>1, <1>2, NoStep
  <2> QED
    BY <1>3, <2>1, <2>2, <2>3, <2>4 DEF Start
<1>4. CASE Step
  <2>1. CASE \E p \in IngestCalls : IngestStep(p) /\ IngestOnly
    BY <2>1, <1>1, IngestSafe
  <2>2. CASE \E t \in TombstoneCalls : TombstoneStep(t) /\ TombstoneOnly
    BY <2>2, <1>1, TombstoneSafe
  <2>3. CASE \E c \in ConsolidateCalls : ConsolidateStep(c) /\ ConsolidateOnly
    BY <2>3, <1>1, ConsolidateSafe
  <2>4. CASE \E q \in QueryCalls : QueryStep(q) /\ QueryOnly
    <3>1. UNCHANGED stores
      BY <2>4 DEF QueryStep, ReadCandidates, ReturnQuery
    <3> QED
      BY <2>4, <3>1, <1>1, <1>2, NoStep
  <2> QED
    BY <1>4, <2>1, <2>2, <2>3, <2>4 DEF Step
<1>5. CASE Abandon
  <2>1. CASE \E p \in IngestCalls : AbandonIngest(p) /\ IngestOnly
    BY <2>1, <1>1, AbandonIngestSafe
  <2>2. CASE \E t \in TombstoneCalls : AbandonTombstone(t) /\ TombstoneOnly
    BY <2>2, <1>1, AbandonTombstoneSafe
  <2>3. CASE \E c \in ConsolidateCalls : AbandonConsolidate(c) /\ ConsolidateOnly
    BY <2>3, <1>1, AbandonConsolidateSafe
  <2> QED
    BY <1>5, <2>1, <2>2, <2>3 DEF Abandon
<1>6. CASE UNCHANGED vars
  <2>1. UNCHANGED <<stores, ingests, answers, tombstones, requests, consolidations>>
    BY <1>6 DEF vars, ingestVars, tombstoneVars
  <2> QED
    BY <2>1, <1>1, NoStep
<1> QED
  BY <1>3, <1>4, <1>5, <1>6 DEF Next

\* Everything the invariant says holds of every reachable state.
THEOREM SafetyCorrect == Spec => []SafetyInv
BY SafetyInvInit, SafetyInvNext, PTL DEF Spec

-----------------------------------------------------------------------------
(* What it says of the service.                                            *)

\* However calls interleave and fail, provenance leads to objects that exist, inside
\* the scope of what was derived from them: consolidation keeps agents and sessions
\* apart.
THEOREM ProvenanceStaysIntact == Spec => []ProvenanceIntact
<1>1. SafetyInv => ProvenanceIntact
  BY DEF SafetyInv, Lineage
<1> QED
  BY <1>1, SafetyCorrect, PTL

\* The one level of provenance a cascade reads is enough: what lies deeper was put
\* one level down too, or had been condemned by a request of its own.
THEOREM OneLevelIsEnough == Spec => []OneLevelProvenance
<1>1. SafetyInv => OneLevelProvenance
  BY DEF SafetyInv, Lineage
<1> QED
  BY <1>1, SafetyCorrect, PTL

\* No memory is tombstoned, marked stale, superseded or disputed but for a request,
\* a consolidation or a contradiction that is on record.
THEOREM StatusHasCause == Spec => []StatusForCause
<1>1. SafetyInv => StatusForCause
  BY DEF SafetyInv, Lineage
<1> QED
  BY <1>1, SafetyCorrect, PTL

\* An episode answered "created" stays in the index for as long as it is active.
THEOREM CreatedStaysIndexed == Spec => []CreatedIsIndexed
<1>1. SafetyInv => CreatedIsIndexed
  BY DEF SafetyInv, Promised, CreatedIsIndexed
<1> QED
  BY <1>1, SafetyCorrect, PTL

\* Nothing that left the active status comes back to it, whatever late writes of
\* other calls follow.
THEOREM NothingReactivates == Spec => NeverReactivated
<1>1. SafetyInv /\ [Next]_vars =>
        [\A r \in Refs : status[r] \notin {"absent", "active"} => status'[r] # "active"]_vars
  BY SafetyInvNext DEF Mono, Retired
<1> QED
  BY <1>1, SafetyCorrect, PTL DEF Spec, NeverReactivated

-----------------------------------------------------------------------------
(* Every call in progress ends, if it goes on: the loops have something to *)
(* do where they are taken up again, and each step of a call brings it     *)
(* nearer to its end, whatever other calls do to the memory it loops over. *)

IngestLoops(i) ==
  /\ i.pc = "atom" => i.atoms # {}
  /\ i.pc = "link" => i.drafts # {}
  /\ i.pc = "disputeGet" => i.sides # {}
  /\ i.pc \in {"disputePut", "disputeEvent"} => i.atom \in i.sides

TombstoneLoops(u) ==
  /\ u.pc \in {"derived", "stalePut", "derivedUnindex"} =>
       u.derived # {} /\ u.policy # "none"
  /\ u.pc \in {"stalePut", "derivedUnindex"} => u.derivedRef \in u.derived

ConsolidateLoops(v) ==
  /\ v.pc = "supersede" => v.left # {}
  /\ v.pc \in {"supersedePut", "unindex", "link", "event"} => v.ref \in v.left

LoopsHold ==
  /\ \A p \in IngestCalls : IngestLoops(ingests[p])
  /\ \A t \in TombstoneCalls : TombstoneLoops(tombstones[t])
  /\ \A c \in ConsolidateCalls : ConsolidateLoops(consolidations[c])

Fewer(S, T) == S \subseteq T /\ S # T

\* The stages of an ingest, and the order of the awaits within one turn of its loops.
ingestStage(pc) ==
  CASE pc = "append" -> 1
    [] pc = "upsert" -> 2
    [] pc = "index" -> 3
    [] pc \in {"atom", "atomIndex", "atomLink"} -> 4
    [] pc \in {"link", "disputeGet", "disputePut", "disputeEvent"} -> 5
    [] pc = "event" -> 6
    [] pc = "idle" -> 7
ingestPlace(pc) ==
  CASE pc \in {"atomIndex", "disputeGet"} -> 1
    [] pc \in {"atomLink", "disputePut"} -> 2
    [] pc \in {"atom", "disputeEvent"} -> 3
    [] OTHER -> 4

\* An ingest at j is nearer to its end than at i.
IngestNearer(i, j) ==
  \/ ingestStage(i.pc) < ingestStage(j.pc)
  \/ /\ ingestStage(i.pc) = ingestStage(j.pc)
     /\ \/ Fewer(j.atoms, i.atoms)
        \/ j.atoms = i.atoms /\ Fewer(j.drafts, i.drafts)
        \/ /\ j.atoms = i.atoms /\ j.drafts = i.drafts
           /\ \/ Fewer(j.sides, i.sides)
              \/ j.sides = i.sides /\ ingestPlace(i.pc) < ingestPlace(j.pc)

tombstoneStage(pc) ==
  CASE pc = "put" -> 1
    [] pc = "unindex" -> 2
    [] pc = "episode" -> 3
    [] pc \in {"derived", "stalePut", "derivedUnindex"} -> 4
    [] pc = "event" -> 5
    [] pc = "next" -> 6
    [] pc = "idle" -> 7

TombstoneNearer(u, v) ==
  \/ Fewer(v.refs, u.refs)
  \/ /\ v.refs = u.refs
     /\ \/ tombstoneStage(u.pc) < tombstoneStage(v.pc)
        \/ /\ tombstoneStage(u.pc) = tombstoneStage(v.pc)
           /\ \/ Fewer(v.derived, u.derived)
              \/ v.derived = u.derived /\ u.pc = "derived" /\ v.pc # "derived"

consolidateStage(pc) ==
  CASE pc = "upsert" -> 1
    [] pc = "index" -> 2
    [] pc \in {"supersede", "supersedePut", "unindex", "link", "event"} -> 3
    [] pc = "idle" -> 4
consolidatePlace(pc) ==
  CASE pc = "supersedePut" -> 1
    [] pc = "unindex" -> 2
    [] pc = "link" -> 3
    [] pc = "event" -> 4
    [] OTHER -> 0

ConsolidateNearer(u, v) ==
  \/ consolidateStage(u.pc) < consolidateStage(v.pc)
  \/ /\ consolidateStage(u.pc) = consolidateStage(v.pc)
     /\ \/ Fewer(v.left, u.left)
        \/ v.left = u.left /\ consolidatePlace(u.pc) < consolidatePlace(v.pc)

\* A call in progress is left alone or brought nearer to its end, and brought nearer by
\* a step of its own.
CallsComeNearer ==
  /\ \A p \in IngestCalls :
       /\ IngestStep(p) => IngestNearer(ingests[p], ingests'[p])
       /\ ingests[p].pc # "idle" =>
            ingests'[p] = ingests[p] \/ IngestNearer(ingests[p], ingests'[p])
  /\ \A t \in TombstoneCalls :
       /\ TombstoneStep(t) => TombstoneNearer(tombstones[t], tombstones'[t])
       /\ tombstones[t].pc # "idle" =>
            tombstones'[t] = tombstones[t] \/ TombstoneNearer(tombstones[t], tombstones'[t])
  /\ \A c \in ConsolidateCalls :
       /\ ConsolidateStep(c) => ConsolidateNearer(consolidations[c], consolidations'[c])
       /\ consolidations[c].pc # "idle" =>
            \/ consolidations'[c] = consolidations[c]
            \/ ConsolidateNearer(consolidations[c], consolidations'[c])

LEMMA IngestStages ==
  /\ ingestStage("append") = 1 /\ ingestStage("upsert") = 2 /\ ingestStage("index") = 3
  /\ ingestStage("atom") = 4 /\ ingestStage("atomIndex") = 4 /\ ingestStage("atomLink") = 4
  /\ ingestStage("link") = 5 /\ ingestStage("disputeGet") = 5
  /\ ingestStage("disputePut") = 5 /\ ingestStage("disputeEvent") = 5
  /\ ingestStage("event") = 6 /\ ingestStage("idle") = 7
  /\ ingestPlace("atomIndex") = 1 /\ ingestPlace("atomLink") = 2 /\ ingestPlace("atom") = 3
  /\ ingestPlace("disputeGet") = 1 /\ ingestPlace("disputePut") = 2
  /\ ingestPlace("disputeEvent") = 3
BY DEF ingestStage, ingestPlace

LEMMA TombstoneStages ==
  /\ tombstoneStage("put") = 1 /\ tombstoneStage("unindex") = 2 /\ tombstoneStage("episode") = 3
  /\ tombstoneStage("derived") = 4 /\ tombstoneStage("stalePut") = 4
  /\ tombstoneStage("derivedUnindex") = 4 /\ tombstoneStage("event") = 5
  /\ tombstoneStage("next") = 6 /\ tombstoneStage("idle") = 7
BY DEF tombstoneStage

LEMMA ConsolidateStages ==
  /\ consolidateStage("upsert") = 1 /\ consolidateStage("index") = 2
  /\ consolidateStage("supersede") = 3 /\ consolidateStage("supersedePut") = 3
  /\ consolidateStage("unindex") = 3 /\ consolidateStage("link") = 3
  /\ consolidateStage("event") = 3 /\ consolidateStage("idle") = 4
  /\ consolidatePlace("supersede") = 0 /\ consolidatePlace("supersedePut") = 1
  /\ consolidatePlace("unindex") = 2 /\ consolidatePlace("link") = 3
  /\ consolidatePlace("event") = 4
BY DEF consolidateStage, consolidatePlace

\* An ingest whose locals become j is nearer to its end; no other is touched.
IngestNears(p) ==
  /\ IngestLoops(ingests'[p]) /\ IngestNearer(ingests[p], ingests'[p])
  /\ \A q \in IngestCalls \ {p} : ingests'[q] = ingests[q]

LEMMA IngestTo ==
  ASSUME ingests \in [IngestCalls -> IngestState], NEW p \in IngestCalls, NEW j,
         ingests' = [ingests EXCEPT ![p] = j], IngestLoops(j), IngestNearer(ingests[p], j)
  PROVE  IngestNears(p)
BY DEF IngestNears

LEMMA IngestComesNearer ==
  ASSUME ingests \in [IngestCalls -> IngestState], NEW p \in IngestCalls,
         IngestLoops(ingests[p]), IngestStep(p)
  PROVE  IngestNears(p)
<1>0. ingests[p] \in IngestState
  OBVIOUS
<1>1. CASE StoreEpisode(p) \/ UpsertEpisode(p) \/ IndexAtom(p) \/ DisputePut(p)
  BY <1>0, <1>1, IngestStages
     DEF StoreEpisode, UpsertEpisode, IndexAtom, DisputePut, IngestNears, IngestNearer,
         IngestLoops, IngestState
<1>2. CASE IndexEpisode(p)
  BY <1>0, <1>2, IngestStages
     DEF IndexEpisode, NextDraft, IngestNears, IngestNearer, IngestLoops, IngestState
<1>3. CASE UpsertAtom(p)
  <2>1. PICK a \in ingests[p].atoms :
          ingests' = [ingests EXCEPT ![p] =
            [@ EXCEPT !.pc = "atomIndex", !.atom = a, !.atoms = ingests[p].atoms \ {a}]]
    BY <1>3 DEF UpsertAtom
  <2> DEFINE j == [ingests[p] EXCEPT !.pc = "atomIndex", !.atom = a,
                                     !.atoms = ingests[p].atoms \ {a}]
  <2>2. j.pc = "atomIndex" /\ j.atoms = ingests[p].atoms \ {a}
    BY <1>0 DEF IngestState
  <2>3. Fewer(j.atoms, ingests[p].atoms)
    BY <2>2 DEF Fewer
  <2>4. ingests' = [ingests EXCEPT ![p] = j] /\ ingests[p].pc = "atom"
    BY <1>3, <2>1 DEF UpsertAtom
  <2> HIDE DEF j
  <2> QED
    BY <2>2, <2>3, <2>4, IngestStages, IngestTo DEF IngestLoops, IngestNearer
<1>4. CASE createDerivedLink(p)
  <2> DEFINE j == [ingests[p] EXCEPT !.pc = NextDraft(ingests[p].atoms, ingests[p].drafts),
                                     !.atom = NoRef]
  <2>1. ingests' = [ingests EXCEPT ![p] = j] /\ ingests[p].pc = "atomLink"
    BY <1>4 DEF createDerivedLink
  <2>2. /\ j.atoms = ingests[p].atoms /\ j.drafts = ingests[p].drafts
        /\ j.sides = ingests[p].sides
        /\ \/ j.pc = "atom" /\ j.atoms # {}
           \/ j.pc = "link" /\ j.drafts # {}
           \/ j.pc = "event"
    BY <1>0 DEF IngestState, NextDraft
  <2> HIDE DEF j
  <2>3. IngestLoops(j)
    BY <2>2 DEF IngestLoops
  <2>4. IngestNearer(ingests[p], j)
    BY <2>1, <2>2, IngestStages DEF IngestNearer
  <2> QED
    BY <2>1, <2>3, <2>4, IngestTo
<1>7. CASE AddContradicts(p)
  <2>1. PICK d \in ingests[p].drafts :
          ingests' = [ingests EXCEPT ![p] =
            [@ EXCEPT !.pc = "disputeGet", !.drafts = ingests[p].drafts \ {d},
                      !.sides = {d[1], d[2]}]]
    BY <1>7 DEF AddContradicts
  <2> DEFINE j == [ingests[p] EXCEPT !.pc = "disputeGet", !.drafts = ingests[p].drafts \ {d},
                                     !.sides = {d[1], d[2]}]
  <2>2. /\ j.pc = "disputeGet" /\ j.atoms = ingests[p].atoms
        /\ j.drafts = ingests[p].drafts \ {d} /\ j.sides = {d[1], d[2]}
    BY <1>0 DEF IngestState
  <2>3. Fewer(j.drafts, ingests[p].drafts) /\ j.sides # {}
    BY <2>2 DEF Fewer
  <2>4. ingests' = [ingests EXCEPT ![p] = j] /\ ingests[p].pc = "link"
    BY <1>7, <2>1 DEF AddContradicts
  <2> HIDE DEF j
  <2> QED
    BY <2>2, <2>3, <2>4, IngestStages, IngestTo DEF IngestLoops, IngestNearer
<1>8. CASE DisputeGet(p)
  <2>0. ingests[p].pc = "disputeGet"
    BY <1>8 DEF DisputeGet
  <2>1. PICK r \in ingests[p].sides :
          ingests' = [ingests EXCEPT ![p] =
            IF status[r] = "active" THEN [@ EXCEPT !.pc = "disputePut", !.atom = r]
            ELSE [@ EXCEPT !.sides = ingests[p].sides \ {r},
                    !.pc = NextSide(ingests[p].sides \ {r}, ingests[p].drafts)]]
    BY <1>8 DEF DisputeGet
  <2>2. CASE status[r] = "active"
    <3> DEFINE j == [ingests[p] EXCEPT !.pc = "disputePut", !.atom = r]
    <3>1. ingests' = [ingests EXCEPT ![p] = j]
      BY <2>1, <2>2
    <3>2. /\ j.pc = "disputePut" /\ j.atom = r /\ j.atoms = ingests[p].atoms
          /\ j.drafts = ingests[p].drafts /\ j.sides = ingests[p].sides
      BY <1>0 DEF IngestState
    <3> HIDE DEF j
    <3>3. IngestLoops(j)
      BY <3>2 DEF IngestLoops
    <3>4. IngestNearer(ingests[p], j)
      BY <2>0, <3>2, IngestStages DEF IngestNearer
    <3> QED
      BY <3>1, <3>3, <3>4, IngestTo
  <2>3. CASE status[r] # "active"
    <3> DEFINE j == [ingests[p] EXCEPT !.sides = ingests[p].sides \ {r},
                       !.pc = NextSide(ingests[p].sides \ {r}, ingests[p].drafts)]
    <3>1. ingests' = [ingests EXCEPT ![p] = j]
      BY <2>1, <2>3
    <3>2. /\ j.atoms = ingests[p].atoms /\ j.drafts = ingests[p].drafts
          /\ j.sides = ingests[p].sides \ {r}
          /\ \/ j.pc = "disputeGet" /\ j.sides # {}
             \/ j.pc = "link" /\ j.drafts # {}
             \/ j.pc = "event"
      BY <1>0 DEF IngestState, NextSide, NextDraft
    <3>3. Fewer(j.sides, ingests[p].sides)
      BY <3>2 DEF Fewer
    <3> HIDE DEF j
    <3>4. IngestLoops(j)
      BY <3>2 DEF IngestLoops
    <3>5. IngestNearer(ingests[p], j)
      BY <2>0, <3>2, <3>3, IngestStages DEF IngestNearer
    <3> QED
      BY <3>1, <3>4, <3>5, IngestTo
  <2> QED
    BY <2>2, <2>3
<1>5. CASE DisputeEvent(p)
  BY <1>0, <1>5, IngestStages
     DEF DisputeEvent, NextSide, NextDraft, IngestNears, IngestNearer, IngestLoops,
         IngestState, Fewer
<1>6. CASE AnswerCreated(p)
  BY <1>0, <1>6, IngestStages
     DEF AnswerCreated, IdleIngest, IngestNears, IngestNearer, IngestLoops, IngestState
<1> QED
  BY <1>1, <1>2, <1>3, <1>4, <1>5, <1>6, <1>7, <1>8 DEF IngestStep

TombstoneNears(t) ==
  /\ TombstoneLoops(tombstones'[t]) /\ TombstoneNearer(tombstones[t], tombstones'[t])
  /\ \A u \in TombstoneCalls \ {t} : tombstones'[u] = tombstones[u]

LEMMA TombstoneTo ==
  ASSUME tombstones \in [TombstoneCalls -> TombstoneState], NEW t \in TombstoneCalls, NEW v,
         tombstones' = [tombstones EXCEPT ![t] = v], TombstoneLoops(v),
         TombstoneNearer(tombstones[t], v)
  PROVE  TombstoneNears(t)
BY DEF TombstoneNears

\* The cascade goes on with what is left of derived, or ends.
LEMMA NextDerivedNears ==
  ASSUME tombstones \in [TombstoneCalls -> TombstoneState], NEW t \in TombstoneCalls,
         NEW d \in tombstones[t].derived, NextDerived(t, tombstones[t].derived \ {d}),
         TombstoneLoops(tombstones[t]),
         tombstones[t].pc \in {"derived", "stalePut", "derivedUnindex"}
  PROVE  TombstoneNears(t)
<1> DEFINE rest == tombstones[t].derived \ {d}
           v == [tombstones[t] EXCEPT !.pc = IF rest = {} THEN "event" ELSE "derived",
                                      !.derived = rest, !.derivedRef = NoRef]
<1>0. tombstones[t] \in TombstoneState
  OBVIOUS
<1>1. tombstones' = [tombstones EXCEPT ![t] = v]
  BY DEF NextDerived
<1>2. Fewer(rest, tombstones[t].derived)
  BY DEF Fewer
<1> HIDE DEF rest
<1>3. /\ v.refs = tombstones[t].refs /\ v.policy = tombstones[t].policy /\ v.derived = rest
      /\ v.pc = "event" \/ (v.pc = "derived" /\ rest # {})
  BY <1>0 DEF TombstoneState
<1> HIDE DEF v
<1>4. TombstoneLoops(v)
  BY <1>2, <1>3 DEF TombstoneLoops
<1>5. TombstoneNearer(tombstones[t], v)
  BY <1>2, <1>3, TombstoneStages DEF TombstoneNearer
<1> QED
  BY <1>1, <1>4, <1>5, TombstoneTo

LEMMA StartCascadeNears ==
  ASSUME tombstones \in [TombstoneCalls -> TombstoneState], NEW t \in TombstoneCalls,
         StartCascade(t), tombstones[t].pc \in {"unindex", "episode"}
  PROVE  TombstoneNears(t)
<1> DEFINE derived == IF tombstones[t].policy = "none" THEN {}
                      ELSE derivedFrom(t, tombstones[t].ref)
           v == [tombstones[t] EXCEPT !.pc = IF derived = {} THEN "event" ELSE "derived",
                                      !.derived = derived]
<1>0. tombstones[t] \in TombstoneState
  OBVIOUS
<1>1. tombstones' = [tombstones EXCEPT ![t] = v]
  BY DEF StartCascade
<1>2. derived # {} => tombstones[t].policy # "none"
  OBVIOUS
<1> HIDE DEF derived
<1>3. /\ v.refs = tombstones[t].refs /\ v.policy = tombstones[t].policy /\ v.derived = derived
      /\ v.pc = "event" \/ (v.pc = "derived" /\ derived # {})
  BY <1>0 DEF TombstoneState
<1> HIDE DEF v
<1>4. TombstoneLoops(v)
  BY <1>2, <1>3 DEF TombstoneLoops
<1>5. TombstoneNearer(tombstones[t], v)
  BY <1>2, <1>3, TombstoneStages DEF TombstoneNearer
<1> QED
  BY <1>1, <1>4, <1>5, TombstoneTo

LEMMA TombstoneComesNearer ==
  ASSUME tombstones \in [TombstoneCalls -> TombstoneState], NEW t \in TombstoneCalls,
         TombstoneLoops(tombstones[t]), TombstoneStep(t)
  PROVE  TombstoneNears(t)
<1>0. tombstones[t] \in TombstoneState
  OBVIOUS
<1>1. CASE GetTarget(t)
  <2>1. PICK r \in tombstones[t].refs :
          \/ tombstones' = [tombstones EXCEPT ![t].refs = tombstones[t].refs \ {r}]
          \/ tombstones' = [tombstones EXCEPT ![t] =
               [@ EXCEPT !.refs = tombstones[t].refs \ {r}, !.ref = r, !.pc = "put"]]
    BY <1>1 DEF GetTarget
  <2>2. Fewer(tombstones[t].refs \ {r}, tombstones[t].refs) /\ tombstones[t].pc = "next"
    BY <1>1 DEF Fewer, GetTarget
  <2> DEFINE v == [tombstones[t] EXCEPT !.refs = tombstones[t].refs \ {r}]
             w == [tombstones[t] EXCEPT !.refs = tombstones[t].refs \ {r}, !.ref = r,
                                        !.pc = "put"]
  <2>3. /\ v.refs = tombstones[t].refs \ {r} /\ v.pc = "next"
        /\ w.refs = tombstones[t].refs \ {r} /\ w.pc = "put"
    BY <1>0, <2>2 DEF TombstoneState
  <2>4. tombstones' = [tombstones EXCEPT ![t] = v] \/ tombstones' = [tombstones EXCEPT ![t] = w]
    BY <2>1
  <2> HIDE DEF v, w
  <2> QED
    BY <2>2, <2>3, <2>4, TombstoneTo DEF TombstoneLoops, TombstoneNearer
<1>2. CASE PutTombstoned(t) \/ AnswerTombstoned(t)
  <2> DEFINE v == [tombstones[t] EXCEPT !.pc = "unindex"]
             w == [tombstones[t] EXCEPT !.pc = "next", !.ref = NoRef]
  <2>1. /\ v.refs = tombstones[t].refs /\ v.pc = "unindex"
        /\ w.refs = tombstones[t].refs /\ w.pc = "next"
    BY <1>0 DEF TombstoneState
  <2>2. \/ tombstones[t].pc = "put" /\ tombstones' = [tombstones EXCEPT ![t] = v]
        \/ tombstones[t].pc = "event" /\ tombstones' = [tombstones EXCEPT ![t] = w]
    BY <1>2 DEF PutTombstoned, AnswerTombstoned
  <2> HIDE DEF v, w
  <2> QED
    BY <2>1, <2>2, TombstoneStages, TombstoneTo DEF TombstoneLoops, TombstoneNearer
<1>3. CASE UnindexTarget(t)
  <2> DEFINE v == [tombstones[t] EXCEPT !.pc = "episode"]
  <2>1. v.refs = tombstones[t].refs /\ v.pc = "episode"
    BY <1>0 DEF TombstoneState
  <2>2. /\ tombstones[t].pc = "unindex"
        /\ tombstones' = [tombstones EXCEPT ![t] = v] \/ StartCascade(t)
    BY <1>3 DEF UnindexTarget
  <2> HIDE DEF v
  <2> QED
    BY <2>1, <2>2, StartCascadeNears, TombstoneStages, TombstoneTo
       DEF TombstoneLoops, TombstoneNearer
<1>7. CASE TombstoneEpisode(t)
  BY <1>7, StartCascadeNears DEF TombstoneEpisode
<1>4. CASE MarkDerivedGet(t) \/ TombstoneDerived(t)
  <2>1. PICK d \in tombstones[t].derived :
          \/ tombstones' = [tombstones EXCEPT ![t] =
               [@ EXCEPT !.pc = "stalePut", !.derivedRef = d]]
          \/ tombstones' = [tombstones EXCEPT ![t] =
               [@ EXCEPT !.pc = "derivedUnindex", !.derivedRef = d]]
          \/ NextDerived(t, tombstones[t].derived \ {d})
    BY <1>4 DEF MarkDerivedGet, TombstoneDerived
  <2>2. tombstones[t].pc = "derived"
    BY <1>4 DEF MarkDerivedGet, TombstoneDerived
  <2>3. ASSUME NEW pc \in {"stalePut", "derivedUnindex"},
               tombstones' = [tombstones EXCEPT ![t] = [@ EXCEPT !.pc = pc, !.derivedRef = d]]
        PROVE  TombstoneNears(t)
    <3> DEFINE v == [tombstones[t] EXCEPT !.pc = pc, !.derivedRef = d]
    <3>1. tombstones' = [tombstones EXCEPT ![t] = v]
      BY <2>3
    <3>2. /\ v.refs = tombstones[t].refs /\ v.policy = tombstones[t].policy
          /\ v.derived = tombstones[t].derived /\ v.pc = pc /\ v.derivedRef = d
      BY <1>0 DEF TombstoneState
    <3> HIDE DEF v
    <3> QED
      BY <2>2, <3>1, <3>2, TombstoneStages, TombstoneTo DEF TombstoneLoops, TombstoneNearer
  <2> QED
    BY <2>1, <2>2, <2>3, NextDerivedNears
<1>5. CASE MarkDerivedPut(t) \/ UnindexDerived(t)
  BY <1>5, NextDerivedNears DEF MarkDerivedPut, UnindexDerived, TombstoneLoops
<1>6. CASE ReturnTombstone(t)
  BY <1>0, <1>6, TombstoneStages
     DEF ReturnTombstone, IdleTombstone, TombstoneNears, TombstoneNearer, TombstoneLoops,
         TombstoneState
<1> QED
  BY <1>1, <1>2, <1>3, <1>4, <1>5, <1>6, <1>7 DEF TombstoneStep

ConsolidateNears(c) ==
  /\ ConsolidateLoops(consolidations'[c])
  /\ ConsolidateNearer(consolidations[c], consolidations'[c])
  /\ \A d \in ConsolidateCalls \ {c} : consolidations'[d] = consolidations[d]

LEMMA NextSupersededNears ==
  ASSUME consolidations \in [ConsolidateCalls -> ConsolidateState], NEW c \in ConsolidateCalls,
         NEW r \in consolidations[c].left, NextSuperseded(c, consolidations[c].left \ {r}),
         consolidations[c].pc \in {"supersede", "event"}
  PROVE  ConsolidateNears(c)
<1> DEFINE rest == consolidations[c].left \ {r}
           v == [consolidations[c] EXCEPT !.pc = "supersede", !.left = rest, !.ref = NoRef]
<1>1. consolidations' = [consolidations EXCEPT ![c] = IF rest = {} THEN IdleConsolidate ELSE v]
  BY DEF NextSuperseded
<1>2. Fewer(rest, consolidations[c].left)
  BY DEF Fewer
<1> HIDE DEF rest
<1>3. v.left = rest /\ v.pc = "supersede" /\ IdleConsolidate.pc = "idle"
  BY DEF ConsolidateState, IdleConsolidate
<1> HIDE DEF v
<1> QED
  BY <1>1, <1>2, <1>3, ConsolidateStages
     DEF ConsolidateNears, ConsolidateNearer, ConsolidateLoops

LEMMA ConsolidateComesNearer ==
  ASSUME consolidations \in [ConsolidateCalls -> ConsolidateState],
         NEW c \in ConsolidateCalls, ConsolidateLoops(consolidations[c]), ConsolidateStep(c)
  PROVE  ConsolidateNears(c)
<1>0. consolidations[c] \in ConsolidateState
  OBVIOUS
<1>1. CASE UpsertConsolidation(c) \/ SupersedePut(c) \/ UnindexSuperseded(c) \/ LinkSuperseded(c)
  BY <1>0, <1>1, ConsolidateStages
     DEF UpsertConsolidation, SupersedePut, UnindexSuperseded, LinkSuperseded,
         ConsolidateNears, ConsolidateNearer, ConsolidateLoops, ConsolidateState
<1>2. CASE IndexConsolidation(c)
  BY <1>0, <1>2, ConsolidateStages
     DEF IndexConsolidation, NextSuperseded, IdleConsolidate, ConsolidateNears,
         ConsolidateNearer, ConsolidateLoops, ConsolidateState
<1>3. CASE SupersedeGet(c)
  <2>1. PICK r \in consolidations[c].left :
          \/ NextSuperseded(c, consolidations[c].left \ {r})
          \/ consolidations' = [consolidations EXCEPT ![c] =
               [@ EXCEPT !.pc = "supersedePut", !.ref = r]]
    BY <1>3 DEF SupersedeGet
  <2>2. consolidations[c].pc = "supersede"
    BY <1>3 DEF SupersedeGet
  <2>3. CASE consolidations' = [consolidations EXCEPT ![c] =
               [@ EXCEPT !.pc = "supersedePut", !.ref = r]]
    BY <1>0, <2>2, <2>3, ConsolidateStages
       DEF ConsolidateNears, ConsolidateNearer, ConsolidateLoops, ConsolidateState
  <2> QED
    BY <2>1, <2>2, <2>3, NextSupersededNears
<1>4. CASE ReportSuperseded(c)
  BY <1>4, NextSupersededNears DEF ReportSuperseded, ConsolidateLoops
<1> QED
  BY <1>1, <1>2, <1>3, <1>4 DEF ConsolidateStep

-----------------------------------------------------------------------------
IngestsNear ==
  \A p \in IngestCalls :
    /\ IngestLoops(ingests'[p])
    /\ ingests[p].pc # "idle" =>
         ingests'[p] = ingests[p] \/ IngestNearer(ingests[p], ingests'[p])

TombstonesNear ==
  \A t \in TombstoneCalls :
    /\ TombstoneLoops(tombstones'[t])
    /\ tombstones[t].pc # "idle" =>
         tombstones'[t] = tombstones[t] \/ TombstoneNearer(tombstones[t], tombstones'[t])

ConsolidationsNear ==
  \A c \in ConsolidateCalls :
    /\ ConsolidateLoops(consolidations'[c])
    /\ consolidations[c].pc # "idle" =>
         \/ consolidations'[c] = consolidations[c]
         \/ ConsolidateNearer(consolidations[c], consolidations'[c])

LEMMA IngestsComeNearer ==
  ASSUME TypeInv, LoopsHold,
         \/ StartIngest
         \/ \E p \in IngestCalls : IngestStep(p) \/ AbandonIngest(p)
         \/ UNCHANGED ingests
  PROVE  IngestsNear
<1>0. /\ ingests \in [IngestCalls -> IngestState]
      /\ \A p \in IngestCalls : IngestLoops(ingests[p])
  BY DEF TypeInv, TypeOK, IngestTypeOK, LoopsHold
<1>1. CASE UNCHANGED ingests
  BY <1>0, <1>1 DEF IngestsNear
<1>2. ASSUME NEW p \in IngestCalls, IngestStep(p)
      PROVE  IngestsNear
  BY <1>0, <1>2, IngestComesNearer DEF IngestNears, IngestsNear
<1>3. ASSUME NEW p \in IngestCalls, AbandonIngest(p)
      PROVE  IngestsNear
  <2>1. ingests' = [ingests EXCEPT ![p] = IdleIngest]
    BY <1>3 DEF AbandonIngest
  <2>2. ingests[p].pc # "idle" /\ ingests[p].pc \in IngestPcs /\ IdleIngest.pc = "idle"
    BY <1>0, <1>3 DEF AbandonIngest, IngestState, IdleIngest
  <2>3. IngestLoops(IdleIngest) /\ IngestNearer(ingests[p], IdleIngest)
    BY <2>2, IngestStages DEF IngestLoops, IngestNearer, IngestPcs
  <2>4. IngestNears(p)
    BY <1>0, <2>1, <2>3, IngestTo
  <2> QED
    BY <1>0, <2>4 DEF IngestNears, IngestsNear
<1>4. CASE StartIngest
  <2>1. PICK p \in IngestCalls, s \in Scopes, k \in Keys \cup {NoKey} :
          resolveDedupeKey(p, s, k)
    BY <1>4 DEF StartIngest
  <2>2. CASE UNCHANGED ingests
    BY <1>1, <2>2
  <2>3. ASSUME NEW e,
               ingests' = [ingests EXCEPT ![p] =
                 [IdleIngest EXCEPT !.pc = "append", !.ref = e, !.key = k]]
        PROVE  IngestsNear
    <3>1. ingests[p].pc = "idle"
      BY <2>1 DEF resolveDedupeKey
    <3>2. ingests'[p].pc = "append"
      BY <1>0, <2>3 DEF IdleIngest
    <3>3. \A q \in IngestCalls \ {p} : ingests'[q] = ingests[q]
      BY <1>0, <2>3
    <3> QED
      BY <1>0, <3>1, <3>2, <3>3 DEF IngestsNear, IngestLoops
  <2> QED
    BY <2>1, <2>2, <2>3 DEF resolveDedupeKey
<1> QED
  BY <1>1, <1>2, <1>3, <1>4

LEMMA TombstonesComeNearer ==
  ASSUME TypeInv, LoopsHold,
         \/ StartTombstone(known)
         \/ \E t \in TombstoneCalls : TombstoneStep(t) \/ AbandonTombstone(t)
         \/ UNCHANGED tombstones
  PROVE  TombstonesNear
<1>0. /\ tombstones \in [TombstoneCalls -> TombstoneState]
      /\ \A t \in TombstoneCalls : TombstoneLoops(tombstones[t])
  BY DEF TypeInv, TypeOK, TombstoneTypeOK, LoopsHold
<1>1. CASE UNCHANGED tombstones
  BY <1>0, <1>1 DEF TombstonesNear
<1>2. ASSUME NEW t \in TombstoneCalls, TombstoneStep(t)
      PROVE  TombstonesNear
  BY <1>0, <1>2, TombstoneComesNearer DEF TombstoneNears, TombstonesNear
<1>3. ASSUME NEW t \in TombstoneCalls, AbandonTombstone(t)
      PROVE  TombstonesNear
  <2>1. tombstones' = [tombstones EXCEPT ![t] = IdleTombstone]
    BY <1>3 DEF AbandonTombstone
  <2>2. /\ tombstones[t].pc # "idle" /\ tombstones[t].pc \in TombstonePcs
        /\ IdleTombstone.pc = "idle" /\ IdleTombstone.refs = {}
    BY <1>0, <1>3 DEF AbandonTombstone, TombstoneState, IdleTombstone
  <2>3. TombstoneLoops(IdleTombstone) /\ TombstoneNearer(tombstones[t], IdleTombstone)
    BY <2>2, TombstoneStages DEF TombstoneLoops, TombstoneNearer, TombstonePcs, Fewer
  <2>4. TombstoneNears(t)
    BY <1>0, <2>1, <2>3, TombstoneTo
  <2> QED
    BY <1>0, <2>4 DEF TombstoneNears, TombstonesNear
<1>4. CASE StartTombstone(known)
  <2>1. PICK t \in TombstoneCalls, s \in Scopes, refs \in SUBSET known, policy \in Policies :
          TombstoneCall(t, s, refs, policy)
    BY <1>4 DEF StartTombstone
  <2>2. tombstones[t].pc = "idle" /\ tombstones'[t].pc = "next"
    BY <1>0, <2>1 DEF TombstoneCall, IdleTombstone
  <2>3. \A u \in TombstoneCalls \ {t} : tombstones'[u] = tombstones[u]
    BY <1>0, <2>1 DEF TombstoneCall
  <2> QED
    BY <1>0, <2>2, <2>3 DEF TombstonesNear, TombstoneLoops
<1> QED
  BY <1>1, <1>2, <1>3, <1>4

LEMMA ConsolidationsComeNearer ==
  ASSUME TypeInv, LoopsHold,
         \/ StartConsolidate
         \/ \E c \in ConsolidateCalls : ConsolidateStep(c) \/ AbandonConsolidate(c)
         \/ UNCHANGED consolidations
  PROVE  ConsolidationsNear
<1>0. /\ consolidations \in [ConsolidateCalls -> ConsolidateState]
      /\ \A c \in ConsolidateCalls : ConsolidateLoops(consolidations[c])
  BY DEF TypeInv, TypeOK, ConsolidateTypeOK, LoopsHold
<1>1. CASE UNCHANGED consolidations
  BY <1>0, <1>1 DEF ConsolidationsNear
<1>2. ASSUME NEW c \in ConsolidateCalls, ConsolidateStep(c)
      PROVE  ConsolidationsNear
  BY <1>0, <1>2, ConsolidateComesNearer DEF ConsolidateNears, ConsolidationsNear
<1>3. ASSUME NEW c \in ConsolidateCalls, AbandonConsolidate(c)
      PROVE  ConsolidationsNear
  <2>1. consolidations' = [consolidations EXCEPT ![c] = IdleConsolidate]
    BY <1>3 DEF AbandonConsolidate
  <2>2. /\ consolidations[c].pc # "idle" /\ consolidations[c].pc \in ConsolidatePcs
        /\ IdleConsolidate.pc = "idle"
    BY <1>0, <1>3 DEF AbandonConsolidate, ConsolidateState, IdleConsolidate
  <2>3. ConsolidateLoops(IdleConsolidate) /\ ConsolidateNearer(consolidations[c], IdleConsolidate)
    BY <2>2, ConsolidateStages DEF ConsolidateLoops, ConsolidateNearer, ConsolidatePcs
  <2> QED
    BY <1>0, <2>1, <2>3 DEF ConsolidationsNear
<1>4. CASE StartConsolidate
  <2>1. PICK c \in ConsolidateCalls, s \in Scopes : ListSources(c, s)
    BY <1>4 DEF StartConsolidate
  <2>2. consolidations[c].pc = "idle" /\ consolidations'[c].pc = "upsert"
    BY <1>0, <2>1 DEF ListSources, IdleConsolidate
  <2>3. \A d \in ConsolidateCalls \ {c} : consolidations'[d] = consolidations[d]
    BY <1>0, <2>1 DEF ListSources
  <2> QED
    BY <1>0, <2>2, <2>3 DEF ConsolidationsNear, ConsolidateLoops
<1> QED
  BY <1>1, <1>2, <1>3, <1>4

LEMMA CallsNear == TypeInv /\ LoopsHold /\ [Next]_vars => LoopsHold' /\ CallsComeNearer
<1> SUFFICES ASSUME TypeInv, LoopsHold, [Next]_vars PROVE LoopsHold' /\ CallsComeNearer
  OBVIOUS
<1>1. IngestsNear /\ TombstonesNear /\ ConsolidationsNear
  <2>1. \/ StartIngest
        \/ \E p \in IngestCalls : IngestStep(p) \/ AbandonIngest(p)
        \/ UNCHANGED ingests
    BY DEF Next, Start, Step, Abandon, vars, ingestVars, TombstoneOnly, ConsolidateOnly, QueryOnly
  <2>2. \/ StartTombstone(known)
        \/ \E t \in TombstoneCalls : TombstoneStep(t) \/ AbandonTombstone(t)
        \/ UNCHANGED tombstones
    BY DEF Next, Start, Step, Abandon, vars, tombstoneVars, IngestOnly, ConsolidateOnly, QueryOnly
  <2>3. \/ StartConsolidate
        \/ \E c \in ConsolidateCalls : ConsolidateStep(c) \/ AbandonConsolidate(c)
        \/ UNCHANGED consolidations
    BY DEF Next, Start, Step, Abandon, vars, IngestOnly, TombstoneOnly, QueryOnly
  <2> QED
    BY <2>1, <2>2, <2>3, IngestsComeNearer, TombstonesComeNearer, ConsolidationsComeNearer
<1>2. LoopsHold'
  BY <1>1 DEF LoopsHold, IngestsNear, TombstonesNear, ConsolidationsNear
<1>3. /\ ingests \in [IngestCalls -> IngestState]
      /\ tombstones \in [TombstoneCalls -> TombstoneState]
      /\ consolidations \in [ConsolidateCalls -> ConsolidateState]
  BY DEF TypeInv, TypeOK, IngestTypeOK, TombstoneTypeOK, ConsolidateTypeOK
<1>4. /\ \A p \in IngestCalls : IngestStep(p) => IngestNearer(ingests[p], ingests'[p])
      /\ \A t \in TombstoneCalls :
           TombstoneStep(t) => TombstoneNearer(tombstones[t], tombstones'[t])
      /\ \A c \in ConsolidateCalls :
           ConsolidateStep(c) => ConsolidateNearer(consolidations[c], consolidations'[c])
  BY <1>3, IngestComesNearer, TombstoneComesNearer, ConsolidateComesNearer
     DEF LoopsHold, IngestNears, TombstoneNears, ConsolidateNears
<1> QED
  BY <1>1, <1>2, <1>4 DEF CallsComeNearer, IngestsNear, TombstonesNear, ConsolidationsNear

LEMMA LoopsInit == Init => LoopsHold
BY DEF Init, IngestInit, TombstoneInit, ConsolidateInit, IdleIngest, IdleTombstone,
   IdleConsolidate, LoopsHold, IngestLoops, TombstoneLoops, ConsolidateLoops

\* A call that is taken up again inside a loop finds there what it has still to do, and
\* what it has read and not yet written is of that (service.ts 146-186, 669-722, 733-774).
THEOREM LoopsGoOn == Spec => []LoopsHold
<1>1. LoopsHold /\ TypeInv /\ [Next]_vars => LoopsHold'
  BY CallsNear
<1> QED
  BY <1>1, TypeInvInit, TypeInvNext, LoopsInit, PTL DEF Spec

\* Every step of a call brings it nearer to its end, and no other call takes it back:
\* the sets it loops over are its own, however the memory they name changes.
THEOREM CallsAdvance == Spec => [][CallsComeNearer]_vars
<1>1. LoopsHold /\ TypeInv /\ [Next]_vars => [CallsComeNearer]_vars
  BY CallsNear
<1> QED
  BY <1>1, LoopsGoOn, TypeInvInit, TypeInvNext, PTL DEF Spec

-----------------------------------------------------------------------------
(* No call comes nearer for ever.                                          *)

IngestOrder == {ss \in IngestState \X IngestState : IngestNearer(ss[2], ss[1])}
TombstoneOrder == {ss \in TombstoneState \X TombstoneState : TombstoneNearer(ss[2], ss[1])}
ConsolidateOrder ==
  {ss \in ConsolidateState \X ConsolidateState : ConsolidateNearer(ss[2], ss[1])}

\* Those of T of which f is least.
leastBy(T, f) == {x \in T : \A y \in T : f[x] <= f[y]}

LEMMA LeastExists ==
  ASSUME NEW T, T # {}, NEW f, \A x \in T : f[x] \in Nat
  PROVE  leastBy(T, f) # {}
<1> DEFINE less == OpToRel(<, Nat)
           values == {f[x] : x \in T}
<1>1. IsWellFoundedOn(less, Nat) /\ \A m, n \in Nat : n < m => <<n, m>> \in less
  BY NatLessThanWellFounded DEF OpToRel
<1>2. values \subseteq Nat /\ values # {}
  OBVIOUS
<1> HIDE DEF less, values
<1>3. PICK m \in values : \A n \in values : ~(<<n, m>> \in less)
  BY <1>1, <1>2, WFMin
<1>4. \A n \in values : m <= n
  <2>1. m \in Nat /\ \A n \in values : n \in Nat /\ ~(n < m)
    BY <1>1, <1>2, <1>3
  <2> QED
    BY <2>1
<1>5. PICK x \in T : m = f[x]
  BY DEF values
<1>6. \A y \in T : f[x] <= f[y]
  BY <1>4, <1>5 DEF values
<1> QED
  BY <1>6 DEF leastBy

LEMMA FewerIsLess ==
  ASSUME NEW S, NEW T, IsFiniteSet(T), Fewer(S, T)
  PROVE  Cardinality(S) < Cardinality(T)
<1>1. S \in SUBSET T /\ S # T
  BY DEF Fewer
<1>2. IsFiniteSet(S) /\ Cardinality(S) <= Cardinality(T) /\ Cardinality(S) # Cardinality(T)
  BY <1>1, FS_Subset
<1>3. Cardinality(S) \in Nat /\ Cardinality(T) \in Nat
  BY <1>2, FS_CardinalityType
<1> QED
  BY <1>2, <1>3

\* An ingest has finitely many steps ahead of it: the stages are seven, and the loops are
\* over finite sets of refs and of links between them.
THEOREM IngestsEnd == IsFiniteSet(Refs) => IsWellFoundedOn(IngestOrder, IngestState)
<1> SUFFICES ASSUME IsFiniteSet(Refs),
                    NEW T \in SUBSET IngestState, T # {}
             PROVE  \E x \in T : \A y \in T : ~(<<y, x>> \in IngestOrder)
  BY MinWF
<1>1. \A x \in IngestState : /\ IsFiniteSet(x.atoms) /\ IsFiniteSet(x.drafts)
                             /\ IsFiniteSet(x.sides)
  <2>1. IsFiniteSet(Contradicts)
    BY FS_Product, FS_Subset, ContradictsAssumption
  <2> QED
    BY <2>1, FS_Subset DEF IngestState
<1>2. \A x \in IngestState : /\ ingestStage(x.pc) \in 1 .. 7 /\ ingestPlace(x.pc) \in 1 .. 4
  BY DEF IngestState, IngestPcs, ingestStage, ingestPlace
<1> DEFINE f1 == [x \in IngestState |-> 7 - ingestStage(x.pc)]
           f2 == [x \in IngestState |-> Cardinality(x.atoms)]
           f3 == [x \in IngestState |-> Cardinality(x.drafts)]
           f4 == [x \in IngestState |-> Cardinality(x.sides)]
           f5 == [x \in IngestState |-> 4 - ingestPlace(x.pc)]
           T1 == leastBy(T, f1)
           T2 == leastBy(T1, f2)
           T3 == leastBy(T2, f3)
           T4 == leastBy(T3, f4)
           T5 == leastBy(T4, f5)
<1>3. \A x \in IngestState :
        f1[x] \in Nat /\ f2[x] \in Nat /\ f3[x] \in Nat /\ f4[x] \in Nat /\ f5[x] \in Nat
  <2>1. \A x \in IngestState : f1[x] \in Nat /\ f5[x] \in Nat
    BY <1>2
  <2>2. \A x \in IngestState : f2[x] \in Nat /\ f3[x] \in Nat /\ f4[x] \in Nat
    BY <1>1, FS_CardinalityType
  <2> QED
    BY <2>1, <2>2
<1> HIDE DEF f1, f2, f3, f4, f5
<1>4. T1 \subseteq T /\ T2 \subseteq T1 /\ T3 \subseteq T2 /\ T4 \subseteq T3 /\ T5 \subseteq T4
  BY DEF leastBy
<1>5. T5 # {}
  <2>1. T1 # {}
    BY <1>3, LeastExists
  <2> HIDE DEF T1
  <2>2. T2 # {}
    BY <1>3, <1>4, <2>1, LeastExists
  <2> HIDE DEF T2
  <2>3. T3 # {}
    BY <1>3, <1>4, <2>2, LeastExists
  <2> HIDE DEF T3
  <2>4. T4 # {}
    BY <1>3, <1>4, <2>3, LeastExists
  <2> HIDE DEF T4
  <2> QED
    BY <1>3, <1>4, <2>4, LeastExists
<1>6. PICK x : x \in T5
  BY <1>5
<1>7. x \in T /\ x \in T1 /\ x \in T2 /\ x \in T3 /\ x \in T4
  BY <1>4, <1>6
<1>8. ASSUME NEW y \in T, IngestNearer(x, y)
      PROVE  FALSE
  <2>0. x \in IngestState /\ y \in IngestState
    BY <1>7
  <2>1. y \in T1 /\ ingestStage(x.pc) = ingestStage(y.pc)
    <3>1. f1[x] <= f1[y]
      BY <1>7 DEF leastBy
    <3>2. ingestStage(y.pc) <= ingestStage(x.pc)
      BY <1>2, <2>0, <3>1 DEF f1
    <3>3. ingestStage(x.pc) = ingestStage(y.pc)
      BY <1>2, <1>8, <2>0, <3>2 DEF IngestNearer
    <3>4. f1[y] = f1[x]
      BY <2>0, <3>3 DEF f1
    <3> QED
      BY <1>7, <3>3, <3>4 DEF leastBy
  <2>2. y \in T2 /\ y.atoms = x.atoms
    <3>1. f2[x] <= f2[y]
      BY <1>7, <2>1 DEF leastBy
    <3>2. ~Fewer(y.atoms, x.atoms)
      BY <1>1, <2>0, <3>1, FewerIsLess, FS_CardinalityType DEF f2
    <3>3. y.atoms = x.atoms
      BY <1>2, <1>8, <2>0, <2>1, <3>2 DEF IngestNearer
    <3>4. f2[y] = f2[x]
      BY <2>0, <3>3 DEF f2
    <3> QED
      BY <1>7, <2>1, <3>3, <3>4 DEF leastBy
  <2>3. y \in T3 /\ y.drafts = x.drafts
    <3>1. f3[x] <= f3[y]
      BY <1>7, <2>2 DEF leastBy
    <3>2. ~Fewer(y.drafts, x.drafts) /\ ~Fewer(y.atoms, x.atoms)
      BY <1>1, <2>0, <2>2, <3>1, FewerIsLess, FS_CardinalityType DEF f3, Fewer
    <3>3. y.drafts = x.drafts
      BY <1>2, <1>8, <2>0, <2>1, <3>2 DEF IngestNearer
    <3>4. f3[y] = f3[x]
      BY <2>0, <3>3 DEF f3
    <3> QED
      BY <1>7, <2>2, <3>3, <3>4 DEF leastBy
  <2>4. y \in T4 /\ y.sides = x.sides /\ ingestPlace(x.pc) < ingestPlace(y.pc)
    <3>1. f4[x] <= f4[y]
      BY <1>7, <2>3 DEF leastBy
    <3>2. ~Fewer(y.sides, x.sides) /\ ~Fewer(y.drafts, x.drafts) /\ ~Fewer(y.atoms, x.atoms)
      BY <1>1, <2>0, <2>2, <2>3, <3>1, FewerIsLess, FS_CardinalityType DEF f4, Fewer
    <3>3. y.sides = x.sides /\ ingestPlace(x.pc) < ingestPlace(y.pc)
      BY <1>2, <1>8, <2>0, <2>1, <3>2 DEF IngestNearer
    <3>4. f4[y] = f4[x]
      BY <2>0, <3>3 DEF f4
    <3> QED
      BY <1>7, <2>3, <3>3, <3>4 DEF leastBy
  <2>5. f5[x] <= f5[y]
    BY <1>6, <2>4 DEF leastBy
  <2> QED
    BY <1>2, <2>0, <2>4, <2>5 DEF f5
<1> QED
  BY <1>7, <1>8 DEF IngestOrder

\* So has a tombstone call, cascade and all.
THEOREM TombstonesEnd == IsFiniteSet(Refs) => IsWellFoundedOn(TombstoneOrder, TombstoneState)
<1> SUFFICES ASSUME IsFiniteSet(Refs),
                    NEW T \in SUBSET TombstoneState, T # {}
             PROVE  \E x \in T : \A y \in T : ~(<<y, x>> \in TombstoneOrder)
  BY MinWF
<1>1. \A x \in TombstoneState : IsFiniteSet(x.refs) /\ IsFiniteSet(x.derived)
  BY FS_Subset DEF TombstoneState
<1>2. \A x \in TombstoneState : tombstoneStage(x.pc) \in 1 .. 7
  BY DEF TombstoneState, TombstonePcs, tombstoneStage
<1> DEFINE f1 == [x \in TombstoneState |-> Cardinality(x.refs)]
           f2 == [x \in TombstoneState |-> 7 - tombstoneStage(x.pc)]
           f3 == [x \in TombstoneState |-> Cardinality(x.derived)]
           f4 == [x \in TombstoneState |-> IF x.pc = "derived" THEN 1 ELSE 0]
           T1 == leastBy(T, f1)
           T2 == leastBy(T1, f2)
           T3 == leastBy(T2, f3)
           T4 == leastBy(T3, f4)
<1>3. \A x \in TombstoneState :
        f1[x] \in Nat /\ f2[x] \in Nat /\ f3[x] \in Nat /\ f4[x] \in Nat
  <2>1. \A x \in TombstoneState : f2[x] \in Nat /\ f4[x] \in Nat
    BY <1>2
  <2>2. \A x \in TombstoneState : f1[x] \in Nat /\ f3[x] \in Nat
    BY <1>1, FS_CardinalityType
  <2> QED
    BY <2>1, <2>2
<1> HIDE DEF f1, f2, f3, f4
<1>4. T1 \subseteq T /\ T2 \subseteq T1 /\ T3 \subseteq T2 /\ T4 \subseteq T3
  BY DEF leastBy
<1>5. T4 # {}
  <2>1. T1 # {}
    BY <1>3, LeastExists
  <2> HIDE DEF T1
  <2>2. T2 # {}
    BY <1>3, <1>4, <2>1, LeastExists
  <2> HIDE DEF T2
  <2>3. T3 # {}
    BY <1>3, <1>4, <2>2, LeastExists
  <2> HIDE DEF T3
  <2> QED
    BY <1>3, <1>4, <2>3, LeastExists
<1>6. PICK x : x \in T4
  BY <1>5
<1>7. x \in T /\ x \in T1 /\ x \in T2 /\ x \in T3
  BY <1>4, <1>6
<1>8. ASSUME NEW y \in T, TombstoneNearer(x, y)
      PROVE  FALSE
  <2>0. x \in TombstoneState /\ y \in TombstoneState
    BY <1>7
  <2>1. y \in T1 /\ y.refs = x.refs
    <3>1. f1[x] <= f1[y]
      BY <1>7 DEF leastBy
    <3>2. ~Fewer(y.refs, x.refs)
      BY <1>1, <2>0, <3>1, FewerIsLess, FS_CardinalityType DEF f1
    <3>3. y.refs = x.refs
      BY <1>8, <3>2 DEF TombstoneNearer
    <3>4. f1[y] = f1[x]
      BY <2>0, <3>3 DEF f1
    <3> QED
      BY <1>7, <3>3, <3>4 DEF leastBy
  <2>2. y \in T2 /\ tombstoneStage(x.pc) = tombstoneStage(y.pc)
    <3>1. f2[x] <= f2[y]
      BY <1>7, <2>1 DEF leastBy
    <3>2. tombstoneStage(y.pc) <= tombstoneStage(x.pc)
      BY <1>2, <2>0, <3>1 DEF f2
    <3>3. tombstoneStage(x.pc) = tombstoneStage(y.pc)
      BY <1>2, <1>8, <2>0, <2>1, <3>2 DEF TombstoneNearer, Fewer
    <3>4. f2[y] = f2[x]
      BY <2>0, <3>3 DEF f2
    <3> QED
      BY <1>7, <2>1, <3>3, <3>4 DEF leastBy
  <2>3. y \in T3 /\ x.pc = "derived" /\ y.pc # "derived"
    <3>1. f3[x] <= f3[y]
      BY <1>7, <2>2 DEF leastBy
    <3>2. ~Fewer(y.derived, x.derived)
      BY <1>1, <2>0, <3>1, FewerIsLess, FS_CardinalityType DEF f3
    <3>3. y.derived = x.derived /\ x.pc = "derived" /\ y.pc # "derived"
      BY <1>2, <1>8, <2>0, <2>1, <2>2, <3>2 DEF TombstoneNearer, Fewer
    <3>4. f3[y] = f3[x]
      BY <2>0, <3>3 DEF f3
    <3> QED
      BY <1>7, <2>2, <3>3, <3>4 DEF leastBy
  <2>4. f4[x] <= f4[y]
    BY <1>6, <2>3 DEF leastBy
  <2> QED
    BY <2>0, <2>3, <2>4 DEF f4
<1> QED
  BY <1>7, <1>8 DEF TombstoneOrder

\* And so has a consolidation, supersession included.
THEOREM ConsolidationsEnd ==
  IsFiniteSet(Refs) => IsWellFoundedOn(ConsolidateOrder, ConsolidateState)
<1> SUFFICES ASSUME IsFiniteSet(Refs),
                    NEW T \in SUBSET ConsolidateState, T # {}
             PROVE  \E x \in T : \A y \in T : ~(<<y, x>> \in ConsolidateOrder)
  BY MinWF
<1>1. \A x \in ConsolidateState : IsFiniteSet(x.left)
  BY FS_Subset DEF ConsolidateState
<1>2. \A x \in ConsolidateState :
        consolidateStage(x.pc) \in 1 .. 4 /\ consolidatePlace(x.pc) \in 0 .. 4
  BY DEF ConsolidateState, ConsolidatePcs, consolidateStage, consolidatePlace
<1> DEFINE f1 == [x \in ConsolidateState |-> 4 - consolidateStage(x.pc)]
           f2 == [x \in ConsolidateState |-> Cardinality(x.left)]
           f3 == [x \in ConsolidateState |-> 4 - consolidatePlace(x.pc)]
           T1 == leastBy(T, f1)
           T2 == leastBy(T1, f2)
           T3 == leastBy(T2, f3)
<1>3. \A x \in ConsolidateState : f1[x] \in Nat /\ f2[x] \in Nat /\ f3[x] \in Nat
  <2>1. \A x \in ConsolidateState : f1[x] \in Nat /\ f3[x] \in Nat
    BY <1>2
  <2>2. \A x \in ConsolidateState : f2[x] \in Nat
    BY <1>1, FS_CardinalityType
  <2> QED
    BY <2>1, <2>2
<1> HIDE DEF f1, f2, f3
<1>4. T1 \subseteq T /\ T2 \subseteq T1 /\ T3 \subseteq T2
  BY DEF leastBy
<1>5. T3 # {}
  <2>1. T1 # {}
    BY <1>3, LeastExists
  <2> HIDE DEF T1
  <2>2. T2 # {}
    BY <1>3, <1>4, <2>1, LeastExists
  <2> HIDE DEF T2
  <2> QED
    BY <1>3, <1>4, <2>2, LeastExists
<1>6. PICK x : x \in T3
  BY <1>5
<1>7. x \in T /\ x \in T1 /\ x \in T2
  BY <1>4, <1>6
<1>8. ASSUME NEW y \in T, ConsolidateNearer(x, y)
      PROVE  FALSE
  <2>0. x \in ConsolidateState /\ y \in ConsolidateState
    BY <1>7
  <2>1. y \in T1 /\ consolidateStage(x.pc) = consolidateStage(y.pc)
    <3>1. f1[x] <= f1[y]
      BY <1>7 DEF leastBy
    <3>2. consolidateStage(y.pc) <= consolidateStage(x.pc)
      BY <1>2, <2>0, <3>1 DEF f1
    <3>3. consolidateStage(x.pc) = consolidateStage(y.pc)
      BY <1>2, <1>8, <2>0, <3>2 DEF ConsolidateNearer
    <3>4. f1[y] = f1[x]
      BY <2>0, <3>3 DEF f1
    <3> QED
      BY <1>7, <3>3, <3>4 DEF leastBy
  <2>2. y \in T2 /\ consolidatePlace(x.pc) < consolidatePlace(y.pc)
    <3>1. f2[x] <= f2[y]
      BY <1>7, <2>1 DEF leastBy
    <3>2. ~Fewer(y.left, x.left)
      BY <1>1, <2>0, <3>1, FewerIsLess, FS_CardinalityType DEF f2
    <3>3. y.left = x.left /\ consolidatePlace(x.pc) < consolidatePlace(y.pc)
      BY <1>2, <1>8, <2>0, <2>1, <3>2 DEF ConsolidateNearer
    <3>4. f2[y] = f2[x]
      BY <2>0, <3>3 DEF f2
    <3> QED
      BY <1>7, <2>1, <3>3, <3>4 DEF leastBy
  <2>3. f3[x] <= f3[y]
    BY <1>6, <2>2 DEF leastBy
  <2> QED
    BY <1>2, <2>0, <2>2, <2>3 DEF f3
<1> QED
  BY <1>7, <1>8 DEF ConsolidateOrder
=============================================================================
