------------------------ MODULE SerialRuntimeProofs ------------------------
(***************************************************************************)
(* Proofs about a caller that awaits each call before it makes the next:   *)
(* what is deleted stays deleted and hidden, one dedupe key names one      *)
(* episode, a cascade reaches all of its scope and, if no call fails, the  *)
(* index holds what may be shown and nothing else.  For any scopes, refs,  *)
(* keys and bounds.                                                        *)
(***************************************************************************)
EXTENDS MemoryRuntimeProofs, FiniteSetTheorems

-----------------------------------------------------------------------------
(* One call at a time.                                                     *)

IngestsIdle == \A p \in IngestCalls : ingests[p].pc = "idle"
TombstonesIdle == \A t \in TombstoneCalls : tombstones[t].pc = "idle"
ConsolidationsIdle == \A c \in ConsolidateCalls : consolidations[c].pc = "idle"

OnlyIngest(p) ==
  /\ \A q \in IngestCalls \ {p} : ingests[q].pc = "idle"
  /\ TombstonesIdle /\ ConsolidationsIdle
OnlyTombstone(t) ==
  /\ \A u \in TombstoneCalls \ {t} : tombstones[u].pc = "idle"
  /\ IngestsIdle /\ ConsolidationsIdle
OnlyConsolidate(c) ==
  /\ \A d \in ConsolidateCalls \ {c} : consolidations[d].pc = "idle"
  /\ IngestsIdle /\ TombstonesIdle

\* Queries may overlap for all that follows: they write nothing.
OneWriter ==
  /\ \A p \in IngestCalls : ingests[p].pc # "idle" => OnlyIngest(p)
  /\ \A t \in TombstoneCalls : tombstones[t].pc # "idle" => OnlyTombstone(t)
  /\ \A c \in ConsolidateCalls : consolidations[c].pc # "idle" => OnlyConsolidate(c)

-----------------------------------------------------------------------------
(* What a call read is still so when it uses it.                           *)

IngestSees(p) ==
  LET i == ingests[p]
      named == dedupe[<<i.ref.scope, i.key>>]
  IN /\ i.pc = "append" /\ i.key # NoKey => named = NoRef
     /\ i.pc \notin {"idle", "append"} /\ i.key # NoKey => named = i.ref
     /\ i.pc = "index" => status[i.ref] = "active"
     /\ i.pc \notin {"idle", "append", "upsert"} => status[i.ref] # "tombstoned"
     /\ i.pc = "atomIndex" => status[i.atom] = "active"
     /\ i.pc = "disputePut" => status[i.atom] = "active"

\* What derives from the target and is in the scope has been reached or is still to be.
Reaching(t) ==
  \A d \in list(tombstones[t].scope) :
    tombstones[t].ref \in sources[d] => d \in tombstones[t].derived \/ status[d] = "tombstoned"

TombstoneSees(t) ==
  LET u == tombstones[t]
  IN /\ u.pc # "idle" => u.allObjects = list(u.scope)
     /\ u.pc \notin {"idle", "next", "put"} => status[u.ref] = "tombstoned"
     /\ u.pc = "stalePut" => status[u.derivedRef] = "active"
     /\ u.pc = "derivedUnindex" => status[u.derivedRef] = "tombstoned"
     /\ u.policy = "tombstone_derived" /\ u.pc \in {"derived", "derivedUnindex", "event"} =>
          Reaching(t)
     /\ u.pc = "event" => u.derived = {}

ConsolidateSees(c) ==
  LET u == consolidations[c]
  IN /\ u.pc = "upsert" => \A s \in u.sources : status[s] # "tombstoned"
     /\ u.pc = "index" => status[u.con] = "active"
     /\ u.pc = "supersedePut" => status[u.ref] # "tombstoned"
     /\ u.pc = "unindex" => status[u.ref] = "superseded"

KeysNamed ==
  /\ \A s \in Scopes, k \in Keys : dedupe[<<s, k>>] # NoRef => dedupe[<<s, k>>].scope = s
  /\ \A a \in answers : a.key # NoKey => dedupe[<<a.ref.scope, a.key>>] = a.ref

DeletedIsTombstoned == \A r \in gone : status[r] = "tombstoned"

QueryHides(q) ==
  /\ \A r \in queries[q].gone : status[r] = "tombstoned"
  /\ "tombstoned" \notin queries[q].shown => queries[q].refs \cap queries[q].gone = {}

SerialInv ==
  /\ SafetyInv
  /\ OneWriter
  /\ \A p \in IngestCalls : IngestSees(p)
  /\ \A t \in TombstoneCalls : TombstoneSees(t)
  /\ \A c \in ConsolidateCalls : ConsolidateSees(c)
  /\ KeysNamed
  /\ DeletedIsTombstoned
  /\ \A q \in QueryCalls : QueryHides(q)
  /\ CascadeReachesScope

-----------------------------------------------------------------------------
(* The index, when no call fails.                                          *)

Indexable(r) == status[r] \in {"active", "disputed", "pending"}

\* A call wrote the status of r and is about to index or unindex it.
IngestCarries(p, r) ==
  \/ ingests[p].pc = "index" /\ r = ingests[p].ref
  \/ ingests[p].pc = "atomIndex" /\ r = ingests[p].atom
TombstoneCarries(t, r) ==
  \/ tombstones[t].pc = "unindex" /\ r = tombstones[t].ref
  \/ tombstones[t].pc = "derivedUnindex" /\ r = tombstones[t].derivedRef
ConsolidateCarries(c, r) ==
  \/ consolidations[c].pc = "index" /\ r = consolidations[c].con
  \/ consolidations[c].pc = "unindex" /\ r = consolidations[c].ref

Indexed(r) == r \in index <=> Indexable(r)

IndexKept ==
  \A r \in Refs :
    \/ \E p \in IngestCalls : IngestCarries(p, r)
    \/ \E t \in TombstoneCalls : TombstoneCarries(t, r)
    \/ \E c \in ConsolidateCalls : ConsolidateCarries(c, r)
    \/ Indexed(r)

-----------------------------------------------------------------------------
(* What every step keeps, and what follows for the calls that do not move. *)

TombstonesFinal == \A r \in Refs : status[r] = "tombstoned" => status'[r] = "tombstoned"

LEMMA IdleCalls ==
  ASSUME InFlight < 1,
         IsFiniteSet(IngestCalls), IsFiniteSet(TombstoneCalls),
         IsFiniteSet(ConsolidateCalls), IsFiniteSet(QueryCalls)
  PROVE  IngestsIdle /\ TombstonesIdle /\ ConsolidationsIdle
<1> DEFINE I == {p \in IngestCalls : ingests[p].pc # "idle"}
           T == {t \in TombstoneCalls : tombstones[t].pc # "idle"}
           C == {c \in ConsolidateCalls : consolidations[c].pc # "idle"}
           Q == {q \in QueryCalls : queries[q].pc # "idle"}
<1>1. IsFiniteSet(I) /\ IsFiniteSet(T) /\ IsFiniteSet(C) /\ IsFiniteSet(Q)
  BY FS_Subset
<1>2. /\ Cardinality(I) \in Nat /\ Cardinality(T) \in Nat
      /\ Cardinality(C) \in Nat /\ Cardinality(Q) \in Nat
  BY <1>1, FS_CardinalityType
<1>3. Cardinality(I) + Cardinality(T) + Cardinality(C) + Cardinality(Q) < 1
  BY DEF InFlight
<1> HIDE DEF I, T, C, Q
<1>4. Cardinality(I) = 0 /\ Cardinality(T) = 0 /\ Cardinality(C) = 0
  BY <1>2, <1>3
<1>5. I = {} /\ T = {} /\ C = {}
  BY <1>1, <1>4, FS_EmptySet
<1> QED
  BY <1>5 DEF I, T, C, IngestsIdle, TombstonesIdle, ConsolidationsIdle

\* A call at rest sees and carries nothing.
LEMMA AtRest ==
  /\ \A p \in IngestCalls : ingests'[p].pc = "idle" => IngestSees(p)'
  /\ \A t \in TombstoneCalls : tombstones'[t].pc = "idle" => TombstoneSees(t)'
  /\ \A c \in ConsolidateCalls : consolidations'[c].pc = "idle" => ConsolidateSees(c)'
BY DEF IngestSees, TombstoneSees, ConsolidateSees

Turn ==
  /\ OneWriter'
  /\ \A p \in IngestCalls : IngestSees(p)'
  /\ \A t \in TombstoneCalls : TombstoneSees(t)'
  /\ \A c \in ConsolidateCalls : ConsolidateSees(c)'

LEMMA IngestTurn ==
  ASSUME NEW p \in IngestCalls, OnlyIngest(p), IngestOnly,
         \A q \in IngestCalls : q # p => ingests'[q] = ingests[q],
         IngestSees(p)'
  PROVE  Turn
<1>1. /\ \A q \in IngestCalls \ {p} : ingests'[q].pc = "idle"
      /\ TombstonesIdle' /\ ConsolidationsIdle'
  BY DEF OnlyIngest, IngestOnly, tombstoneVars, TombstonesIdle, ConsolidationsIdle
<1> QED
  BY <1>1, AtRest DEF Turn, OneWriter, OnlyIngest, TombstonesIdle, ConsolidationsIdle

LEMMA TombstoneTurn ==
  ASSUME NEW t \in TombstoneCalls, OnlyTombstone(t), TombstoneOnly,
         \A u \in TombstoneCalls : u # t => tombstones'[u] = tombstones[u],
         TombstoneSees(t)'
  PROVE  Turn
<1>1. /\ \A u \in TombstoneCalls \ {t} : tombstones'[u].pc = "idle"
      /\ IngestsIdle' /\ ConsolidationsIdle'
  BY DEF OnlyTombstone, TombstoneOnly, ingestVars, IngestsIdle, ConsolidationsIdle
<1> QED
  BY <1>1, AtRest DEF Turn, OneWriter, OnlyTombstone, IngestsIdle, ConsolidationsIdle

LEMMA ConsolidateTurn ==
  ASSUME NEW c \in ConsolidateCalls, OnlyConsolidate(c), ConsolidateOnly,
         \A d \in ConsolidateCalls : d # c => consolidations'[d] = consolidations[d],
         ConsolidateSees(c)'
  PROVE  Turn
<1>1. /\ \A d \in ConsolidateCalls \ {c} : consolidations'[d].pc = "idle"
      /\ IngestsIdle' /\ TombstonesIdle'
  BY DEF OnlyConsolidate, ConsolidateOnly, ingestVars, tombstoneVars, IngestsIdle, TombstonesIdle
<1> QED
  BY <1>1, AtRest DEF Turn, OneWriter, OnlyConsolidate, IngestsIdle, TombstonesIdle

\* What was answered and what queries hold stays true.
LEMMA QueriesHide ==
  ASSUME SerialInv, TombstonesFinal, UNCHANGED queries
  PROVE  \A q \in QueryCalls : QueryHides(q)'
<1>1. \A q \in QueryCalls : QueryHides(q) /\ queries[q].gone \subseteq Refs
  BY DEF SerialInv, SafetyInv, TypeInv, TypeOK, QueryTypeOK, QueryState
<1> QED
  BY <1>1 DEF QueryHides, TombstonesFinal

LEMMA AnswersStayTrue ==
  ASSUME SerialInv, TombstonesFinal, UNCHANGED results,
         \A d \in Refs : \A s \in sources'[d] : s \in sources[d] \/ status[s] # "tombstoned"
  PROVE  DeletedIsTombstoned' /\ CascadeReachesScope'
<1>1. gone \subseteq Refs /\ gone' = gone
  BY DEF gone, SerialInv, SafetyInv, TypeInv, TypeOK, TombstoneTypeOK
<1>2. DeletedIsTombstoned'
  BY <1>1 DEF SerialInv, DeletedIsTombstoned, TombstonesFinal
<1>3. \A a \in results : a.status = "tombstoned" => status[a.ref] = "tombstoned"
  BY DEF SerialInv, DeletedIsTombstoned, gone
<1>4. CascadeReachesScope'
  BY <1>3 DEF SerialInv, CascadeReachesScope, TombstonesFinal
<1> QED
  BY <1>2, <1>4

LEMMA KeysStayNamed ==
  ASSUME KeysNamed, UNCHANGED <<dedupe, answers>>
  PROVE  KeysNamed'
BY DEF KeysNamed

-----------------------------------------------------------------------------
(* Ingest.                                                                 *)

\* A step of p leaves an object indexed if it may be shown, or is about to.
IngestIndexes(p) ==
  IndexKept => \A r \in Refs : IngestCarries(p, r)' \/ Indexed(r)'

LEMMA IngestAlone ==
  ASSUME SerialInv, NEW p \in IngestCalls, ingests[p].pc # "idle"
  PROVE  /\ OnlyIngest(p)
         /\ IndexKept => \A r \in Refs : IngestCarries(p, r) \/ Indexed(r)
<1>1. OnlyIngest(p)
  BY DEF SerialInv, OneWriter
<1> QED
  BY <1>1 DEF IndexKept, OnlyIngest, TombstonesIdle, ConsolidationsIdle, IngestCarries,
       TombstoneCarries, ConsolidateCarries

LEMMA IngestSerial ==
  ASSUME SerialInv, NEW p \in IngestCalls, IngestStep(p)
  PROVE  /\ OnlyIngest(p)
         /\ \A q \in IngestCalls : q # p => ingests'[q] = ingests[q]
         /\ IngestSees(p)' /\ TombstonesFinal /\ KeysNamed' /\ IngestIndexes(p)
         /\ \A d \in Refs : \A s \in sources'[d] : s \in sources[d] \/ status[s] # "tombstoned"
<1> DEFINE i == ingests[p]
           Sources == \A d \in Refs : \A s \in sources'[d] :
                        s \in sources[d] \/ status[s] # "tombstoned"
<1>0. /\ i \in IngestState /\ ingests \in [IngestCalls -> IngestState]
      /\ IngestHolds(p) /\ IngestKnows(p) /\ IngestSees(p)
      /\ status \in [Refs -> Statuses] /\ sources \in [Refs -> SUBSET Refs]
      /\ dedupe \in [Scopes \X Keys -> Refs \cup {NoRef}]
      /\ answers \subseteq [result : {"created", "deduplicated"}, key : Keys \cup {NoKey}, ref : Refs]
      /\ \A r \in PendingIngest(p) : r \in Refs /\ status[r] = "absent"
      /\ KeysNamed
  BY DEF SerialInv, SafetyInv, TypeInv, TypeOK, StoresTypeOK, IngestTypeOK, Fresh, Unborn,
       Exists, PendingIngest, IngestState, IngestHolds
<1>p. i.pc # "idle" /\ i.ref \in Refs /\ i.ref.scope \in Scopes /\ i.key \in Keys \cup {NoKey}
  <2>1. i.pc # "idle"
    BY DEF IngestStep, StoreEpisode, UpsertEpisode, IndexEpisode, UpsertAtom, IndexAtom,
         createDerivedLink, AddContradicts, DisputeGet, DisputePut, DisputeEvent, AnswerCreated
  <2> QED
    BY <2>1, <1>0, RefsAssumption DEF IngestHolds, IngestState
<1>a. /\ OnlyIngest(p)
      /\ IndexKept => \A r \in Refs : IngestCarries(p, r) \/ Indexed(r)
  BY <1>p, IngestAlone
<1> HIDE DEF i
<1>1. CASE StoreEpisode(p)
  <2>1. /\ UNCHANGED <<status, sources, index, answers>>
        /\ dedupe' = IF i.key = NoKey THEN dedupe ELSE [dedupe EXCEPT ![<<i.ref.scope, i.key>>] = i.ref]
        /\ \A q \in IngestCalls : q # p => ingests'[q] = ingests[q]
        /\ ingests'[p].pc = "upsert" /\ ingests'[p].ref = i.ref /\ ingests'[p].key = i.key
        /\ i.pc = "append"
    BY <1>1, <1>0 DEF StoreEpisode, appendEpisode, IngestState, i
  <2>2. \A s \in Scopes, k \in Keys :
          dedupe'[<<s, k>>] = IF s = i.ref.scope /\ k = i.key THEN i.ref ELSE dedupe[<<s, k>>]
    BY <1>0, <1>p, <2>1, KeysAssumption
  <2>3. IngestSees(p)'
    BY <1>p, <2>1, <2>2 DEF IngestSees
  <2>4. i.key # NoKey => dedupe[<<i.ref.scope, i.key>>] = NoRef
    BY <1>0, <2>1 DEF IngestSees, i
  <2>5. \A s \in Scopes, k \in Keys : dedupe'[<<s, k>>] # NoRef => dedupe'[<<s, k>>].scope = s
    BY <1>0, <2>2 DEF KeysNamed
  <2>6. \A a \in answers : a.key # NoKey => dedupe'[<<a.ref.scope, a.key>>] = a.ref
    <3>1. SUFFICES ASSUME NEW a \in answers, a.key # NoKey
                   PROVE  dedupe'[<<a.ref.scope, a.key>>] = a.ref
      OBVIOUS
    <3>2. a.key \in Keys /\ a.ref \in Refs /\ a.ref.scope \in Scopes /\ a.ref # NoRef
      BY <1>0, <3>1, RefsAssumption
    <3>3. dedupe[<<a.ref.scope, a.key>>] = a.ref
      BY <1>0, <3>1 DEF KeysNamed
    <3>4. ~(a.ref.scope = i.ref.scope /\ a.key = i.key)
      BY <2>4, <3>1, <3>2, <3>3
    <3> QED
      BY <2>2, <3>2, <3>3, <3>4
  <2>7. KeysNamed'
    BY <2>1, <2>5, <2>6 DEF KeysNamed
  <2>8. IngestIndexes(p) /\ TombstonesFinal /\ Sources
    BY <1>a, <2>1 DEF IngestIndexes, IngestCarries, Indexed, Indexable, TombstonesFinal, i
  <2> QED
    BY <1>a, <2>1, <2>3, <2>7, <2>8
<1>2. CASE UpsertEpisode(p)
  <2>1. /\ UNCHANGED <<sources, index, dedupe, answers>>
        /\ status' = [status EXCEPT ![i.ref] = "active"]
        /\ \A q \in IngestCalls : q # p => ingests'[q] = ingests[q]
        /\ ingests'[p].pc = "index" /\ ingests'[p].ref = i.ref /\ ingests'[p].key = i.key
        /\ i.pc = "upsert" /\ i.ref \in PendingIngest(p)
    BY <1>2, <1>0 DEF UpsertEpisode, upsert, IngestState, PendingIngest, i
  <2>2. \A r \in Refs : status'[r] = IF r = i.ref THEN "active" ELSE status[r]
    BY <1>0, <2>1
  <2>3. IngestSees(p)' /\ KeysNamed'
    BY <1>0, <1>p, <2>1, <2>2, KeysStayNamed DEF IngestSees, i
  <2>4. IngestIndexes(p) /\ TombstonesFinal /\ Sources
    BY <1>0, <1>a, <2>1, <2>2 DEF IngestIndexes, IngestCarries, Indexed, Indexable, TombstonesFinal, i
  <2> QED
    BY <1>a, <2>1, <2>3, <2>4
<1>3. CASE IndexEpisode(p)
  <2>1. /\ UNCHANGED <<status, sources, dedupe, answers>>
        /\ index' = index \cup {i.ref}
        /\ \A q \in IngestCalls : q # p => ingests'[q] = ingests[q]
        /\ ingests'[p].pc \in {"atom", "link", "event"}
        /\ ingests'[p].ref = i.ref /\ ingests'[p].key = i.key
        /\ i.pc = "index"
    BY <1>3, <1>0 DEF IndexEpisode, indexMemory, NextDraft, IngestState, i
  <2>2. IngestSees(p)' /\ KeysNamed'
    BY <1>0, <2>1, KeysStayNamed DEF IngestSees, i
  <2>3. IngestIndexes(p) /\ TombstonesFinal /\ Sources
    BY <1>0, <1>a, <2>1 DEF IngestIndexes, IngestCarries, Indexed, Indexable, TombstonesFinal, IngestSees, i
  <2> QED
    BY <1>a, <2>1, <2>2, <2>3
<1>4. CASE UpsertAtom(p)
  <2>1. PICK a \in i.atoms :
          /\ status' = [status EXCEPT ![a] = "active"]
          /\ sources' = [sources EXCEPT ![a] = {i.ref}]
          /\ ingests' = [ingests EXCEPT ![p] =
               [@ EXCEPT !.pc = "atomIndex", !.atom = a, !.atoms = i.atoms \ {a}]]
    BY <1>4 DEF UpsertAtom, upsert, i
  <2>2. /\ UNCHANGED <<index, dedupe, answers>>
        /\ \A q \in IngestCalls : q # p => ingests'[q] = ingests[q]
        /\ ingests'[p].pc = "atomIndex" /\ ingests'[p].ref = i.ref /\ ingests'[p].key = i.key
        /\ ingests'[p].atom = a
        /\ i.pc = "atom" /\ a \in Refs /\ status[a] = "absent" /\ status[i.ref] # "absent"
    BY <1>4, <1>0, <2>1 DEF UpsertAtom, IngestState, PendingIngest, IngestKnows, Exists, i
  <2>3. \A r \in Refs : status'[r] = IF r = a THEN "active" ELSE status[r]
    BY <1>0, <2>1
  <2>4. IngestSees(p)' /\ KeysNamed' /\ status[i.ref] # "tombstoned"
    BY <1>0, <1>p, <2>2, <2>3, KeysStayNamed DEF IngestSees, i
  <2>5. Sources
    BY <1>0, <2>1, <2>2, <2>4
  <2>6. IngestIndexes(p) /\ TombstonesFinal
    BY <1>a, <2>2, <2>3 DEF IngestIndexes, IngestCarries, Indexed, Indexable, TombstonesFinal, i
  <2> QED
    BY <1>a, <2>2, <2>4, <2>5, <2>6
<1>5. CASE IndexAtom(p)
  <2>1. /\ UNCHANGED <<status, sources, dedupe, answers>>
        /\ index' = index \cup {i.atom}
        /\ \A q \in IngestCalls : q # p => ingests'[q] = ingests[q]
        /\ ingests'[p].pc = "atomLink" /\ ingests'[p].ref = i.ref /\ ingests'[p].key = i.key
        /\ i.pc = "atomIndex"
    BY <1>5, <1>0 DEF IndexAtom, indexMemory, IngestState, i
  <2>2. IngestSees(p)' /\ KeysNamed'
    BY <1>0, <2>1, KeysStayNamed DEF IngestSees, i
  <2>3. IngestIndexes(p) /\ TombstonesFinal /\ Sources
    BY <1>0, <1>a, <2>1 DEF IngestIndexes, IngestCarries, Indexed, Indexable, TombstonesFinal, IngestSees, i
  <2> QED
    BY <1>a, <2>1, <2>2, <2>3
<1>6. CASE createDerivedLink(p) \/ AddContradicts(p) \/ DisputeEvent(p)
  <2>1. /\ UNCHANGED <<status, sources, dedupe, index, answers>>
        /\ \A q \in IngestCalls : q # p => ingests'[q] = ingests[q]
        /\ ingests'[p].pc \in {"atom", "link", "event", "disputeGet"}
        /\ ingests'[p].ref = i.ref /\ ingests'[p].key = i.key
        /\ i.pc \in {"atomLink", "link", "disputeEvent"}
    <3>1. CASE createDerivedLink(p)
      BY <3>1, <1>0 DEF createDerivedLink, NextDraft, IngestState, i
    <3>2. CASE AddContradicts(p)
      BY <3>2, <1>0 DEF AddContradicts, IngestState, i
    <3>3. CASE DisputeEvent(p)
      BY <3>3, <1>0 DEF DisputeEvent, NextSide, NextDraft, IngestState, i
    <3> QED
      BY <1>6, <3>1, <3>2, <3>3
  <2>2. IngestSees(p)' /\ KeysNamed'
    BY <1>0, <2>1, KeysStayNamed DEF IngestSees, i
  <2>3. IngestIndexes(p) /\ TombstonesFinal /\ Sources
    BY <1>a, <2>1 DEF IngestIndexes, IngestCarries, Indexed, Indexable, TombstonesFinal, i
  <2> QED
    BY <1>a, <2>1, <2>2, <2>3
<1>7. CASE DisputeGet(p)
  <2>1. PICK r \in i.sides :
          ingests' = [ingests EXCEPT ![p] =
            IF status[r] = "active" THEN [@ EXCEPT !.pc = "disputePut", !.atom = r]
            ELSE [@ EXCEPT !.sides = i.sides \ {r}, !.pc = NextSide(i.sides \ {r}, i.drafts)]]
    BY <1>7 DEF DisputeGet, i
  <2>2. /\ UNCHANGED <<status, sources, dedupe, index, answers>>
        /\ \A q \in IngestCalls : q # p => ingests'[q] = ingests[q]
        /\ \/ ingests'[p].pc = "disputePut" /\ status[ingests'[p].atom] = "active"
           \/ ingests'[p].pc \in {"link", "event", "disputeGet"}
        /\ ingests'[p].ref = i.ref /\ ingests'[p].key = i.key
        /\ i.pc = "disputeGet"
    <3>1. CASE status[r] = "active"
      BY <1>7, <1>0, <2>1, <3>1 DEF DisputeGet, stores, IngestState, i
    <3>2. CASE status[r] # "active"
      BY <1>7, <1>0, <2>1, <3>2 DEF DisputeGet, NextSide, NextDraft, stores, IngestState, i
    <3> QED
      BY <3>1, <3>2
  <2>3. IngestSees(p)' /\ KeysNamed'
    BY <1>0, <2>2, KeysStayNamed DEF IngestSees, i
  <2>4. IngestIndexes(p) /\ TombstonesFinal /\ Sources
    BY <1>a, <2>2 DEF IngestIndexes, IngestCarries, Indexed, Indexable, TombstonesFinal, i
  <2> QED
    BY <1>a, <2>2, <2>3, <2>4
<1>8. CASE DisputePut(p)
  <2>1. /\ UNCHANGED <<sources, index, dedupe, answers>>
        /\ status' = [status EXCEPT ![i.atom] = "disputed"]
        /\ \A q \in IngestCalls : q # p => ingests'[q] = ingests[q]
        /\ ingests'[p].pc = "disputeEvent" /\ ingests'[p].ref = i.ref /\ ingests'[p].key = i.key
        /\ i.pc = "disputePut" /\ i.atom \in Refs /\ status[i.atom] = "active"
    BY <1>8, <1>0 DEF DisputePut, upsert, IngestState, IngestHolds, IngestSees, i
  <2>2. \A r \in Refs : status'[r] = IF r = i.atom THEN "disputed" ELSE status[r]
    BY <1>0, <2>1
  <2>3. IngestSees(p)' /\ KeysNamed'
    BY <1>0, <1>p, <2>1, <2>2, KeysStayNamed DEF IngestSees, i
  <2>4. IngestIndexes(p) /\ TombstonesFinal /\ Sources
    BY <1>a, <2>1, <2>2 DEF IngestIndexes, IngestCarries, Indexed, Indexable, TombstonesFinal, i
  <2> QED
    BY <1>a, <2>1, <2>3, <2>4
<1>9. CASE AnswerCreated(p)
  <2>1. /\ UNCHANGED <<status, sources, dedupe, index>>
        /\ answers' = answers \cup {[result |-> "created", key |-> i.key, ref |-> i.ref]}
        /\ \A q \in IngestCalls : q # p => ingests'[q] = ingests[q]
        /\ ingests'[p].pc = "idle"
        /\ i.pc = "event"
    BY <1>9, <1>0 DEF AnswerCreated, answer, IdleIngest, i
  <2>2. IngestSees(p)'
    BY <2>1, AtRest
  <2>3. i.key # NoKey => dedupe[<<i.ref.scope, i.key>>] = i.ref
    BY <1>0, <2>1 DEF IngestSees, i
  <2>4. KeysNamed'
    BY <1>0, <2>1, <2>3 DEF KeysNamed
  <2>5. IngestIndexes(p) /\ TombstonesFinal /\ Sources
    BY <1>a, <2>1 DEF IngestIndexes, IngestCarries, Indexed, Indexable, TombstonesFinal, i
  <2> QED
    BY <1>a, <2>1, <2>2, <2>4, <2>5
<1> QED
  BY <1>1, <1>2, <1>3, <1>4, <1>5, <1>6, <1>7, <1>8, <1>9 DEF IngestStep

-----------------------------------------------------------------------------
(* Tombstone.                                                              *)

TombstoneIndexes(t) ==
  IndexKept => \A r \in Refs : TombstoneCarries(t, r)' \/ Indexed(r)'

LEMMA TombstoneAlone ==
  ASSUME SerialInv, NEW t \in TombstoneCalls, tombstones[t].pc # "idle"
  PROVE  /\ OnlyTombstone(t)
         /\ IndexKept => \A r \in Refs : TombstoneCarries(t, r) \/ Indexed(r)
<1>1. OnlyTombstone(t)
  BY DEF SerialInv, OneWriter
<1> QED
  BY <1>1 DEF IndexKept, OnlyTombstone, IngestsIdle, ConsolidationsIdle, IngestCarries,
       TombstoneCarries, ConsolidateCarries

\* A step that writes no object and gives no answer.
LEMMA TombstoneWritesNothing ==
  ASSUME SerialInv, UNCHANGED <<status, sources, results>>
  PROVE  TombstonesFinal /\ DeletedIsTombstoned' /\ CascadeReachesScope'
<1>1. TombstonesFinal
  BY DEF TombstonesFinal
<1>2. \A d \in Refs : \A s \in sources'[d] : s \in sources[d]
  OBVIOUS
<1> QED
  BY <1>1, <1>2, AnswersStayTrue

\* The cascade of a ref that is tombstoned starts with all that derives from it.
LEMMA CascadeSees ==
  ASSUME SerialInv, NEW t \in TombstoneCalls, StartCascade(t), UNCHANGED <<status, sources>>,
         tombstones[t].pc \in {"unindex", "episode"}
  PROVE  TombstoneSees(t)' /\ tombstones'[t].pc \in {"event", "derived"}
<1> DEFINE u == tombstones[t]
           derived == IF u.policy = "none" THEN {} ELSE derivedFrom(t, u.ref)
<1>1. /\ tombstones \in [TombstoneCalls -> TombstoneState] /\ u \in TombstoneState
      /\ TombstoneSees(t)
  BY DEF SerialInv, SafetyInv, TypeInv, TypeOK, TombstoneTypeOK
<1>2. tombstones' = [tombstones EXCEPT ![t] =
       [@ EXCEPT !.pc = IF derived = {} THEN "event" ELSE "derived", !.derived = derived]]
  BY DEF StartCascade
<1>3. u.policy = "tombstone_derived" => derived = {d \in u.allObjects : u.ref \in sources[d]}
  BY DEF derivedFrom
<1> HIDE DEF derived
<1>4. /\ tombstones'[t].pc = IF derived = {} THEN "event" ELSE "derived"
      /\ tombstones'[t].derived = derived
      /\ KeepsRequest(t) /\ tombstones'[t].ref = u.ref
  BY <1>1, <1>2 DEF KeepsRequest, TombstoneState
<1>5. u.allObjects = list(u.scope) /\ status[u.ref] = "tombstoned"
  BY <1>1 DEF TombstoneSees
<1>6. tombstones'[t].allObjects = list(tombstones[t].scope)'
  BY <1>4, <1>5 DEF KeepsRequest, list, Exists
<1>7. u.policy = "tombstone_derived" => Reaching(t)'
  BY <1>3, <1>4, <1>5 DEF Reaching, KeepsRequest, list, Exists
<1> QED
  BY <1>4, <1>5, <1>6, <1>7 DEF TombstoneSees, KeepsRequest

LEMMA TombstoneSerial ==
  ASSUME SerialInv, NEW t \in TombstoneCalls, TombstoneStep(t)
  PROVE  /\ OnlyTombstone(t)
         /\ \A v \in TombstoneCalls : v # t => tombstones'[v] = tombstones[v]
         /\ TombstoneSees(t)' /\ TombstonesFinal /\ TombstoneIndexes(t)
         /\ DeletedIsTombstoned' /\ CascadeReachesScope' /\ UNCHANGED dedupe
<1> DEFINE u == tombstones[t]
<1>0. /\ u \in TombstoneState /\ tombstones \in [TombstoneCalls -> TombstoneState]
      /\ TombstoneHolds(t) /\ TombstoneKnows(t) /\ TombstoneSees(t)
      /\ TypeInv
      /\ status \in [Refs -> Statuses] /\ sources \in [Refs -> SUBSET Refs]
      /\ \A r \in Refs : status[r] = "absent" => sources[r] = {}
      /\ results \subseteq [ref : Refs, policy : Policies, scope : Scopes, status : Answers]
  BY DEF SerialInv, SafetyInv, TypeInv, TypeOK, StoresTypeOK, TombstoneTypeOK, Lineage, Exists
<1>p. u.pc # "idle"
  BY DEF TombstoneStep, GetTarget, PutTombstoned, UnindexTarget, TombstoneEpisode, MarkDerivedGet,
       MarkDerivedPut, TombstoneDerived, UnindexDerived, AnswerTombstoned, ReturnTombstone
<1>a. /\ OnlyTombstone(t)
      /\ IndexKept => \A r \in Refs : TombstoneCarries(t, r) \/ Indexed(r)
  BY <1>p, TombstoneAlone
<1>b. KeepsRequest(t) => \A v \in TombstoneCalls : v # t => tombstones'[v] = tombstones[v]
  BY DEF KeepsRequest
<1>c. u.allObjects = list(u.scope)
  BY <1>0, <1>p DEF TombstoneSees
<1>d. (\A r \in Refs : Exists(r)' <=> Exists(r)) /\ KeepsRequest(t) =>
        tombstones'[t].allObjects = list(tombstones[t].scope)'
  BY <1>c DEF KeepsRequest, list
<1> HIDE DEF u
<1>1. CASE GetTarget(t)
  <2>1. PICK r \in u.refs :
          \/ /\ ~Exists(r) \/ status[r] = "tombstoned"
             /\ pushResult(t, r, IF Exists(r) THEN "already_tombstoned" ELSE "not_found")
             /\ tombstones' = [tombstones EXCEPT ![t].refs = u.refs \ {r}]
          \/ /\ Exists(r) /\ status[r] # "tombstoned"
             /\ tombstones' = [tombstones EXCEPT ![t] =
                  [@ EXCEPT !.refs = u.refs \ {r}, !.ref = r, !.pc = "put"]]
             /\ UNCHANGED results
    BY <1>1 DEF GetTarget, u
  <2>2. UNCHANGED <<status, sources, index, dedupe>> /\ u.pc = "next" /\ r \in Refs
    BY <1>1, <1>0 DEF GetTarget, stores, u, TombstoneState
  <2>3. KeepsRequest(t) /\ tombstones'[t].pc \in {"next", "put"}
    <3>1. CASE tombstones' = [tombstones EXCEPT ![t].refs = u.refs \ {r}]
      BY <1>0, <2>2, <3>1 DEF KeepsRequest, TombstoneState, u
    <3>2. CASE tombstones' = [tombstones EXCEPT ![t] =
                  [@ EXCEPT !.refs = u.refs \ {r}, !.ref = r, !.pc = "put"]]
      BY <1>0, <3>2 DEF KeepsRequest, TombstoneState, u
    <3> QED
      BY <2>1, <3>1, <3>2
  <2>4. TombstoneSees(t)'
    BY <1>d, <2>2, <2>3 DEF TombstoneSees, Exists
  <2>5. TombstoneIndexes(t)
    BY <1>a, <2>2 DEF TombstoneIndexes, TombstoneCarries, Indexed, Indexable, u
  <2>6. CASE UNCHANGED results
    BY <1>a, <1>b, <2>2, <2>3, <2>4, <2>5, <2>6, TombstoneWritesNothing
  <2>7. CASE /\ ~Exists(r) \/ status[r] = "tombstoned"
             /\ pushResult(t, r, IF Exists(r) THEN "already_tombstoned" ELSE "not_found")
    <3>1. /\ \A a \in results' : a \in results \/ (a.ref = r /\ a.status # "tombstoned"
                                  /\ (a.status # "not_found" => Exists(r)))
      BY <2>7 DEF pushResult
    <3>2. DeletedIsTombstoned'
      BY <2>2, <2>7, <3>1 DEF SerialInv, DeletedIsTombstoned, gone
    <3>3. CascadeReachesScope'
      BY <2>2, <3>1 DEF SerialInv, CascadeReachesScope
    <3>4. TombstonesFinal
      BY <2>2 DEF TombstonesFinal
    <3> QED
      BY <1>a, <1>b, <2>2, <2>3, <2>4, <2>5, <3>2, <3>3, <3>4
  <2> QED
    BY <2>1, <2>6, <2>7
<1>2. CASE PutTombstoned(t)
  <2>1. /\ UNCHANGED <<sources, index, dedupe, results>>
        /\ status' = [status EXCEPT ![u.ref] = "tombstoned"]
        /\ KeepsRequest(t) /\ tombstones'[t].pc = "unindex" /\ tombstones'[t].ref = u.ref
        /\ u.pc = "put" /\ u.ref \in Refs /\ Exists(u.ref)
    BY <1>2, <1>0 DEF PutTombstoned, upsert, KeepsRequest, TombstoneHolds, TombstoneKnows, TombstoneState, u
  <2>2. \A r \in Refs : status'[r] = IF r = u.ref THEN "tombstoned" ELSE status[r]
    BY <1>0, <2>1
  <2>3. \A r \in Refs : Exists(r)' <=> Exists(r)
    BY <2>1, <2>2 DEF Exists
  <2>4. TombstoneSees(t)'
    BY <1>d, <2>1, <2>2, <2>3 DEF TombstoneSees
  <2>5. TombstonesFinal /\ TombstoneIndexes(t)
    BY <1>a, <2>1, <2>2 DEF TombstonesFinal, TombstoneIndexes, TombstoneCarries, Indexed, Indexable, u
  <2>6. DeletedIsTombstoned' /\ CascadeReachesScope'
    BY <2>1, <2>5, AnswersStayTrue
  <2> QED
    BY <1>a, <1>b, <2>1, <2>4, <2>5, <2>6
<1>3. CASE UnindexTarget(t)
  <2>1. /\ UNCHANGED <<status, sources, dedupe, results>>
        /\ index' = index \ {u.ref}
        /\ u.pc = "unindex" /\ u.ref \in Refs /\ status[u.ref] = "tombstoned"
    BY <1>3, <1>0 DEF UnindexTarget, removeIndexed, TombstoneHolds, TombstoneSees, u
  <2>2. /\ KeepsRequest(t) /\ TombstoneSees(t)'
        /\ tombstones'[t].pc \in {"episode", "event", "derived"}
    <3>1. CASE tombstones' = [tombstones EXCEPT ![t].pc = "episode"]
      <4>1. KeepsRequest(t) /\ tombstones'[t].pc = "episode" /\ tombstones'[t].ref = u.ref
        BY <1>0, <3>1 DEF KeepsRequest, TombstoneState, u
      <4> QED
        BY <1>d, <2>1, <4>1 DEF TombstoneSees, Exists
    <3>2. CASE StartCascade(t)
      BY <1>0, <2>1, <3>2, StartCascadeFields, CascadeSees DEF u
    <3> QED
      BY <1>3, <3>1, <3>2 DEF UnindexTarget
  <2>3. TombstoneIndexes(t)
    BY <1>a, <2>1, <2>2 DEF TombstoneIndexes, TombstoneCarries, Indexed, Indexable, u
  <2> QED
    BY <1>a, <1>b, <2>1, <2>2, <2>3, TombstoneWritesNothing
<1>4. CASE TombstoneEpisode(t)
  <2>1. UNCHANGED <<status, sources, dedupe, index, results>> /\ u.pc = "episode" /\ StartCascade(t)
    BY <1>4 DEF TombstoneEpisode, u
  <2>2. KeepsRequest(t) /\ TombstoneSees(t)'
    BY <1>0, <2>1, StartCascadeFields, CascadeSees DEF u
  <2>3. TombstoneIndexes(t)
    BY <1>a, <2>1 DEF TombstoneIndexes, TombstoneCarries, Indexed, Indexable, u
  <2> QED
    BY <1>a, <1>b, <2>1, <2>2, <2>3, TombstoneWritesNothing
<1>5. CASE MarkDerivedGet(t)
  <2>1. PICK d \in u.derived :
          IF status[d] = "active"
          THEN tombstones' = [tombstones EXCEPT ![t] =
                 [@ EXCEPT !.pc = "stalePut", !.derivedRef = d]]
          ELSE NextDerived(t, u.derived \ {d})
    BY <1>5 DEF MarkDerivedGet, u
  <2>2. /\ UNCHANGED <<status, sources, dedupe, index, results>>
        /\ u.pc = "derived" /\ u.policy = "mark_derived_stale" /\ status[u.ref] = "tombstoned"
    BY <1>5, <1>0 DEF MarkDerivedGet, stores, TombstoneSees, u
  <2>3. /\ KeepsRequest(t) /\ tombstones'[t].ref = u.ref
        /\ \/ tombstones'[t].pc = "stalePut" /\ status[tombstones'[t].derivedRef] = "active"
           \/ tombstones'[t].pc = IF tombstones'[t].derived = {} THEN "event" ELSE "derived"
    <3>1. CASE status[d] = "active"
      <4>1. tombstones' = [tombstones EXCEPT ![t] = [@ EXCEPT !.pc = "stalePut", !.derivedRef = d]]
        BY <2>1, <3>1
      <4>2. /\ tombstones'[t].pc = "stalePut" /\ tombstones'[t].derivedRef = d
            /\ tombstones'[t].ref = u.ref
        BY <1>0, <4>1 DEF TombstoneState, u
      <4>3. KeepsRequest(t)
        BY <1>0, <4>1 DEF KeepsRequest, TombstoneState, u
      <4> QED
        BY <3>1, <4>2, <4>3
    <3>2. CASE status[d] # "active"
      <4>1. NextDerived(t, u.derived \ {d})
        BY <2>1, <3>2
      <4>2. tombstones'[t].pc = IF tombstones'[t].derived = {} THEN "event" ELSE "derived"
        BY <1>0, <4>1 DEF NextDerived, TombstoneState, u
      <4> QED
        BY <1>0, <4>1, <4>2, NextDerivedFields DEF u
    <3> QED
      BY <3>1, <3>2
  <2>4. TombstoneSees(t)'
    BY <1>d, <2>2, <2>3 DEF TombstoneSees, KeepsRequest, Exists, u
  <2>5. TombstoneIndexes(t)
    BY <1>a, <2>2 DEF TombstoneIndexes, TombstoneCarries, Indexed, Indexable, u
  <2> QED
    BY <1>a, <1>b, <2>2, <2>3, <2>4, <2>5, TombstoneWritesNothing
<1>6. CASE MarkDerivedPut(t)
  <2>1. /\ UNCHANGED <<sources, index, dedupe, results>>
        /\ status' = [status EXCEPT ![u.derivedRef] = "pending"]
        /\ NextDerived(t, u.derived \ {u.derivedRef})
        /\ u.pc = "stalePut" /\ u.policy = "mark_derived_stale" /\ u.derivedRef \in Refs
        /\ status[u.derivedRef] = "active" /\ u.ref \in Refs /\ status[u.ref] = "tombstoned"
    BY <1>6, <1>0 DEF MarkDerivedPut, upsert, TombstoneHolds, TombstoneKnows, TombstoneSees, u
  <2>2. /\ KeepsRequest(t) /\ tombstones'[t].ref = u.ref
        /\ tombstones'[t].pc = IF tombstones'[t].derived = {} THEN "event" ELSE "derived"
    BY <1>0, <2>1, NextDerivedFields DEF NextDerived, TombstoneState, u
  <2>3. \A r \in Refs : status'[r] = IF r = u.derivedRef THEN "pending" ELSE status[r]
    BY <1>0, <2>1
  <2>4. \A r \in Refs : Exists(r)' <=> Exists(r)
    BY <2>1, <2>3 DEF Exists
  <2>5. status'[u.ref] = "tombstoned"
    BY <2>1, <2>3
  <2>6. TombstoneSees(t)'
    BY <1>d, <2>1, <2>2, <2>4, <2>5 DEF TombstoneSees, KeepsRequest, u
  <2>7. TombstonesFinal /\ TombstoneIndexes(t)
    BY <1>a, <2>1, <2>3 DEF TombstonesFinal, TombstoneIndexes, TombstoneCarries, Indexed, Indexable, u
  <2>8. DeletedIsTombstoned' /\ CascadeReachesScope'
    BY <2>1, <2>7, AnswersStayTrue
  <2> QED
    BY <1>a, <1>b, <2>1, <2>2, <2>6, <2>7, <2>8
<1>7. CASE TombstoneDerived(t)
  <2>1. PICK d \in u.derived :
          /\ status' = [status EXCEPT ![d] = "tombstoned"]
          /\ tombstones' = [tombstones EXCEPT ![t] =
               [@ EXCEPT !.pc = "derivedUnindex", !.derivedRef = d]]
    BY <1>7 DEF TombstoneDerived, upsert, u
  <2>2. /\ UNCHANGED <<sources, index, dedupe, results>>
        /\ KeepsRequest(t) /\ tombstones'[t].ref = u.ref /\ tombstones'[t].derived = u.derived
        /\ tombstones'[t].pc = "derivedUnindex" /\ tombstones'[t].derivedRef = d
        /\ u.pc = "derived" /\ u.policy = "tombstone_derived" /\ d \in Refs /\ Exists(d)
        /\ u.ref \in Refs /\ status[u.ref] = "tombstoned" /\ Reaching(t)
    BY <1>7, <1>0, <2>1 DEF TombstoneDerived, KeepsRequest, TombstoneHolds, TombstoneKnows,
         TombstoneSees, TombstoneState, u
  <2>3. \A r \in Refs : status'[r] = IF r = d THEN "tombstoned" ELSE status[r]
    BY <1>0, <2>1, <2>2
  <2>4. \A r \in Refs : Exists(r)' <=> Exists(r)
    BY <2>2, <2>3 DEF Exists
  <2>5. Reaching(t)'
    BY <2>2, <2>3, <2>4 DEF Reaching, KeepsRequest, list, u
  <2>6. TombstoneSees(t)'
    BY <1>d, <2>2, <2>3, <2>4, <2>5 DEF TombstoneSees
  <2>7. TombstonesFinal /\ TombstoneIndexes(t)
    BY <1>a, <2>2, <2>3 DEF TombstonesFinal, TombstoneIndexes, TombstoneCarries, Indexed, Indexable, u
  <2>8. DeletedIsTombstoned' /\ CascadeReachesScope'
    BY <2>2, <2>7, AnswersStayTrue
  <2> QED
    BY <1>a, <1>b, <2>2, <2>6, <2>7, <2>8
<1>8. CASE UnindexDerived(t)
  <2>1. /\ UNCHANGED <<status, sources, dedupe, results>>
        /\ index' = index \ {u.derivedRef}
        /\ NextDerived(t, u.derived \ {u.derivedRef})
        /\ u.pc = "derivedUnindex" /\ status[u.derivedRef] = "tombstoned"
        /\ status[u.ref] = "tombstoned"
        /\ u.policy = "tombstone_derived" => Reaching(t)
    BY <1>8, <1>0 DEF UnindexDerived, removeIndexed, TombstoneSees, u
  <2>2. /\ KeepsRequest(t) /\ tombstones'[t].ref = u.ref
        /\ tombstones'[t].derived = u.derived \ {u.derivedRef}
        /\ tombstones'[t].pc = IF tombstones'[t].derived = {} THEN "event" ELSE "derived"
    BY <1>0, <2>1, NextDerivedFields DEF NextDerived, TombstoneState, u
  <2>3. u.policy = "tombstone_derived" => Reaching(t)'
    BY <2>1, <2>2 DEF Reaching, KeepsRequest, list, Exists, u
  <2>4. TombstoneSees(t)'
    BY <1>d, <2>1, <2>2, <2>3 DEF TombstoneSees, KeepsRequest, Exists, u
  <2>5. TombstoneIndexes(t)
    BY <1>a, <2>1 DEF TombstoneIndexes, TombstoneCarries, Indexed, Indexable, u
  <2> QED
    BY <1>a, <1>b, <2>1, <2>2, <2>4, <2>5, TombstoneWritesNothing
<1>9. CASE AnswerTombstoned(t)
  <2>1. /\ UNCHANGED <<status, sources, dedupe, index>>
        /\ results' = results \cup {[ref |-> u.ref, policy |-> u.policy, scope |-> u.scope,
                                     status |-> "tombstoned"]}
        /\ KeepsRequest(t) /\ tombstones'[t].pc = "next"
        /\ u.pc = "event" /\ u.derived = {} /\ status[u.ref] = "tombstoned"
        /\ u.policy = "tombstone_derived" => Reaching(t)
    BY <1>9, <1>0 DEF AnswerTombstoned, pushResult, KeepsRequest, TombstoneSees, TombstoneState, u
  <2>2. TombstoneSees(t)'
    BY <1>d, <2>1 DEF TombstoneSees, Exists
  <2>3. DeletedIsTombstoned'
    BY <2>1 DEF SerialInv, DeletedIsTombstoned, gone
  <2>4. ASSUME u.policy = "tombstone_derived", NEW d \in Refs,
               u.ref \in sources[d], matchesScope(d.scope, u.scope)
        PROVE  status[d] = "tombstoned"
    <3>1. d \in list(u.scope)
      BY <1>0, <2>4 DEF list, Exists
    <3> QED
      BY <2>1, <2>4, <3>1 DEF Reaching, u
  <2>5. CascadeReachesScope'
    BY <2>1, <2>4 DEF SerialInv, CascadeReachesScope
  <2>6. TombstonesFinal /\ TombstoneIndexes(t)
    BY <1>a, <2>1 DEF TombstonesFinal, TombstoneIndexes, TombstoneCarries, Indexed, Indexable, u
  <2> QED
    BY <1>a, <1>b, <2>1, <2>2, <2>3, <2>5, <2>6
<1>10. CASE ReturnTombstone(t)
  <2>1. /\ UNCHANGED <<status, sources, dedupe, index, results>>
        /\ \A v \in TombstoneCalls : v # t => tombstones'[v] = tombstones[v]
        /\ tombstones'[t].pc = "idle" /\ u.pc = "next"
    BY <1>10, <1>0 DEF ReturnTombstone, IdleTombstone, stores, u
  <2>2. TombstoneIndexes(t)
    BY <1>a, <2>1 DEF TombstoneIndexes, TombstoneCarries, Indexed, Indexable, u
  <2> QED
    BY <1>a, <2>1, <2>2, AtRest, TombstoneWritesNothing
<1> QED
  BY <1>1, <1>2, <1>3, <1>4, <1>5, <1>6, <1>7, <1>8, <1>9, <1>10 DEF TombstoneStep

-----------------------------------------------------------------------------
(* Consolidate.                                                            *)

ConsolidateIndexes(c) ==
  IndexKept => \A r \in Refs : ConsolidateCarries(c, r)' \/ Indexed(r)'

LEMMA ConsolidateAlone ==
  ASSUME SerialInv, NEW c \in ConsolidateCalls, consolidations[c].pc # "idle"
  PROVE  /\ OnlyConsolidate(c)
         /\ IndexKept => \A r \in Refs : ConsolidateCarries(c, r) \/ Indexed(r)
<1>1. OnlyConsolidate(c)
  BY DEF SerialInv, OneWriter
<1> QED
  BY <1>1 DEF IndexKept, OnlyConsolidate, IngestsIdle, TombstonesIdle, IngestCarries,
       TombstoneCarries, ConsolidateCarries

LEMMA ConsolidateSerial ==
  ASSUME SerialInv, NEW c \in ConsolidateCalls, ConsolidateStep(c)
  PROVE  /\ OnlyConsolidate(c)
         /\ \A d \in ConsolidateCalls : d # c => consolidations'[d] = consolidations[d]
         /\ ConsolidateSees(c)' /\ TombstonesFinal /\ ConsolidateIndexes(c) /\ UNCHANGED dedupe
         /\ \A d \in Refs : \A s \in sources'[d] : s \in sources[d] \/ status[s] # "tombstoned"
<1> DEFINE u == consolidations[c]
           Sources == \A d \in Refs : \A s \in sources'[d] :
                        s \in sources[d] \/ status[s] # "tombstoned"
<1>0. /\ u \in ConsolidateState /\ consolidations \in [ConsolidateCalls -> ConsolidateState]
      /\ ConsolidateHolds(c) /\ ConsolidateSees(c) /\ TypeInv
      /\ status \in [Refs -> Statuses] /\ sources \in [Refs -> SUBSET Refs]
      /\ u.pc = "upsert" => status[u.con] = "absent"
  BY DEF SerialInv, SafetyInv, TypeInv, TypeOK, StoresTypeOK, ConsolidateTypeOK, Fresh, Unborn,
       Exists, PendingConsolidate
<1>p. u.pc # "idle"
  BY DEF ConsolidateStep, UpsertConsolidation, IndexConsolidation, SupersedeGet, SupersedePut,
       UnindexSuperseded, LinkSuperseded, ReportSuperseded
<1>a. /\ OnlyConsolidate(c)
      /\ IndexKept => \A r \in Refs : ConsolidateCarries(c, r) \/ Indexed(r)
  BY <1>p, ConsolidateAlone
<1> HIDE DEF u
<1>1. CASE UpsertConsolidation(c)
  <2>1. /\ UNCHANGED <<index, dedupe>>
        /\ status' = [status EXCEPT ![u.con] = "active"]
        /\ sources' = [sources EXCEPT ![u.con] = u.sources]
        /\ \A d \in ConsolidateCalls : d # c => consolidations'[d] = consolidations[d]
        /\ consolidations'[c].pc = "index" /\ consolidations'[c].con = u.con
        /\ u.pc = "upsert" /\ u.con \in Refs /\ status[u.con] = "absent"
        /\ \A s \in u.sources : status[s] # "tombstoned"
    BY <1>1, <1>0 DEF UpsertConsolidation, upsert, ConsolidateHolds, ConsolidateSees,
         ConsolidateState, u
  <2>2. \A r \in Refs : status'[r] = IF r = u.con THEN "active" ELSE status[r]
    BY <1>0, <2>1
  <2>3. ConsolidateSees(c)'
    BY <2>1, <2>2 DEF ConsolidateSees
  <2>4. ConsolidateIndexes(c) /\ TombstonesFinal
    BY <1>a, <2>1, <2>2 DEF ConsolidateIndexes, ConsolidateCarries, Indexed, Indexable,
         TombstonesFinal, u
  <2>5. Sources
    BY <1>0, <2>1
  <2> QED
    BY <1>a, <2>1, <2>3, <2>4, <2>5
<1>2. CASE IndexConsolidation(c)
  <2>1. /\ UNCHANGED <<status, sources, dedupe>>
        /\ index' = index \cup {u.con}
        /\ NextSuperseded(c, supersedes(u.sources))
        /\ u.pc = "index" /\ status[u.con] = "active"
    BY <1>2, <1>0 DEF IndexConsolidation, indexMemory, ConsolidateSees, u
  <2>2. /\ \A d \in ConsolidateCalls : d # c => consolidations'[d] = consolidations[d]
        /\ consolidations'[c].pc \in {"idle", "supersede"}
    BY <1>0, <2>1, NextSupersededFields
  <2>3. ConsolidateSees(c)'
    BY <2>2 DEF ConsolidateSees
  <2>4. ConsolidateIndexes(c) /\ TombstonesFinal /\ Sources
    BY <1>a, <2>1 DEF ConsolidateIndexes, ConsolidateCarries, Indexed, Indexable,
         TombstonesFinal, u
  <2> QED
    BY <1>a, <2>1, <2>2, <2>3, <2>4
<1>3. CASE SupersedeGet(c)
  <2>1. PICK r \in u.left :
          IF ~Exists(r) \/ status[r] = "tombstoned"
          THEN NextSuperseded(c, u.left \ {r})
          ELSE consolidations' = [consolidations EXCEPT ![c] =
                 [@ EXCEPT !.pc = "supersedePut", !.ref = r]]
    BY <1>3 DEF SupersedeGet, u
  <2>2. UNCHANGED <<status, sources, dedupe, index>> /\ u.pc = "supersede"
    BY <1>3 DEF SupersedeGet, stores, u
  <2>3. /\ \A d \in ConsolidateCalls : d # c => consolidations'[d] = consolidations[d]
        /\ \/ consolidations'[c].pc \in {"idle", "supersede"}
           \/ /\ consolidations'[c].pc = "supersedePut"
              /\ status[consolidations'[c].ref] # "tombstoned"
    <3>1. CASE ~Exists(r) \/ status[r] = "tombstoned"
      BY <1>0, <2>1, <3>1, NextSupersededFields
    <3>2. CASE ~(~Exists(r) \/ status[r] = "tombstoned")
      <4>1. consolidations' = [consolidations EXCEPT ![c] =
              [@ EXCEPT !.pc = "supersedePut", !.ref = r]]
        BY <2>1, <3>2
      <4> QED
        BY <1>0, <3>2, <4>1 DEF ConsolidateState, u
    <3> QED
      BY <3>1, <3>2
  <2>4. ConsolidateSees(c)'
    BY <2>2, <2>3 DEF ConsolidateSees
  <2>5. ConsolidateIndexes(c) /\ TombstonesFinal /\ Sources
    BY <1>a, <2>2 DEF ConsolidateIndexes, ConsolidateCarries, Indexed, Indexable,
         TombstonesFinal, u
  <2> QED
    BY <1>a, <2>2, <2>3, <2>4, <2>5
<1>4. CASE SupersedePut(c)
  <2>1. /\ UNCHANGED <<sources, index, dedupe>>
        /\ status' = [status EXCEPT ![u.ref] = "superseded"]
        /\ \A d \in ConsolidateCalls : d # c => consolidations'[d] = consolidations[d]
        /\ consolidations'[c].pc = "unindex" /\ consolidations'[c].ref = u.ref
        /\ u.pc = "supersedePut" /\ u.ref \in Refs /\ status[u.ref] # "tombstoned"
    BY <1>4, <1>0 DEF SupersedePut, upsert, ConsolidateHolds, ConsolidateSees,
         ConsolidateState, u
  <2>2. \A r \in Refs : status'[r] = IF r = u.ref THEN "superseded" ELSE status[r]
    BY <1>0, <2>1
  <2>3. ConsolidateSees(c)'
    BY <2>1, <2>2 DEF ConsolidateSees
  <2>4. ConsolidateIndexes(c) /\ TombstonesFinal /\ Sources
    BY <1>a, <2>1, <2>2 DEF ConsolidateIndexes, ConsolidateCarries, Indexed, Indexable,
         TombstonesFinal, u
  <2> QED
    BY <1>a, <2>1, <2>3, <2>4
<1>5. CASE UnindexSuperseded(c)
  <2>1. /\ UNCHANGED <<status, sources, dedupe>>
        /\ index' = index \ {u.ref}
        /\ \A d \in ConsolidateCalls : d # c => consolidations'[d] = consolidations[d]
        /\ consolidations'[c].pc = "link"
        /\ u.pc = "unindex" /\ status[u.ref] = "superseded"
    BY <1>5, <1>0 DEF UnindexSuperseded, removeIndexed, ConsolidateSees, ConsolidateState, u
  <2>2. ConsolidateSees(c)'
    BY <2>1 DEF ConsolidateSees
  <2>3. ConsolidateIndexes(c) /\ TombstonesFinal /\ Sources
    BY <1>a, <2>1 DEF ConsolidateIndexes, ConsolidateCarries, Indexed, Indexable,
         TombstonesFinal, u
  <2> QED
    BY <1>a, <2>1, <2>2, <2>3
<1>6. CASE LinkSuperseded(c) \/ ReportSuperseded(c)
  <2>1. UNCHANGED <<status, sources, dedupe, index>> /\ u.pc \in {"link", "event"}
    BY <1>6 DEF LinkSuperseded, ReportSuperseded, u
  <2>2. /\ \A d \in ConsolidateCalls : d # c => consolidations'[d] = consolidations[d]
        /\ consolidations'[c].pc \in {"idle", "supersede", "event"}
    <3>1. CASE LinkSuperseded(c)
      BY <1>0, <3>1 DEF LinkSuperseded, ConsolidateState, u
    <3>2. CASE ReportSuperseded(c)
      <4>1. NextSuperseded(c, consolidations[c].left \ {consolidations[c].ref})
        BY <3>2 DEF ReportSuperseded
      <4> QED
        BY <1>0, <4>1, NextSupersededFields
    <3> QED
      BY <1>6, <3>1, <3>2
  <2>3. ConsolidateSees(c)'
    BY <2>2 DEF ConsolidateSees
  <2>4. ConsolidateIndexes(c) /\ TombstonesFinal /\ Sources
    BY <1>a, <2>1 DEF ConsolidateIndexes, ConsolidateCarries, Indexed, Indexable,
         TombstonesFinal, u
  <2> QED
    BY <1>a, <2>1, <2>2, <2>3, <2>4
<1> QED
  BY <1>1, <1>2, <1>3, <1>4, <1>5, <1>6 DEF ConsolidateStep

-----------------------------------------------------------------------------
(* A call begins, with no other in progress.                               *)

NoWriter == IngestsIdle /\ TombstonesIdle /\ ConsolidationsIdle

\* At rest the index is exact.
LEMMA IndexAtRest ==
  ASSUME NoWriter, IndexKept
  PROVE  \A r \in Refs : Indexed(r)
BY DEF NoWriter, IndexKept, IngestsIdle, TombstonesIdle, ConsolidationsIdle, IngestCarries,
     TombstoneCarries, ConsolidateCarries

LEMMA IndexUntouched ==
  ASSUME NoWriter, IndexKept, UNCHANGED <<status, index>>
  PROVE  IndexKept'
BY IndexAtRest DEF IndexKept, Indexed, Indexable

LEMMA StartIngestSerial ==
  ASSUME SerialInv, NoWriter, StartIngest, IngestOnly
  PROVE  /\ Turn /\ KeysNamed' /\ UNCHANGED <<status, sources, index>>
<1>1. PICK p \in IngestCalls, s \in Scopes, k \in Keys \cup {NoKey} : resolveDedupeKey(p, s, k)
  BY DEF StartIngest
<1> DEFINE hit == IF k = NoKey THEN NoRef ELSE dedupe[<<s, k>>]
<1>2. /\ UNCHANGED <<status, sources, dedupe, index>>
      /\ OnlyIngest(p) /\ IngestSees(p)
      /\ ingests \in [IngestCalls -> IngestState] /\ KeysNamed
      /\ dedupe \in [Scopes \X Keys -> Refs \cup {NoRef}]
  BY <1>1 DEF resolveDedupeKey, NoWriter, OnlyIngest, IngestsIdle, SerialInv, SafetyInv, TypeInv,
       TypeOK, IngestTypeOK, StoresTypeOK
<1>3. CASE hit # NoRef /\ answer("deduplicated", k, hit) /\ UNCHANGED <<minted, ingests>>
  <2>1. IngestSees(p)'
    BY <1>2, <1>3 DEF IngestSees
  <2>2. k # NoKey /\ k \in Keys /\ dedupe[<<s, k>>] = hit /\ hit.scope = s
    BY <1>2, <1>3 DEF KeysNamed
  <2>3. answers' = answers \cup {[result |-> "deduplicated", key |-> k, ref |-> hit]}
    BY <1>3 DEF answer
  <2> HIDE DEF hit
  <2>4. KeysNamed'
    BY <1>2, <2>2, <2>3 DEF KeysNamed
  <2> QED
    BY <1>2, <1>3, <2>1, <2>4, IngestTurn
<1>4. ASSUME hit = NoRef, NEW e \in randomId("episode", s),
             ingests' = [ingests EXCEPT ![p] =
               [IdleIngest EXCEPT !.pc = "append", !.ref = e, !.key = k]],
             UNCHANGED answers
      PROVE  Turn /\ KeysNamed'
  <2>1. /\ \A q \in IngestCalls : q # p => ingests'[q] = ingests[q]
        /\ ingests'[p].pc = "append" /\ ingests'[p].ref = e /\ ingests'[p].key = k
    BY <1>2, <1>4 DEF IdleIngest
  <2>2. e.scope = s
    BY DEF randomId
  <2>3. IngestSees(p)'
    BY <1>2, <1>4, <2>1, <2>2 DEF IngestSees
  <2> QED
    BY <1>2, <1>4, <2>1, <2>3, IngestTurn, KeysStayNamed
<1> QED
  BY <1>1, <1>2, <1>3, <1>4 DEF resolveDedupeKey

LEMMA StartTombstoneSerial ==
  ASSUME SerialInv, NoWriter, StartTombstone(known), TombstoneOnly
  PROVE  Turn /\ UNCHANGED <<status, sources, index, dedupe, results>>
<1>1. PICK t \in TombstoneCalls, s \in Scopes, refs \in SUBSET known, policy \in Policies :
        TombstoneCall(t, s, refs, policy)
  BY DEF StartTombstone
<1>2. /\ UNCHANGED <<status, sources, index, dedupe, results>>
      /\ OnlyTombstone(t) /\ tombstones \in [TombstoneCalls -> TombstoneState]
  BY <1>1 DEF TombstoneCall, stores, NoWriter, OnlyTombstone, TombstonesIdle, SerialInv, SafetyInv,
       TypeInv, TypeOK, TombstoneTypeOK
<1>3. /\ \A v \in TombstoneCalls : v # t => tombstones'[v] = tombstones[v]
      /\ tombstones'[t].pc = "next" /\ tombstones'[t].scope = s
      /\ tombstones'[t].allObjects = list(s)
  <2> DEFINE u == [IdleTombstone EXCEPT !.pc = "next", !.scope = s, !.policy = policy,
                                        !.refs = refs, !.allObjects = list(s)]
  <2>1. tombstones' = [tombstones EXCEPT ![t] = u]
    BY <1>1 DEF TombstoneCall
  <2>2. u.pc = "next" /\ u.scope = s /\ u.allObjects = list(s)
    BY DEF IdleTombstone
  <2> HIDE DEF u
  <2> QED
    BY <1>2, <2>1, <2>2
<1>4. TombstoneSees(t)'
  BY <1>2, <1>3 DEF TombstoneSees, list, Exists
<1> QED
  BY <1>2, <1>3, <1>4, TombstoneTurn

LEMMA StartConsolidateSerial ==
  ASSUME SerialInv, NoWriter, StartConsolidate, ConsolidateOnly
  PROVE  Turn /\ UNCHANGED <<status, sources, index, dedupe>>
<1>1. PICK c \in ConsolidateCalls, s \in Scopes : ListSources(c, s)
  BY DEF StartConsolidate
<1>2. /\ UNCHANGED <<status, sources, index, dedupe>>
      /\ OnlyConsolidate(c) /\ consolidations \in [ConsolidateCalls -> ConsolidateState]
  BY <1>1 DEF ListSources, NoWriter, OnlyConsolidate, ConsolidationsIdle, SerialInv, SafetyInv,
       TypeInv, TypeOK, ConsolidateTypeOK
<1>3. PICK con \in randomId("consolidation", s) :
        consolidations' = [consolidations EXCEPT ![c] =
          [IdleConsolidate EXCEPT !.pc = "upsert", !.con = con,
                                  !.sources = consolidatable(s)]]
  BY <1>1 DEF ListSources
<1>4. /\ \A d \in ConsolidateCalls : d # c => consolidations'[d] = consolidations[d]
      /\ consolidations'[c].pc = "upsert" /\ consolidations'[c].sources = consolidatable(s)
  BY <1>2, <1>3 DEF IdleConsolidate
<1>5. ConsolidateSees(c)'
  BY <1>2, <1>4 DEF ConsolidateSees, consolidatable
<1> QED
  BY <1>2, <1>4, <1>5, ConsolidateTurn

-----------------------------------------------------------------------------
(* Every step preserves the invariant.                                     *)

\* What a step of a writer has to show.
LEMMA WriterStep ==
  ASSUME SerialInv, SafetyInv', Turn, TombstonesFinal, KeysNamed',
         DeletedIsTombstoned', CascadeReachesScope', UNCHANGED queries
  PROVE  SerialInv'
BY QueriesHide DEF SerialInv, Turn

\* A step that touches neither the writers nor what they answered.
LEMMA NoWriterStep ==
  ASSUME SerialInv, SafetyInv',
         UNCHANGED <<stores, ingests, answers, tombstones, results, consolidations>>,
         \A q \in QueryCalls : QueryHides(q)'
  PROVE  SerialInv' /\ TombstonesFinal /\ (IndexKept => IndexKept')
<1>1. OneWriter'
  BY DEF SerialInv, OneWriter, OnlyIngest, OnlyTombstone, OnlyConsolidate, IngestsIdle,
       TombstonesIdle, ConsolidationsIdle
<1>2. /\ \A p \in IngestCalls : IngestSees(p)'
      /\ \A t \in TombstoneCalls : TombstoneSees(t)'
      /\ \A c \in ConsolidateCalls : ConsolidateSees(c)'
  BY DEF SerialInv, IngestSees, TombstoneSees, ConsolidateSees, Reaching, list, Exists, stores
<1>3. KeysNamed' /\ DeletedIsTombstoned' /\ CascadeReachesScope' /\ TombstonesFinal
  BY DEF SerialInv, KeysNamed, DeletedIsTombstoned, gone, CascadeReachesScope, TombstonesFinal, stores
<1>4. IndexKept => IndexKept'
  BY DEF IndexKept, IngestCarries, TombstoneCarries, ConsolidateCarries, Indexed, Indexable, stores
<1> QED
  BY <1>1, <1>2, <1>3, <1>4 DEF SerialInv

LEMMA QueryHidesNext ==
  ASSUME SerialInv, StartQuery(known, gone) \/ \E q \in QueryCalls : QueryStep(q)
  PROVE  UNCHANGED stores /\ \A q \in QueryCalls : QueryHides(q)'
<1>0. /\ queries \in [QueryCalls -> QueryState]
      /\ \A q \in QueryCalls : QueryHides(q) /\ queries[q] \in QueryState
      /\ \A r \in gone : status[r] = "tombstoned"
  BY DEF SerialInv, SafetyInv, TypeInv, TypeOK, QueryTypeOK, DeletedIsTombstoned
<1>1. ASSUME NEW q \in QueryCalls, NEW s \in Scopes, NEW shown \in Filters,
             SearchIndex(q, s, shown, gone)
      PROVE  UNCHANGED stores /\ \A x \in QueryCalls : QueryHides(x)'
  <2>1. /\ UNCHANGED stores
        /\ \A x \in QueryCalls : x # q => queries'[x] = queries[x]
        /\ queries'[q].gone = gone /\ queries'[q].refs = {}
    BY <1>0, <1>1 DEF SearchIndex, IdleQuery
  <2> QED
    BY <1>0, <2>1 DEF QueryHides, stores
<1>2. ASSUME NEW q \in QueryCalls, NEW refs \in SUBSET known, Hydrate(q, refs, gone)
      PROVE  UNCHANGED stores /\ \A x \in QueryCalls : QueryHides(x)'
  <2>1. /\ UNCHANGED stores
        /\ \A x \in QueryCalls : x # q => queries'[x] = queries[x]
        /\ queries'[q].gone = gone
        /\ \A r \in queries'[q].refs : status[r] # "tombstoned"
    BY <1>0, <1>2 DEF Hydrate, IdleQuery
  <2> QED
    BY <1>0, <2>1 DEF QueryHides, stores
<1>3. ASSUME NEW q \in QueryCalls, ReadCandidates(q)
      PROVE  UNCHANGED stores /\ \A x \in QueryCalls : QueryHides(x)'
  <2>1. queries' = [queries EXCEPT ![q] =
          [@ EXCEPT !.pc = "return", !.candidates = {},
                    !.refs = {r \in queries[q].candidates : Visible(r, queries[q].shown)}]]
    BY <1>3 DEF ReadCandidates
  <2>2. /\ UNCHANGED stores
        /\ \A x \in QueryCalls : x # q => queries'[x] = queries[x]
        /\ queries'[q].gone = queries[q].gone /\ queries'[q].shown = queries[q].shown
        /\ \A r \in queries'[q].refs : Visible(r, queries[q].shown)
    BY <1>0, <1>3, <2>1 DEF ReadCandidates, QueryState
  <2> QED
    BY <1>0, <2>2 DEF QueryHides, Visible, stores
<1>4. ASSUME NEW q \in QueryCalls, ReturnQuery(q)
      PROVE  UNCHANGED stores /\ \A x \in QueryCalls : QueryHides(x)'
  <2>1. /\ UNCHANGED stores
        /\ \A x \in QueryCalls : x # q => queries'[x] = queries[x]
        /\ queries'[q].gone = {}
    BY <1>0, <1>4 DEF ReturnQuery, IdleQuery
  <2> QED
    BY <1>0, <2>1 DEF QueryHides, stores
<1> QED
  BY <1>1, <1>2, <1>3, <1>4 DEF StartQuery, QueryStep

\* The calls of the client are finitely many, and it awaits each before the next.
CallsAwaited ==
  /\ MaxInFlight = 1
  /\ IsFiniteSet(IngestCalls) /\ IsFiniteSet(TombstoneCalls)
  /\ IsFiniteSet(ConsolidateCalls) /\ IsFiniteSet(QueryCalls)

LEMMA SerialStart ==
  ASSUME CallsAwaited, SerialInv, SafetyInv', Start
  PROVE  SerialInv' /\ TombstonesFinal /\ (IndexKept => IndexKept')
<1>1. NoWriter
  BY IdleCalls DEF CallsAwaited, Start, NoWriter
<1>2. UNCHANGED <<status, sources>> =>
        TombstonesFinal /\ \A d \in Refs : \A s \in sources'[d] : s \in sources[d]
  BY DEF TombstonesFinal
<1>3. KeysNamed
  BY DEF SerialInv
<1>4. CASE StartIngest /\ IngestOnly
  <2>1. Turn /\ KeysNamed' /\ UNCHANGED <<status, sources, index, results, queries>>
    BY <1>1, <1>4, StartIngestSerial DEF IngestOnly, tombstoneVars
  <2> QED
    BY <1>1, <1>2, <2>1, AnswersStayTrue, WriterStep, IndexUntouched
<1>5. CASE StartTombstone(known) /\ TombstoneOnly
  <2>1. Turn /\ UNCHANGED <<status, sources, index, dedupe, results, answers, queries>>
    BY <1>1, <1>5, StartTombstoneSerial DEF TombstoneOnly, ingestVars
  <2>2. KeysNamed'
    BY <1>3, <2>1, KeysStayNamed
  <2> QED
    BY <1>1, <1>2, <2>1, <2>2, AnswersStayTrue, WriterStep, IndexUntouched
<1>6. CASE StartConsolidate /\ ConsolidateOnly
  <2>1. Turn /\ UNCHANGED <<status, sources, index, dedupe, results, answers, queries>>
    BY <1>1, <1>6, StartConsolidateSerial DEF ConsolidateOnly, ingestVars, tombstoneVars
  <2>2. KeysNamed'
    BY <1>3, <2>1, KeysStayNamed
  <2> QED
    BY <1>1, <1>2, <2>1, <2>2, AnswersStayTrue, WriterStep, IndexUntouched
<1>7. CASE StartQuery(known, gone) /\ QueryOnly
  BY <1>7, QueryHidesNext, NoWriterStep DEF QueryOnly, ingestVars, tombstoneVars
<1> QED
  BY <1>4, <1>5, <1>6, <1>7 DEF Start

LEMMA SerialStep ==
  ASSUME SerialInv, SafetyInv', Step
  PROVE  SerialInv' /\ TombstonesFinal /\ (IndexKept => IndexKept')
<1>1. ASSUME NEW p \in IngestCalls, IngestStep(p), IngestOnly
      PROVE  SerialInv' /\ TombstonesFinal /\ (IndexKept => IndexKept')
  <2>1. UNCHANGED <<results, queries>>
    BY <1>1 DEF IngestOnly, tombstoneVars
  <2>2. Turn /\ TombstonesFinal /\ KeysNamed' /\ IngestIndexes(p)
        /\ DeletedIsTombstoned' /\ CascadeReachesScope'
    BY <1>1, <2>1, IngestSerial, IngestTurn, AnswersStayTrue
  <2>3. IndexKept => IndexKept'
    BY <2>2 DEF IngestIndexes, IndexKept
  <2> QED
    BY <2>1, <2>2, <2>3, WriterStep
<1>2. ASSUME NEW t \in TombstoneCalls, TombstoneStep(t), TombstoneOnly
      PROVE  SerialInv' /\ TombstonesFinal /\ (IndexKept => IndexKept')
  <2>1. UNCHANGED <<answers, queries>>
    BY <1>2 DEF TombstoneOnly, ingestVars
  <2>2. Turn /\ TombstonesFinal /\ TombstoneIndexes(t)
        /\ DeletedIsTombstoned' /\ CascadeReachesScope' /\ UNCHANGED dedupe
    BY <1>2, TombstoneSerial, TombstoneTurn
  <2>3. KeysNamed'
    BY <2>1, <2>2, KeysStayNamed DEF SerialInv
  <2>4. IndexKept => IndexKept'
    BY <2>2 DEF TombstoneIndexes, IndexKept
  <2> QED
    BY <2>1, <2>2, <2>3, <2>4, WriterStep
<1>3. ASSUME NEW c \in ConsolidateCalls, ConsolidateStep(c), ConsolidateOnly
      PROVE  SerialInv' /\ TombstonesFinal /\ (IndexKept => IndexKept')
  <2>1. UNCHANGED <<answers, results, queries>>
    BY <1>3 DEF ConsolidateOnly, ingestVars, tombstoneVars
  <2>2. Turn /\ TombstonesFinal /\ ConsolidateIndexes(c) /\ UNCHANGED dedupe
        /\ DeletedIsTombstoned' /\ CascadeReachesScope'
    BY <1>3, <2>1, ConsolidateSerial, ConsolidateTurn, AnswersStayTrue
  <2>3. KeysNamed'
    BY <2>1, <2>2, KeysStayNamed DEF SerialInv
  <2>4. IndexKept => IndexKept'
    BY <2>2 DEF ConsolidateIndexes, IndexKept
  <2> QED
    BY <2>1, <2>2, <2>3, <2>4, WriterStep
<1>4. CASE \E q \in QueryCalls : QueryStep(q) /\ QueryOnly
  BY <1>4, QueryHidesNext, NoWriterStep DEF QueryOnly, ingestVars, tombstoneVars
<1> QED
  BY <1>1, <1>2, <1>3, <1>4 DEF Step

\* A call that fails leaves what it wrote, and forgets what it read.
LEMMA SerialAbandon ==
  ASSUME SerialInv, SafetyInv', Abandon
  PROVE  SerialInv' /\ TombstonesFinal
<1>0. /\ ingests \in [IngestCalls -> IngestState]
      /\ tombstones \in [TombstoneCalls -> TombstoneState]
      /\ consolidations \in [ConsolidateCalls -> ConsolidateState]
      /\ KeysNamed
  BY DEF SerialInv, SafetyInv, TypeInv, TypeOK, IngestTypeOK, TombstoneTypeOK, ConsolidateTypeOK
<1>1. UNCHANGED <<status, sources, dedupe, results, answers, queries>>
  BY DEF Abandon, AbandonIngest, AbandonTombstone, AbandonConsolidate, IngestOnly, TombstoneOnly,
       ConsolidateOnly, stores, ingestVars, tombstoneVars
<1>2. TombstonesFinal /\ KeysNamed' /\ DeletedIsTombstoned' /\ CascadeReachesScope'
  BY <1>0, <1>1, KeysStayNamed, TombstoneWritesNothing
<1>3. ASSUME NEW p \in IngestCalls, AbandonIngest(p), IngestOnly
      PROVE  Turn
  <2>1. OnlyIngest(p)
    BY <1>3, IngestAlone DEF AbandonIngest
  <2>2. (\A q \in IngestCalls : q # p => ingests'[q] = ingests[q]) /\ ingests'[p].pc = "idle"
    BY <1>0, <1>3 DEF AbandonIngest, IdleIngest
  <2> QED
    BY <1>3, <2>1, <2>2, AtRest, IngestTurn
<1>4. ASSUME NEW t \in TombstoneCalls, AbandonTombstone(t), TombstoneOnly
      PROVE  Turn
  <2>1. OnlyTombstone(t)
    BY <1>4, TombstoneAlone DEF AbandonTombstone
  <2>2. /\ \A v \in TombstoneCalls : v # t => tombstones'[v] = tombstones[v]
        /\ tombstones'[t].pc = "idle"
    BY <1>0, <1>4 DEF AbandonTombstone, IdleTombstone
  <2> QED
    BY <1>4, <2>1, <2>2, AtRest, TombstoneTurn
<1>5. ASSUME NEW c \in ConsolidateCalls, AbandonConsolidate(c), ConsolidateOnly
      PROVE  Turn
  <2>1. OnlyConsolidate(c)
    BY <1>5, ConsolidateAlone DEF AbandonConsolidate
  <2>2. /\ \A d \in ConsolidateCalls : d # c => consolidations'[d] = consolidations[d]
        /\ consolidations'[c].pc = "idle"
    BY <1>0, <1>5 DEF AbandonConsolidate, IdleConsolidate
  <2> QED
    BY <1>5, <2>1, <2>2, AtRest, ConsolidateTurn
<1>6. Turn
  BY <1>3, <1>4, <1>5 DEF Abandon
<1> QED
  BY <1>1, <1>2, <1>6, WriterStep

LEMMA SerialInvInit == Init => SerialInv /\ IndexKept
<1> SUFFICES ASSUME Init PROVE SerialInv /\ IndexKept
  OBVIOUS
<1>1. /\ \A r \in Refs : status[r] = "absent" /\ sources[r] = {}
      /\ index = {} /\ \A s \in Scopes, k \in Keys : dedupe[<<s, k>>] = NoRef
      /\ \A p \in IngestCalls : ingests[p].pc = "idle"
      /\ \A c \in ConsolidateCalls : consolidations[c].pc = "idle"
      /\ \A q \in QueryCalls : queries[q].gone = {} /\ queries[q].refs = {}
      /\ answers = {} /\ results = {}
  BY DEF Init, StoresInit, IngestInit, TombstoneInit, ConsolidateInit, QueryInit, IdleIngest,
       IdleConsolidate, IdleQuery
<1>2. \A t \in TombstoneCalls : tombstones[t].pc = "idle"
  <2>1. IdleTombstone.pc = "idle"
    BY DEF IdleTombstone
  <2> QED
    BY <2>1 DEF Init, TombstoneInit
<1>3. OneWriter
  BY <1>1, <1>2 DEF OneWriter
<1>4. /\ \A p \in IngestCalls : IngestSees(p)
      /\ \A t \in TombstoneCalls : TombstoneSees(t)
      /\ \A c \in ConsolidateCalls : ConsolidateSees(c)
  BY <1>1, <1>2 DEF IngestSees, TombstoneSees, ConsolidateSees
<1>5. /\ KeysNamed /\ DeletedIsTombstoned /\ CascadeReachesScope
      /\ \A q \in QueryCalls : QueryHides(q)
  BY <1>1 DEF KeysNamed, DeletedIsTombstoned, gone, CascadeReachesScope, QueryHides
<1>6. IndexKept
  BY <1>1 DEF IndexKept, Indexed, Indexable
<1> QED
  BY <1>3, <1>4, <1>5, <1>6, SafetyInvInit DEF SerialInv

LEMMA SerialInvNext ==
  ASSUME CallsAwaited, SerialInv, [Next]_vars
  PROVE  SerialInv' /\ TombstonesFinal /\ (IndexKept /\ ~MayFail => IndexKept')
<1>1. SafetyInv'
  BY SafetyInvNext DEF SerialInv
<1>2. CASE Start
  BY <1>1, <1>2, SerialStart
<1>3. CASE Step
  BY <1>1, <1>3, SerialStep
<1>4. CASE Abandon
  <2>1. MayFail
    BY <1>4 DEF Abandon
  <2> QED
    BY <1>1, <1>4, <2>1, SerialAbandon
<1>5. CASE UNCHANGED vars
  <2>1. /\ UNCHANGED <<stores, ingests, answers, tombstones, results, consolidations>>
        /\ UNCHANGED queries /\ TombstonesFinal
    BY <1>5 DEF vars, ingestVars, tombstoneVars, TombstonesFinal, stores
  <2>2. \A q \in QueryCalls : QueryHides(q)'
    BY <2>1, QueriesHide
  <2> QED
    BY <1>1, <2>1, <2>2, NoWriterStep
<1> QED
  BY <1>2, <1>3, <1>4, <1>5 DEF Next

\* The invariant holds for every client that awaits its calls, whether they fail or not.
THEOREM SerialCorrect ==
  ASSUME CallsAwaited
  PROVE  Spec => []SerialInv
<1>1. SerialInv /\ [Next]_vars => SerialInv'
  BY SerialInvNext
<1>2. Init => SerialInv
  BY SerialInvInit
<1> QED
  BY <1>1, <1>2, PTL DEF Spec

-----------------------------------------------------------------------------
(* What it says of the service.                                            *)

\* Nothing brings deleted memory back if each call is awaited before the next begins:
\* every write of an object follows a read of it in the same call (service.ts 681-773).
THEOREM TombstonesStay ==
  ASSUME CallsAwaited
  PROVE  Spec => TombstoneIsFinal
<1>1. SerialInv /\ [Next]_vars =>
        [\A r \in Refs : status[r] = "tombstoned" => status'[r] = "tombstoned"]_vars
  BY SerialInvNext DEF TombstonesFinal
<1> QED
  BY <1>1, SerialCorrect, PTL DEF Spec, TombstoneIsFinal

\* All answers to a scope's dedupe key name one episode, even when an ingest failed
\* between storing the key and its answer (service.ts 95-134).
THEOREM KeyNamesOneEpisode ==
  ASSUME CallsAwaited
  PROVE  Spec => []OneEpisodePerKey
<1>1. SerialInv => OneEpisodePerKey
  BY DEF SerialInv, KeysNamed, OneEpisodePerKey
<1> QED
  BY <1>1, SerialCorrect, PTL

\* A deletion answered under tombstone_derived leaves nothing derived from the ref in
\* the scope of the request, then or later (service.ts 653-730).
THEOREM CascadeIsComplete ==
  ASSUME CallsAwaited
  PROVE  Spec => []CascadeReachesScope
<1>1. SerialInv => CascadeReachesScope
  BY DEF SerialInv
<1> QED
  BY <1>1, SerialCorrect, PTL

\* What was deleted before a query or hydrate began is not in its answer, unless the
\* query asks for tombstoned memory (service.ts 218-281).
THEOREM DeletedIsHidden ==
  ASSUME CallsAwaited
  PROVE  Spec => []DeletedStaysHidden
<1>1. SerialInv => DeletedStaysHidden
  BY DEF SerialInv, QueryHides, DeletedStaysHidden
<1> QED
  BY <1>1, SerialCorrect, PTL

\* If no call fails, the index holds between calls exactly the memory that is neither
\* superseded nor tombstoned.
THEOREM IndexStaysExact ==
  ASSUME CallsAwaited, ~MayFail
  PROVE  Spec => []IndexIsExact
<1>1. SerialInv /\ IndexKept => IndexIsExact
  <2> SUFFICES ASSUME SerialInv, IndexKept, InFlight = 0
               PROVE  index = {r \in Refs : status[r] \in {"active", "disputed", "pending"}}
    BY DEF IndexIsExact
  <2>1. NoWriter
    BY IdleCalls DEF CallsAwaited, NoWriter
  <2>2. \A r \in Refs : Indexed(r)
    BY <2>1, IndexAtRest
  <2>3. index \subseteq Refs
    BY DEF SerialInv, SafetyInv, TypeInv, TypeOK, StoresTypeOK
  <2> QED
    BY <2>2, <2>3 DEF Indexed, Indexable
<1>2. SerialInv /\ IndexKept /\ [Next]_vars => IndexKept'
  BY SerialInvNext
<1>3. Init => IndexKept
  BY SerialInvInit
<1> QED
  BY <1>1, <1>2, <1>3, SerialCorrect, PTL DEF Spec
=============================================================================
