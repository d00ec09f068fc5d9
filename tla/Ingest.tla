------------------------------- MODULE Ingest -------------------------------
(***************************************************************************)
(* MemoryRuntimeService.ingest (service.ts 88-216) and the link side       *)
(* effects it applies.  One call ingests one episode: the loop over        *)
(* request.episodes handles each in turn and keeps nothing between two.    *)
(* Every action is one awaited store call with the code up to the next     *)
(* one, so calls interleave where the service awaits.                      *)
(***************************************************************************)
EXTENDS MemoryStores

CONSTANTS
  IngestCalls,   \* ingest calls that may be in progress at once
  MaxAtoms,      \* atoms an extractor returns for one episode (24 in plugins.ts)
  Contradicts    \* the contradicts links an extractor may report, as <<from, to>>

ASSUME ContradictsAssumption == Contradicts \subseteq Refs \X Refs

VARIABLES
  ingests,       \* the local state of each ingest call
  answers        \* what ingest has answered, as [result, key, ref]

ingestVars == <<ingests, answers>>

IngestPcs == {"idle", "append", "upsert", "index", "atom", "atomIndex", "atomLink",
              "link", "disputeGet", "disputePut", "disputeEvent", "event"}

IngestState == [pc : IngestPcs, ref : Refs \cup {NoRef}, key : Keys \cup {NoKey},
                atoms : SUBSET Refs, atom : Refs \cup {NoRef},
                drafts : SUBSET Contradicts, sides : SUBSET Refs]

IngestTypeOK ==
  /\ ingests \in [IngestCalls -> IngestState]
  /\ answers \subseteq [result : {"created", "deduplicated"},
                        key : Keys \cup {NoKey}, ref : Refs]

IdleIngest == [pc |-> "idle", ref |-> NoRef, key |-> NoKey, atoms |-> {},
               atom |-> NoRef, drafts |-> {}, sides |-> {}]

IngestInit ==
  /\ ingests = [p \in IngestCalls |-> IdleIngest]
  /\ answers = {}

answer(result, key, r) ==
  answers' = answers \cup {[result |-> result, key |-> key, ref |-> r]}

\* Where the two loops over the extractor's output go next.
NextDraft(atoms, drafts) ==
  IF atoms # {} THEN "atom" ELSE IF drafts # {} THEN "link" ELSE "event"
NextSide(sides, drafts) ==
  IF sides # {} THEN "disputeGet" ELSE NextDraft({}, drafts)

-----------------------------------------------------------------------------
\* The lookup of the dedupe key.  A hit whose content differs is answered with
\* an error and changes nothing, like any other request that fails before its
\* first write.
resolveDedupeKey(p, scope, key) ==
  /\ ingests[p].pc = "idle"
  /\ LET hit == IF key = NoKey THEN NoRef ELSE dedupe[<<scope, key>>]
     IN \/ hit # NoRef /\ answer("deduplicated", key, hit) /\ UNCHANGED <<minted, ingests>>
        \/ /\ hit = NoRef
           /\ \E e \in randomId("episode", scope) :
                /\ minted' = minted \cup {e}
                /\ ingests' = [ingests EXCEPT ![p] =
                     [IdleIngest EXCEPT !.pc = "append", !.ref = e, !.key = key]]
           /\ UNCHANGED answers
  /\ UNCHANGED <<status, sources, episodeRow, dedupe, index, links, events>>

\* Mutant: the object store is not written.
StoreEpisodeOnly(p) ==
  /\ ingests[p].pc = "append"
  /\ appendEpisode(ingests[p].ref, ingests[p].key)
  /\ ingests' = [ingests EXCEPT ![p].pc = "index"]
  /\ UNCHANGED <<status, sources, minted, index, links, events, answers>>

StoreEpisode(p) ==
  /\ ingests[p].pc = "append"
  /\ appendEpisode(ingests[p].ref, ingests[p].key)
  /\ ingests' = [ingests EXCEPT ![p].pc = "upsert"]
  /\ UNCHANGED <<status, sources, minted, index, links, events, answers>>

UpsertEpisode(p) ==
  /\ ingests[p].pc = "upsert"
  /\ upsert(ingests[p].ref, "active")
  /\ ingests' = [ingests EXCEPT ![p].pc = "index"]
  /\ UNCHANGED <<sources, minted, episodeRow, dedupe, index, links, events, answers>>

\* The links an extractor can report now: between objects it can have seen.
Contradicting == {draft \in Contradicts : Exists(draft[1]) /\ Exists(draft[2])}

\* Indexes the episode; the extractor then returns atoms and contradicts links.
IndexEpisode(p) ==
  /\ ingests[p].pc = "index"
  /\ indexMemory(ingests[p].ref)
  /\ \E atoms \in SUBSET randomId("atom", ingests[p].ref.scope),
        drafts \in SUBSET Contradicting :
       /\ Cardinality(atoms) <= MaxAtoms
       /\ minted' = minted \cup atoms
       /\ ingests' = [ingests EXCEPT ![p] =
            [@ EXCEPT !.pc = NextDraft(atoms, drafts), !.atoms = atoms, !.drafts = drafts]]
  /\ UNCHANGED <<status, sources, episodeRow, dedupe, links, events, answers>>

UpsertAtom(p) ==
  /\ ingests[p].pc = "atom"
  /\ \E a \in ingests[p].atoms :
       /\ upsert(a, "active")
       /\ sources' = [sources EXCEPT ![a] = {ingests[p].ref}]
       /\ ingests' = [ingests EXCEPT ![p] =
            [@ EXCEPT !.pc = "atomIndex", !.atom = a, !.atoms = ingests[p].atoms \ {a}]]
  /\ UNCHANGED <<minted, episodeRow, dedupe, index, links, events, answers>>

\* Mutant: the atom is forgotten before it is linked.
IndexAtomForgotten(p) ==
  /\ ingests[p].pc = "atomIndex"
  /\ indexMemory(ingests[p].atom)
  /\ ingests' = [ingests EXCEPT ![p] = [@ EXCEPT !.pc = "atomLink", !.atom = NoRef]]
  /\ UNCHANGED <<status, sources, minted, episodeRow, dedupe, links, events, answers>>

IndexAtom(p) ==
  /\ ingests[p].pc = "atomIndex"
  /\ indexMemory(ingests[p].atom)
  /\ ingests' = [ingests EXCEPT ![p].pc = "atomLink"]
  /\ UNCHANGED <<status, sources, minted, episodeRow, dedupe, links, events, answers>>

createDerivedLink(p) ==
  /\ ingests[p].pc = "atomLink"
  /\ addLink("derived_from", ingests[p].atom, ingests[p].ref)
  /\ ingests' = [ingests EXCEPT ![p] =
       [@ EXCEPT !.pc = NextDraft(ingests[p].atoms, ingests[p].drafts), !.atom = NoRef]]
  /\ UNCHANGED <<status, sources, minted, episodeRow, dedupe, index, events, answers>>

\* addLink and the link's own row in the object store.
AddContradicts(p) ==
  /\ ingests[p].pc = "link"
  /\ \E draft \in ingests[p].drafts :
       /\ addLink("contradicts", draft[1], draft[2])
       /\ ingests' = [ingests EXCEPT ![p] =
            [@ EXCEPT !.pc = "disputeGet", !.drafts = ingests[p].drafts \ {draft},
                      !.sides = {draft[1], draft[2]}]]
  /\ UNCHANGED <<status, sources, minted, episodeRow, dedupe, index, events, answers>>

\* applyLinkSideEffects: each end of the link that is active becomes disputed,
\* in a read, a write and an event.
DisputeGet(p) ==
  /\ ingests[p].pc = "disputeGet"
  /\ \E r \in ingests[p].sides :
       LET rest == ingests[p].sides \ {r}
       IN ingests' = [ingests EXCEPT ![p] =
            IF status[r] = "active" THEN [@ EXCEPT !.pc = "disputePut", !.atom = r]
            ELSE [@ EXCEPT !.sides = rest,
                    !.pc = NextSide(rest, ingests[p].drafts)]]
  /\ UNCHANGED <<stores, answers>>

DisputePut(p) ==
  /\ ingests[p].pc = "disputePut"
  /\ upsert(ingests[p].atom, "disputed")
  /\ ingests' = [ingests EXCEPT ![p].pc = "disputeEvent"]
  /\ UNCHANGED <<sources, minted, episodeRow, dedupe, index, links, events, answers>>

DisputeEvent(p) ==
  /\ ingests[p].pc = "disputeEvent"
  /\ appendEvent("memory.disputed", ingests[p].atom)
  /\ LET rest == ingests[p].sides \ {ingests[p].atom}
     IN ingests' = [ingests EXCEPT ![p] =
          [@ EXCEPT !.sides = rest, !.atom = NoRef,
             !.pc = NextSide(rest, ingests[p].drafts)]]
  /\ UNCHANGED <<status, sources, minted, episodeRow, dedupe, index, links, answers>>

AnswerCreated(p) ==
  /\ ingests[p].pc = "event"
  /\ appendEvent("episode.ingested", ingests[p].ref)
  /\ answer("created", ingests[p].key, ingests[p].ref)
  /\ ingests' = [ingests EXCEPT ![p] = IdleIngest]
  /\ UNCHANGED <<status, sources, minted, episodeRow, dedupe, index, links>>

\* A store call or a plugin throws, or the process dies: the catch answers
\* "rejected" and what was written so far stays.
AbandonIngest(p) ==
  /\ ingests[p].pc # "idle"
  /\ ingests' = [ingests EXCEPT ![p] = IdleIngest]
  /\ UNCHANGED <<stores, answers>>

-----------------------------------------------------------------------------
StartIngest == \E p \in IngestCalls, s \in Scopes, k \in Keys \cup {NoKey} :
                 resolveDedupeKey(p, s, k)

IngestStep(p) ==
  \/ StoreEpisode(p)
  \/ UpsertEpisode(p)
  \/ IndexEpisode(p)
  \/ UpsertAtom(p)
  \/ IndexAtom(p)
  \/ createDerivedLink(p)
  \/ AddContradicts(p)
  \/ DisputeGet(p)
  \/ DisputePut(p)
  \/ DisputeEvent(p)
  \/ AnswerCreated(p)
=============================================================================
