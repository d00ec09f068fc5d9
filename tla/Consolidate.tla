---------------------------- MODULE Consolidate -----------------------------
(***************************************************************************)
(* executeConsolidateJob and applySupersession (service.ts 519-637,        *)
(* 732-763) with the bundled consolidator (SimpleConsolidatorPlugin): one  *)
(* consolidation merging every source, superseding the episodes among them,*)
(* and no links.  The job record and its events are in module JobRunner.   *)
(***************************************************************************)
EXTENDS MemoryStores

CONSTANT ConsolidateCalls  \* consolidations that may be in progress at once

VARIABLE consolidations    \* the local state of each consolidation

ConsolidatePcs == {"idle", "upsert", "index", "supersede", "supersedePut",
                   "unindex", "link", "event"}

ConsolidateState == [pc : ConsolidatePcs, con : Refs \cup {NoRef}, sources : SUBSET Refs,
                     left : SUBSET Refs, ref : Refs \cup {NoRef}]

ConsolidateTypeOK == consolidations \in [ConsolidateCalls -> ConsolidateState]

IdleConsolidate == [pc |-> "idle", con |-> NoRef, sources |-> {}, left |-> {},
                    ref |-> NoRef]

ConsolidateInit == consolidations = [c \in ConsolidateCalls |-> IdleConsolidate]

\* Mutant: only what was extracted is merged.
consolidatableAtoms(scope) == {r \in list(scope) : status[r] # "tombstoned" /\ r.type = "atom"}

\* What consolidate() is given: links are not modelled as objects.
consolidatable(scope) == {r \in list(scope) : status[r] # "tombstoned"}

\* What SimpleConsolidatorPlugin supersedes.
supersedes(merged) == {r \in merged : r.type = "episode"}

NextSuperseded(c, left) ==
  consolidations' = [consolidations EXCEPT ![c] =
    IF left = {} THEN IdleConsolidate
    ELSE [@ EXCEPT !.pc = "supersede", !.left = left, !.ref = NoRef]]

-----------------------------------------------------------------------------
\* Reads the sources; the consolidator runs on what was read.  With no source
\* there is no output and the job completes at once.
ListSources(c, scope) ==
  /\ consolidations[c].pc = "idle"
  /\ consolidatable(scope) # {}
  /\ \E con \in randomId("consolidation", scope) :
       /\ minted' = minted \cup {con}
       /\ consolidations' = [consolidations EXCEPT ![c] =
            [IdleConsolidate EXCEPT !.pc = "upsert", !.con = con,
                                    !.sources = consolidatable(scope)]]
  /\ UNCHANGED <<status, sources, episodeRow, dedupe, index, links, events>>

UpsertConsolidation(c) ==
  /\ consolidations[c].pc = "upsert"
  /\ upsert(consolidations[c].con, "active")
  /\ sources' = [sources EXCEPT ![consolidations[c].con] = consolidations[c].sources]
  /\ consolidations' = [consolidations EXCEPT ![c].pc = "index"]
  /\ UNCHANGED <<minted, episodeRow, dedupe, index, links, events>>

IndexConsolidation(c) ==
  /\ consolidations[c].pc = "index"
  /\ indexMemory(consolidations[c].con)
  /\ NextSuperseded(c, supersedes(consolidations[c].sources))
  /\ UNCHANGED <<status, sources, minted, episodeRow, dedupe, links, events>>

\* Mutant: a tombstoned ref is skipped without going on to the next.
SupersedeGetStuck(c) ==
  /\ consolidations[c].pc = "supersede"
  /\ \E r \in consolidations[c].left :
       IF ~Exists(r) \/ status[r] = "tombstoned"
       THEN NextSuperseded(c, consolidations[c].left)
       ELSE consolidations' = [consolidations EXCEPT ![c] =
              [@ EXCEPT !.pc = "supersedePut", !.ref = r]]
  /\ UNCHANGED stores

\* applySupersession reads each ref, skips it if it is tombstoned, and in later
\* steps writes it back as superseded, unindexes it, links it and reports it.
SupersedeGet(c) ==
  /\ consolidations[c].pc = "supersede"
  /\ \E r \in consolidations[c].left :
       IF ~Exists(r) \/ status[r] = "tombstoned"
       THEN NextSuperseded(c, consolidations[c].left \ {r})
       ELSE consolidations' = [consolidations EXCEPT ![c] =
              [@ EXCEPT !.pc = "supersedePut", !.ref = r]]
  /\ UNCHANGED stores

\* Mutant: the object is written back with its first status.
SupersedePutActive(c) ==
  /\ consolidations[c].pc = "supersedePut"
  /\ upsert(consolidations[c].ref, "active")
  /\ consolidations' = [consolidations EXCEPT ![c].pc = "unindex"]
  /\ UNCHANGED <<sources, minted, episodeRow, dedupe, index, links, events>>

SupersedePut(c) ==
  /\ consolidations[c].pc = "supersedePut"
  /\ upsert(consolidations[c].ref, "superseded")
  /\ consolidations' = [consolidations EXCEPT ![c].pc = "unindex"]
  /\ UNCHANGED <<sources, minted, episodeRow, dedupe, index, links, events>>

UnindexSuperseded(c) ==
  /\ consolidations[c].pc = "unindex"
  /\ removeIndexed(consolidations[c].ref)
  /\ consolidations' = [consolidations EXCEPT ![c].pc = "link"]
  /\ UNCHANGED <<status, sources, minted, episodeRow, dedupe, links, events>>

\* addLink and the link's own row in the object store.
LinkSuperseded(c) ==
  /\ consolidations[c].pc = "link"
  /\ addLink("supersedes", consolidations[c].con, consolidations[c].ref)
  /\ consolidations' = [consolidations EXCEPT ![c].pc = "event"]
  /\ UNCHANGED <<status, sources, minted, episodeRow, dedupe, index, events>>

ReportSuperseded(c) ==
  /\ consolidations[c].pc = "event"
  /\ appendEvent("memory.superseded", consolidations[c].ref)
  /\ NextSuperseded(c, consolidations[c].left \ {consolidations[c].ref})
  /\ UNCHANGED <<status, sources, minted, episodeRow, dedupe, index, links>>

\* A store call throws, and the job is recorded as failed; or the process dies.
AbandonConsolidate(c) ==
  /\ consolidations[c].pc # "idle"
  /\ consolidations' = [consolidations EXCEPT ![c] = IdleConsolidate]
  /\ UNCHANGED stores

-----------------------------------------------------------------------------
StartConsolidate == \E c \in ConsolidateCalls, s \in Scopes : ListSources(c, s)

ConsolidateStep(c) ==
  \/ UpsertConsolidation(c)
  \/ IndexConsolidation(c)
  \/ SupersedeGet(c)
  \/ SupersedePut(c)
  \/ UnindexSuperseded(c)
  \/ LinkSuperseded(c)
  \/ ReportSuperseded(c)
=============================================================================
