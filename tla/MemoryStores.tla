---------------------------- MODULE MemoryStores ----------------------------
(***************************************************************************)
(* The stores behind the runtime service: the object store (ref -> durable *)
(* object), the episode store with its dedupe index, the graph store, the  *)
(* search index and the lifecycle events, as the in-memory adapter         *)
(* implements them (adapters/inMemoryStores.ts).  Each operator below the  *)
(* line is one store call.  An operator commented "Mutant:" is a bug the   *)
(* code might have had; no definition uses it (see README.md).             *)
(*                                                                         *)
(* A MemoryRef is a record [id, type, scope]; the id is random, so distinct*)
(* refs differ in the key "type:id" the stores use.  Of an object only its *)
(* status ever changes after it is created: every later upsert writes      *)
(* {...object, status}.  Text, metadata, confidence and times are left out.*)
(***************************************************************************)
EXTENDS FiniteSets, Naturals

CONSTANTS
  Scopes,     \* the scopes in use, "*" standing for an absent agent or session
  Refs,       \* the refs randomId can return; bounds the objects ever created
  NoRef,      \* no ref
  Keys,       \* dedupe keys
  NoKey       \* an episode ingested without a dedupe key

Types == {"episode", "atom", "consolidation"}
Statuses == {"absent", "active", "disputed", "superseded", "tombstoned", "pending"}
EventTypes == {"episode.ingested", "memory.superseded", "memory.disputed",
               "memory.tombstoned"}

ASSUME ScopesAssumption == Scopes # {}
ASSUME RefsAssumption ==
  /\ \A r \in Refs : r.type \in Types /\ r.scope \in Scopes
  /\ NoRef \notin Refs
ASSUME KeysAssumption == NoKey \notin Keys

VARIABLES
  status,     \* object store: the status of each object, "absent" without a row
  sources,    \* object store: provenance.sourceRefs of each object
  minted,     \* the ids randomId has returned
  episodeRow, \* episode store: the status it holds of each episode
  dedupe,     \* episode store: the episode of each scope and dedupe key, or NoRef
  index,      \* index store: the refs indexed
  links,      \* graph store: links, as [linkType, from, to]
  events      \* metadata store: lifecycle events about a ref, as [type, ref]

stores == <<status, sources, minted, episodeRow, dedupe, index, links, events>>

StoresTypeOK ==
  /\ status \in [Refs -> Statuses]
  /\ sources \in [Refs -> SUBSET Refs]
  /\ minted \subseteq Refs
  /\ episodeRow \in [Refs -> {"absent", "active", "tombstoned"}]
  /\ dedupe \in [Scopes \X Keys -> Refs \cup {NoRef}]
  /\ index \subseteq Refs
  /\ links \subseteq [linkType : {"derived_from", "supersedes", "contradicts"},
                      from : Refs, to : Refs]
  /\ events \subseteq [type : EventTypes, ref : Refs]

StoresInit ==
  /\ status = [r \in Refs |-> "absent"]
  /\ sources = [r \in Refs |-> {}]
  /\ minted = {}
  /\ episodeRow = [r \in Refs |-> "absent"]
  /\ dedupe = [k \in Scopes \X Keys |-> NoRef]
  /\ index = {}
  /\ links = {}
  /\ events = {}

-----------------------------------------------------------------------------
(* Reads.                                                                  *)

\* Is an object of scope s read by a request of scope t?  An absent agent or
\* session in the request matches every object.
matchesScope(s, t) ==
  /\ s.space = t.space
  /\ t.agent \in {"*", s.agent}
  /\ t.session \in {"*", s.session}

Exists(r) == status[r] # "absent"

\* Mutant: lists the objects of the very scope, as a lookup by scope key does.
listExact(scope) == {r \in Refs : Exists(r) /\ r.scope = scope}
list(scope) == {r \in Refs : Exists(r) /\ matchesScope(r.scope, scope)}

\* search, for a text every entry matches and a limit nothing exceeds.
search(scope) == {r \in index : matchesScope(r.scope, scope)}

Visible(r, shown) ==
  /\ Exists(r)
  /\ status[r] \in {"tombstoned", "disputed", "superseded"} => status[r] \in shown

randomId(type, scope) ==
  {r \in Refs \ minted : r.type = type /\ r.scope = scope}

-----------------------------------------------------------------------------
(* Writes: each is one awaited store call.                                 *)

upsert(r, s) == status' = [status EXCEPT ![r] = s]

\* Mutant: the entries are keyed by type.
indexMemoryByType(r) == index' = {x \in index : x.type # r.type} \cup {r}
indexMemory(r) == index' = index \cup {r}

\* Mutant: deletes under a key nothing is stored under.
removeIndexedMissed(r) == UNCHANGED index
removeIndexed(r) == index' = index \ {r}

addLink(type, from, to) ==
  links' = links \cup {[linkType |-> type, from |-> from, to |-> to]}
appendEvent(type, r) == events' = events \cup {[type |-> type, ref |-> r]}

\* Mutant: the dedupe key is not stored.
appendEpisodeUnkeyed(e, key) ==
  /\ episodeRow' = [episodeRow EXCEPT ![e] = "active"]
  /\ UNCHANGED dedupe

\* The dedupe entry of a scope's key is the last episode appended under it.
appendEpisode(e, key) ==
  /\ episodeRow' = [episodeRow EXCEPT ![e] = "active"]
  /\ dedupe' = IF key = NoKey THEN dedupe ELSE [dedupe EXCEPT ![<<e.scope, key>>] = e]

\* An episode the store does not hold is answered "not_found".
tombstoneEpisode(e) ==
  episodeRow' = [episodeRow EXCEPT ![e] = IF @ = "absent" THEN @ ELSE "tombstoned"]
=============================================================================
