# Verification of infinicon

TLA+ specifications of the infinicon memory runtime, its plugin host, its HTTP API and SDK
and the chat built on them; the TLC configurations that check them on small instances; and
TLAPS proofs for every instance. Paths below are relative to the repository; `service.ts` is
`src/runtime/service.ts`, `inMemoryStores.ts` and `postgresStores.ts` are in
`src/runtime/adapters`, `pluginHost.ts` is in `packages/plugin-host/src`, `memorySession.ts`
in `examples/agent-chat/src`, and so on.

    tlc -workers 2 -config RuntimeSerial.cfg MCMemoryRuntime
    tlapm MemoryRuntimeProofs.tla

## 1. The system

Infinicon keeps memory for agents. A client ingests *episodes*; a plugin extracts
*atoms* from them; a job merges memory into *consolidations*, which supersede their
sources; a client queries, assembles context and deletes. Everything goes through
`MemoryRuntimeService`, which keeps no state of its own: its state is what it has
written to the stores, and where each call in progress has got to.

| Component | State it keeps | Operations | Talks to |
|---|---|---|---|
| Service: ingest (`service.ts` 88-216) | locals of each call | `ingest`, `createDerivedLink`, `applyLinkSideEffects` | all stores, embedder, extractor |
| Service: tombstone (457-478, 653-730) | locals; a snapshot of the scope | `tombstone`, the cascade | object, index, episode, event stores |
| Service: consolidation (392-414, 519-637, 732-763) | locals; what it read of the scope | `consolidate`, supersession | object, index, graph, job, event stores, consolidator |
| Service: query, hydrate (218-281) | locals of each call | `query`, `hydrate` | index and object store, retriever, ranker |
| Service: context (283-390) | locals of each call | `assembleContext` | query, hydrate, object store |
| Job runner (`jobRunner.ts`) | the timer; the batch in progress | `start`, `stop`, `processBatch` | metadata store, service |
| In-memory stores (`inMemoryStores.ts`) | maps of objects, dedupe keys, links, index entries, jobs, events | the ports of `ports.ts` | — |
| Postgres stores (`postgresStores.ts`) | one table per kind; objects, episodes and scopes share one | the same ports, statement by statement | Postgres |
| Event stream | events by scope, in order | `appendEvent`, `listEvents`, `subscribe` | clients, by cursor |
| Plugin host (`packages/plugin-host`) | two maps of registrations, a set of listeners | register, registerMany, unregister, clear, run, listen | plugins, listeners |
| HTTP transport, auth (`src/transport`) | none | one route per operation | service |
| SDK (`packages/sdk`) | none | one method per route, error parsing | transport |
| Agent chat (`examples/agent-chat`) | the turn, a count of turns | the loop of `main.ts`, `MemorySession` | SDK, a model, the user |
| Core types (`packages/core-types`) | none | types, validators, normalizers, conformance checks | — |

### What is hard about it

* **Concurrency.** One JavaScript thread, but every store call is awaited, so calls of
  several clients and of the job runner interleave at every `await`. There is no lock,
  no transaction and no compare-and-set: a status is read, and written back as
  `{...object, status}` in a later call. Over Postgres the calls interleave at every
  statement, each of which commits alone.
* **Partial failure.** An ingest makes at least five writes, a cascade four per object.
  When one throws, what was written stays, and the client retries against it.
* **Snapshots.** A cascade works from the scope as it was when it began, a
  consolidation from what it had listed before the consolidator ran, a context from what
  it hydrated.
* **Jobs.** The timer does not wait for the previous batch, `processJob` tests the status
  of the record it was handed rather than the stored one, and a process may die with a
  job stored as running.
* **Cursors.** A reader names the last event it was given. Rows of the event table get
  their ids in one order and become visible in another; the arrays in memory are gone after
  a restart, and the cursors are not.
* **Scopes.** A request sees the objects of its own and of narrower scopes; provenance
  crosses from narrower to wider and never back.
* **Re-entrance.** The plugin host calls its listeners from inside `register`,
  `registerMany`, `unregister` and `clear`; a listener may call the host back, and the
  handler of its errors may throw.
* **The network.** A response may be lost, or a request served after the process that sent
  it has died; the chat catches nothing and is started anew.

### What makes each component correct

* Ingest: one episode per dedupe key; what was answered is indexed; atoms point at the
  episode they were made from.
* Tombstone: deleted memory stays deleted and hidden; everything derived from it, at any
  depth, goes with it if asked; nothing else does.
* Consolidation: provenance names objects that exist and lie inside the scope; nothing
  that another call disputed or deleted becomes active again.
* Context: it fits its budget, passes the conformance check, and reports what is disputed,
  superseded, stale or left out.
* Query: what it returns was not deleted before it began; hidden entries do not displace
  visible ones.
* Jobs: a job is held by one worker, ends once and for good, and its events tell the end
  its record tells; each queued job ends some day, unless a crash takes it from its worker.
* Event stream: a cursor resumes the stream, with no repetition and no gap.
* Plugin host: its two maps agree, and a listener that hears everything knows what is
  registered.
* Chat, SDK and HTTP: a message is stored at most once and in its turn; an error of the API
  means it was not stored; what was deleted is not recalled, unless a call that had read it
  before wrote it back.

The hazards behind these, each at its line, are the `hazards` of `PROJECT.json`.

## 2. The modules

    MemoryStores          the stores and each store call, as operators
      Ingest  Tombstone  Consolidate  Query      one module per operation of the service
        MemoryRuntime     all of them over the same stores: Next, Spec, the properties
          MCMemoryRuntime       small sets of scopes and refs
          MemoryRuntimeProofs   theorems about types, provenance, statuses, the index, the end of calls
          SerialRuntimeProofs   theorems about calls made one at a time
    ContextAssembly       assembleContext while other calls write what it reads
      MCContextAssembly         three objects and six requests
      ContextAssemblyProofs     theorems
    JobLifecycle          what getJob promises of one job (abstract)
      JobRunner           job records, batches, requests, failures; implements it
        MCJobRunner             small sets of jobs and workers
        JobRunnerProofs         theorems
    EventFeed             what a subscriber is promised (abstract)
      EventStream         both adapters, and readers with cursors; in memory, implements it
        MCEventStream           four events, three readers
        EventStreamProofs       theorems
    SqlStores             ingest, tombstone and query over the Postgres tables
      MCSqlStores               a namespace and a session, two refs
      SqlStoresProofs           theorems
    PluginHost            the registry, its listeners and the calls they make
      MCPluginHost              four plugins, two listeners
      PluginHostProofs          theorems
    HttpApi               a call of the API as server and SDK see it
      AgentChat           the chat over it: processes, requests in flight, the memory
        MCAgentChat             a right and a wrong key
        AgentChatProofs         theorems

**MemoryStores.** `status`, `sources`, `episodeRow`, `dedupe`, `index`, `links` and
`events` are the maps of `inMemoryStores.ts`; `minted` is what `randomId` has returned.
A `MemoryRef` is a record `[id, type, scope]`. After its creation only the status of an
object ever changes, so an object is its status and its provenance. `matchesScope`,
`list`, `search` and `Visible` are the reads; each write is one awaited store call.

**Ingest, Tombstone, Consolidate, Query.** A call is a record of the locals the code
keeps across awaits, with a `pc` that names the await it is at. An action is one awaited
store call with the code that runs until the next: it reads the locals, changes one store
and moves `pc`. Reads and the writes based on them are separate actions exactly where an
`await` separates them (`DisputeGet`/`DisputePut`, `MarkDerivedGet`/`MarkDerivedPut`,
`SupersedeGet`/`SupersedePut`, `GetTarget`/`PutTombstoned`). The `Abandon` actions are a
throw, or the death of the process, at any of these points. The sets a call loops over
(`refs`, `derived`, `left`, `sides`) are walked in any order, which covers the order the
code takes.

**MemoryRuntime** composes them: `Start` begins a call when fewer than `MaxInFlight` are
in progress, `Step` continues one, `Abandon` fails one. `known` is what a client can name:
refs it got from answers, events, queries or the provenance of what a query returns. The
refs whose deletion was answered, the requests made and the answers given are kept as
history variables, which no action reads to decide what to do.

**ContextAssembly.** `call` holds the locals of `assembleContext` and of the query and the
hydrate it runs; `refs` is in the order of the ranker, `held` is `objectByRef`, `at` the
place in the loop. Its actions are the awaits, and the loop's body between them. A request
need not be one that `validateAssembleContextRequest` accepts: the service does not call it.
The module does not compose with the ones above: `OtherCall` stands for all they may do to
what is read here, which is to write any status but "active" to an existing object
(`NothingReactivates` of section 4; provenance never changes and names existing objects,
`ProvenanceStaysIntact`). `written` remembers which objects that befell during the call.

**JobRunner.** `status`, `type`, `createdAt` are a job's record, `log` its events,
`workers` the locals of each `processBatch` call and each `run_now` request, `polling` the
timer. A batch holds records as they were listed, which is why `TakeJob` has no test of
the stored status. `Throws` says what may throw: the work, `appendEvent`, `upsertJob`.
`cutOff` is a history variable: the jobs a crash or an escaping exception took from a worker.

**EventStream.** `id` is an event's index in the array, or the BIGSERIAL id of its row;
`visible` is what a SELECT finds. `AppendInMemory` does both at once. `InsertRow` takes the
id, `CommitRow` shows the row, and several may be between the two; `AbortRow` loses one.
`listInMemory` and `listRows` are the two `listEvents`, down to what each makes of a cursor
it does not know. `Subscribe` is a poll of a reader, `Restart` the end of a process: the
arrays go, the table stays, readers keep their cursors. `EventFeed` is the promise of
`docs/architecture/consistency.md` 77-80: an answer leaves a reader with every event
published so far. In memory `EventStream` implements it (`InMemoryFeed`); over Postgres it
does not, and `GapsOnlyFromOverlap` says exactly when.

**SqlStores.** `payload` and `scopeRow` are the rows of `infinicon_objects`, `indexRow` those
of `infinicon_index`. An action is one SQL statement. The module shares no action with
MemoryRuntime because the adapter does something else: `list` finds nothing, the episode
store rewrites the object's row, and `search` reads the objects one by one and only then
clips to the limit. The loop over the extracted links is `GetDisputed` and `PutDisputed`, the
read and the write of `applyLinkSideEffects`: the write restores what a deletion in between
had tombstoned. `overtaken` is the history of that, and the exception of `DeletedStaysHidden`.
It takes more than the race to break the rule without it: the deletion must fail before it
removes the index row and be answered as a repetition on retry (`service.ts` 676-679), and the
query must ask for disputed memory. TLC finds no such query when deletions do not fail.
Consolidation is left out of the module: with a scope that holds anything, its `list` throws.

**PluginHost.** `byKey` and `byKind` are the two maps, in order of insertion, `place` the order
of the listeners. `stack` holds the calls in progress: a frame of `emit` with the place of
the next listener, and the loops of `registerMany` and `clear` with what they have left.
A host call is allowed when the stack is empty or a listener on top of it is running, which
is all that re-entrance means. `HookThrows` unwinds to the listener that made the failing
call. `runs` are awaited plugin calls, which end as the promise does, whatever was
unregistered meanwhile.

**HttpApi, AgentChat.** `HttpApi` holds authorization, routing, the two shapes of an error
and what `parseMemoryApiError` makes of them. `AgentChat` is the loop of `main.ts`: `chat` is
the process with its count of turns, `recall` what `recallForTask` has collected, `call` the
request awaited, `flight` what was sent and not yet served (of this process or a dead one),
`response` what came back. Requests are served whole: their steps are in the modules above.
`Exit` ends the process at a throw, `FetchFails` loses a response or has
a gateway's text in its place, `ServeRefused` is an error
of the API or a refusal. What others do to the messages stored, the consolidations that the
chat queued among them, is `Delete`, and a read with its write back: `ReadToRewrite` and
`WriteBack` stand for supersession (`service.ts` 734-737), the dispute of a link (769-773) and
the cascade that marks as stale (698-703), each of which tests the status at the read and
writes the object whole later. `hidden` is what a query does not find, `tombstoned` what
hydrate filters, so a message written back is hydrated again if a query had found it before.
`jobs` counts what was queued; jobs as such are in JobRunner.

An operator commented "Mutant:" is a plausible bug of the definition that follows it: a
dropped guard, a swapped argument, a missing write. No definition uses it. Replacing the
definition by it makes TLC report the property listed with it in `PROJECT.json`, which
shows that the property depends on that code.

## 3. The runs

Between two calls nothing is left out: a run with `MaxInFlight = 1` is a client that
awaits each call before the next, one with `MaxInFlight = 2` lets any two kinds of call
interleave at every await. Three calls in progress add no new pair of read and write to
interleave: each of the races below is between one call's read and another's write.

| Run | Bounds | Shows |
|---|---|---|
| RuntimeConcurrent | 2 episodes, 1 atom, 1 consolidation, 2 calls in progress, 1 deletion, an extractor that may report contradictions with the consolidation | `StatusForCause`, `ProvenanceIntact`, `OneLevelProvenance`, `CreatedIsIndexed`, `NeverReactivated`: no interleaving gives an object a status without a cause, breaks provenance or reactivates memory |
| RuntimeFailures | 1 episode with a dedupe key, 1 atom, 1 consolidation, 2 calls, any step may throw | `CallsFinish`: every call in progress ends, whatever others do to what it loops over |
| RuntimeSerial | a namespace and a session in it, 2 episodes and an atom of the session, a consolidation of the namespace, a dedupe key, 2 deletions of up to 2 refs, every query filter, calls one at a time | `OneEpisodePerKey`, `CascadeReachesScope`, `DeletedStaysHidden`, `IndexIsExact`, `TombstoneIsFinal` |
| Jobs | 3 jobs, batches of up to 2 that do not overlap, a `run_now` request beside them; the work and `upsertJob` may throw, the runner may be stopped, the process may die | `OneHolder`, `StrandedOnlyIfCutOff`, `LogMatchesRecord`, `FollowsLifecycle` (refinement of `JobLifecycle`), `JobsFinish` |
| ContextAssembly | an episode, a consolidation of it, another episode; 6 requests, with and without a bound on tokens or segments, two of them invalid; another call rewrites one object | `BudgetKept`, `TruncationReported`, `ContextConforms`, `ConcernsReported`, `DeletedNotAssembled` |
| EventStream | both adapters, 3 events of a scope and 1 of another, a reader of all types, of one, and of the other scope; any restarts | `ResumesInOrder`, `GapsOnlyFromOverlap`, `InMemoryFeed` (refinement of `EventFeed`), `EventsArrive` |
| SqlStores | an episode and an atom of a session, the namespace around it, a limit of 1; one ingest with contradictions, one deletion and one query at a time interleave, any may fail | `ListFindsNothing`, `SearchIsComplete`, `DeletedStaysHidden` |
| PluginHost | 4 plugins of 2 kinds, one of them invalid and one with `::` in its name; a batch that repeats a key; 2 listeners, calls two deep, 3 events, 1 run | `KindsAgree`, `OldestKnowsRegistry` |
| AgentChat | 3 turns, a consolidation every 2, recalls of up to 2 queries, a right and a wrong key, deletions and writes back of the first message by others, any number of restarts | `TranscriptKept`, `ConsolidationsPaced`, `RecalledOnlyIfOvertaken`, `ErrorsLeaveNoTrace` |
| DeletedResurfaces | a consolidation, a deletion and a hydrate | *violated*: supersession writes back a stale copy over a tombstone |
| RetriedIngest | one ingest that fails, and its retry | *violated*: the retry is answered "deduplicated" and never indexed |
| JobsOverlap | two batches in progress | *violated*: a completed job runs again |

The last three state what a document of the repository says; `findings` in `PROJECT.json`
quotes the lines. `CHECK_DEADLOCK FALSE` is set where the instance really stops, because
what it may do is used up: refs and deletions in the runs of MemoryRuntime, events in
EventStream, events and places in PluginHost. The other runs check deadlock.

The bounds, all constants:

* `Refs` bounds the objects ever created (one or two of each type are enough for an object,
  what derives from it and what derives from that), `MaxAtoms` what one extraction returns,
  `MaxTombstoneRefs` and `MaxRequests` the deletions, `MaxInFlight` the calls in progress.
* `Jobs`, `Batches`, `Requests` and `BatchSize`: 3 jobs and batches of 2 leave one for the
  next tick.
* `MaxWritten` is how many objects others write during one assembly, however often: one is
  enough to change a hit, or a source, or one after the other was read.
* Three events of a scope are enough for one to be given, one passed and one still to come;
  the fourth is of another scope, with ids from the same sequence.
* `Limit` 1 over two refs: one of them is clipped when both are found. `IngestScopes` are the
  scopes of the ingests, the session alone; deletions and queries come from the namespace too.
* `MaxEvents`, `MaxDepth`, `MaxAdded` and `MaxRuns` of PluginHost: three events are a
  registration, its removal from within a listener, and another registration; depth two is a
  listener that calls the host, whose own listeners are called; three places are two
  subscriptions and one made anew.
* `MaxTurns` 3 with a consolidation every 2 leaves a turn whose count a restart forgets;
  `QueryLimit`, `Enough` and `MaxSegments` are the code's 8, 12 and 16, scaled down to what
  three turns fill. `Disturbed` are the messages that others delete or write back, the first
  one, which the recalls of two later turns can find, any number of times.

Ids of one type and scope, and listeners, are interchangeable: RuntimeConcurrent,
RuntimeSerial and PluginHost, which check no liveness, use symmetry.

Some properties say less than their names might suggest. `OneEpisodePerKey`,
`CascadeReachesScope`, `DeletedStaysHidden` of MemoryRuntime, `IndexIsExact` and
`TombstoneIsFinal` are about calls one at a time. `ConcernsReported` and `DeletedNotAssembled`
say nothing of what is written during the call. `TranscriptKept` orders the messages of a turn;
a late one may be stored after those of a later turn. `ConsolidationsPaced` bounds how many
consolidations are queued, not how far apart: a late one may be served right before a new one.
`KindsAgree` compares sets, neither order nor repetition.

**Fairness.** `MemoryRuntime!Fairness` is weak fairness of each call in progress: a promise
the runtime awaits settles, and the event loop resumes what awaits it. A call may still
throw, and no call is ever forced to start. `JobRunner!Fairness` adds that `server.ts`
starts the runner and that the timer fires; `JobsFinish` assumes of the environment that
crashes, stops and batches lost to an escaping exception cease some day, and still allows a
job that one of them left running. `EventStream!Fairness` is that readers go on polling, and
that a statement sent to the database commits or fails; nothing is assumed of restarts.
PluginHost, SqlStores, ContextAssembly and AgentChat check safety only.

### What departs from the documents without a run

* Two ingests with one dedupe key that overlap both miss the lookup (`service.ts` 97) before
  either stores its episode (125), and there are two; `overview.md` 80 says that a duplicated
  call "must not create duplicate durable memory". `OneEpisodePerKey` holds for calls one at
  a time. (With two
  ingest calls and `MaxInFlight = 2`, RuntimeSerial finds the two episodes.)
* A deletion of what is already deleted is answered and skipped with its cascade (676-679),
  so deleting first with `none` and then with `tombstone_derived` never reaches derived
  memory; `consistency.md` 115 makes no such exception.
* An unknown cursor must fail or send the client to a full resynchronization
  (`memory-api.v0.md` 358, `consistency.md` 80); in memory the whole stream is returned
  (`inMemoryStores.ts` 231), over Postgres nothing (`postgresStores.ts` 292-296).
* Over Postgres, `list` of a scope with a scope row throws (`ListFindsNothing`), so there is
  no dedupe, no cascade and no consolidation; `reportFreshness` is always stale (248), so a
  strong query is always refused.
* A contradiction that read an object before its deletion writes it back as disputed
  (`service.ts` 769-773), as supersession does in run DeletedResurfaces. Over Postgres a query
  that asks for disputed memory returns it if the deletion had failed half way and was
  retried; a recall of the chat hydrates it if it had found it before the deletion
  (`RecalledOnlyIfOvertaken`).
* The SDK reads `retryable` from a field the server does not send (`errors.ts` 58).
* `clear` of the plugin host reads the key back by splitting at `::`, and leaves a plugin
  whose name holds that registered.
* The scope of `GET /v0/jobs/` comes from headers that have no agent and no session.
* `listEvents` of the in-memory store returns the array it goes on to append to.

## 4. The proofs

All theorems hold for arbitrary constants, under the named assumptions of the modules
(refs have a type and a scope and differ from `NoRef`, `Contradicts` relates refs, `Jobs`
is finite, ...).

* `MemoryRuntimeProofs!TypeCorrect`: `Spec => []TypeOK`. `TypeOK` alone is not inductive:
  that an object store only holds refs needs that a call's locals hold a ref, not `NoRef`,
  at the awaits where the code writes with it. `TypeInv` adds that (`IngestHolds`,
  `TombstoneHolds`, `ConsolidateHolds`), with one lemma per operation and one step per
  action.
* `MemoryRuntimeProofs`, on top of that: `ProvenanceStaysIntact`, `OneLevelIsEnough`, `StatusHasCause`,
  `CreatedStaysIndexed` and `NothingReactivates`, for any number of calls in progress, any
  scopes and any failures. None of the five is inductive, since what a call writes was
  decided at an earlier await. `SafetyInv` adds three things. `Fresh`: a ref that a call has
  minted but not stored belongs to that call alone and nothing derives from it, so storing
  it makes no cycle and overwrites nothing. `IngestKnows`, `TombstoneKnows` and
  `ConsolidateKnows`: what each call remembers across its awaits is still true; a cascade's
  derived objects do derive from a ref that was asked for, what a consolidation merges
  exists in its scope and is closed under provenance but for what was condemned, and an
  object about to be unindexed has left the active status for good. `Lineage`: the three
  invariants about provenance and statuses together, because each needs the others (what a
  consolidation does not list was tombstoned, hence condemned, by `StatusForCause`).
  Other calls cannot spoil what a call knows because every step is monotone (`Mono`):
  objects, their provenance, links, requests and retirements only grow. `QuietStep`,
  `RetiringStep` and `BirthStep` say once what the three kinds of step preserve, the
  `...Frame` lemmas carry the other calls over, and each action then has a step of its own.
  The last section proves all of `CallsFinish` but the fairness. `LoopsGoOn`: a call that is
  taken up again inside a loop has something left to do there, so an action of it is
  possible. `CallsAdvance`: each of its steps brings it nearer to its end (`CallsComeNearer`:
  a later stage, or the same stage and less left to loop over, or the same left and a later
  await of one turn), and no step of another call takes it back. `IngestsEnd`,
  `TombstonesEnd` and `ConsolidationsEnd`: for finitely many refs that order is well founded.
* `SerialRuntimeProofs`: `TombstonesStay`, `KeyNamesOneEpisode`, `CascadeIsComplete` and
  `DeletedIsHidden`, for a client that awaits each call before the next (`CallsAwaited`), any
  scopes and refs, and calls that fail at any await. `SerialInv` adds to `SafetyInv` that at
  most one call in progress writes, and that what it read at an earlier await is still so
  (`IngestSees`, `TombstoneSees`, `ConsolidateSees`): exactly what run DeletedResurfaces shows
  to be lost when two calls overlap. `IndexStaysExact` needs in addition that no call fails
  (an ingest that fails before its entry is the finding of RetriedIngest); its invariant
  `IndexKept` is that an object is indexed iff it may be shown, but for the one the call in
  progress is about to index or to remove.
* `JobRunnerProofs!TypeCorrect`: the types of the job runner. `OneHolderAtATime`: if batches
  do not overlap and the events that report the end of a job do not throw, then
  `Spec => []OneHolder`, with crashes, stops, failing work and a failing `upsertJob`. The
  inductive invariant `HoldInv` adds what each `pc` says about the record of the job held,
  that at most one batch is in progress, and that a request holds a job no batch has listed
  (a listed job is queued and a request's job never was).
* `JobRunnerProofs!RunningIsHeldOrCutOff`: a running job has a holder or was cut off, from an
  invariant of its own (`EndsInv`) and neither assumption: it holds however batches overlap.
* `JobRunnerProofs!LogTellsTheEnd`: under the same two assumptions as `OneHolderAtATime`,
  `LogMatchesRecord`. `LogInv` is `HoldInv` and what each `pc` says of the log of the job
  held: the event of its end is not there yet or is already the only one, and agrees with
  the record that is still to be stored; a finished job nobody holds is told right.
* `JobRunnerProofs!RunnerFollowsLifecycle`: under the same two assumptions the runner
  implements `JobLifecycle`. Each step moves one job along the lifecycle or leaves all
  records alone, because by `HoldInv` a job that is taken is queued, and one that is
  completed or failed is running. Run JobsOverlap shows that the
  first cannot be dropped. Nor can the second: `executeConsolidateJob` appends
  `consolidation.completed` inside the `try` that runs the job (`service.ts` 606), so when
  that throws the `catch` stores a completed job as failed (617).
* `EventStreamProofs`: `TypeCorrect`, `StreamResumesInOrder`, `StreamGapsOnlyFromOverlap` and
  `InMemoryImplementsFeed`, for any events, readers and restarts. The inductive invariant
  (`StreamStaysConsistent`) says that ids are given once and in order, that in memory
  whatever has an id is visible, that a cursor is of an event shown and that what was
  received lies behind it, and, for the gaps, that an event that became visible below a
  cursor has the cursor's event among those that overtook it.
* `SqlStoresProofs`: `TypeCorrect`, `ListNeverFinds`, `SearchStaysComplete` and
  `DeletedStaysOut`, for any scopes, refs, limit and failures. The invariant
  (`SqlStaysConsistent`) adds that an ingest past its first statement has its scope row, that
  what was deleted stays so at every later statement unless an ingest that had read it active
  was yet to dispute it, in which case it is on record as overtaken, and what a query has yet to read, has
  kept or has dropped at each point of its two loops.
* `ContextAssemblyProofs`: `TypeCorrect`, `BudgetStaysKept`, `TruncationIsReported`,
  `ContextStaysConformant`, `ConcernsAreReported` and `DeletedIsNotAssembled`, for any
  objects, provenance, requests and writes by others. The invariant
  (`AssemblyStaysConsistent`) says, for each point of the loop, what of the ranking has been
  handled, that it is among the segments or the context is truncated, and which warnings
  were given; that what nobody wrote still has the status it was held with; and that the
  running estimate is the sum over the segments so far (`Counted`, by `TokensAdd`: a segment
  appended adds its tokens to the sum).
* `PluginHostProofs`: `TypeCorrect`, `KindsStayAgreed` and `OldestKnows`, for any plugins,
  listeners and depth of nesting. The invariant (`HostStaysConsistent`) holds the types and
  `KindsAgree`, and says of the calls in progress that a call waiting under another has handed its event to the first listener
  (`StackOK`): so only the last event emitted can be `Pending`, on its way to nobody yet, and
  the oldest listener hears events in the order in which they were emitted. `PendingSays` and
  `OldestSays` tie what an event says of a plugin to the registry, until a later event says
  otherwise. An exception unwinds only frames past the first place, which is why only the
  oldest listener has the promise.
* `AgentChatProofs`: `RecallOnlyFromOvertaken`, `ErrorsAreFinal`, `TranscriptStaysKept` and
  `ConsolidationsStayPaced`, for any keys, limits and turns, processes that end at any call
  and requests served late. The invariant (`ChatStaysConsistent`) follows a message: it is
  still ahead of the chat, or on its way, or stored, or lost for good, and only one of them;
  a message is told stored or rejected before the next one is sent, so an answer finds the
  user's message stored in front of it (`UserFirst`). `DeletionsLast` says that a message
  deleted and no longer tombstoned, or deleted and yet to be written back, was overtaken: what
  reads it later finds it tombstoned and lets it be. `ConsolidationsStayPaced` has an
  invariant of its own on top (`PaceInv`): the consolidations queued, in flight or due, times
  the period, and the turns counted since the last one, are at most the turns finished. A
  restart lowers the left side; a turn raises both.

**Induction over a sequence.** The induction theorems of the library take an operator as a
parameter, which the provers here cannot instantiate. `PluginHostProofs` and
`ContextAssemblyProofs` therefore state induction about a *set* of numbers (`Induct`: a set
with 0 that is closed under successor holds every number, from `Least`, which rests on `<`
being well founded on the naturals), and apply it to the set of lengths for which a fact
holds. With it follow what `without` of PluginHost leaves of a list and what `tokensOf` of
ContextAssembly counts, both written as recursive functions.

Only model-checked are the liveness properties (`CallsFinish`, `JobsFinish`, `EventsArrive`),
which are out of this prover's reach as they stand, since fairness is about ENABLED (what
`CallsFinish` rests on is proved, see `CallsAdvance`), and what the three runs that expect a
violation show. Every invariant and every action property a passing run checks is also a
theorem.

## 5. What is left to do

1. What `JobsFinish` and `EventsArrive` rest on, as `CallsAdvance` is for `CallsFinish`.
2. Several clients of one conversation in AgentChat.

## 6. What is not modelled

* Links as objects of their own: they get no status but "active" unless a client deletes a
  link by ref. `links` records what was linked.
* Text: content, search scores, ranking and limits. In MemoryRuntime a query's candidates are
  all entries of the scope, so what the limit would clip is not seen; `IndexIsExact` says that
  no hidden entry is there to displace a visible one, and SqlStores has the limit.
* In context assembly: `excludedRefs` and the other constraints the service never reads. It
  departs from its documents without a run of its own: `partial_hydration` is never reported
  (`consistency.md` 31); what the limit of the search leaves out is not counted as truncated
  (`service.ts` 298, 354; `context-assembly.v0.md` 77); a warning about a disputed or stale
  segment is given even when the budget then drops that segment (315-339).
* A dedupe hit with other content is answered with an error and changes nothing, like
  every request refused before its first write; HttpApi has the codes.
* Consolidators other than the bundled one, which may return several consolidations and
  links. The branch for a missing consolidator is dead: the constructor supplies one.
* Over Postgres: the jobs table, read and written as the map in memory is; the rows of links,
  written and read by nothing modelled; migrations.
* What nothing calls: `getProvenanceChain` and the other reads of the graph store,
  `getEpisodes`, `listEpisodes`, `assembleForTask` and `queryRelated` of the chat.
* `/health`, `/metrics` and the counters of `observability.ts`, which nothing reads back;
  `ScopedMemory` of the SDK, which fills in a scope; the validators of core-types but that of
  context requests; configuration; the scripts that compare contracts, which have no
  behaviour at run time.
* The mentions in documents that no run covers: superseded memory leaves the index, so
  `includeSuperseded` finds none of it in a query (`service.ts` 738, `consistency.md` 103);
  derived objects that a cascade deletes get no event of their own (707, 714); the bundled
  consolidator does not supersede older consolidations (`plugins.ts` 145-170,
  `consistency.md` 105); a deletion scoped to a session leaves what its namespace derived
  from the session's memory (655).
