------------------------------ MODULE JobRunner -----------------------------
(***************************************************************************)
(* Background jobs: their records in the metadata store, the requests that *)
(* create them (service.ts 392-414, 460-473), JobRunner's polling batches  *)
(* (jobRunner.ts) and the job half of processJob and executeConsolidateJob *)
(* (service.ts 416-455, 519-651).  What a job does to memory is in modules *)
(* Consolidate and Tombstone.                                              *)
(***************************************************************************)
EXTENDS Naturals, Sequences, FiniteSets

CONSTANTS
  Jobs,        \* jobs ever created
  Batches,     \* processBatch calls that may be in progress at once
  Requests,    \* run_now requests that may be in progress at once
  NoJob,
  BatchSize,   \* batchSize, 8 by default
  MayOverlap,  \* may the timer start a batch while another is in progress?
  Throws,      \* what may throw: "work", "report" (appendEvent), "store" (upsertJob)
  MayStop,     \* may the runner be stopped?
  MayCrash     \* may the process die, leaving the stored jobs behind?

ASSUME JobsAssumption == IsFiniteSet(Jobs) /\ NoJob \notin Jobs
ASSUME WorkersAssumption == Batches \cap Requests = {}
ASSUME BatchSizeAssumption == BatchSize \in Nat \ {0}
ASSUME SwitchesAssumption == {MayOverlap, MayStop, MayCrash} \subseteq BOOLEAN

VARIABLES
  status,    \* metadata store: the status of each job
  type,      \* metadata store: its type
  createdAt, \* metadata store: its place in the order of creation
  log,       \* metadata store: the consolidation events of each job, in order
  workers,   \* the local state of each processBatch call and run_now request
  polling,   \* is the timer set?
  cutOff     \* the jobs a crash, or an exception past its handler, took from a worker

vars == <<status, type, createdAt, log, workers, polling, cutOff>>

Workers == Batches \cup Requests
Pcs == {"idle", "take", "begin", "work", "report", "failed", "reportFailed", "caught"}
JobTypes == {"consolidate", "tombstone_cascade"}

TypeOK ==
  /\ status \in [Jobs -> {"none", "queued", "running", "completed", "failed"}]
  /\ type \in [Jobs -> JobTypes]
  /\ createdAt \in [Jobs -> Nat]
  /\ log \in [Jobs -> Seq({"started", "completed", "failed"})]
  /\ workers \in [Workers -> [pc : Pcs, todo : SUBSET Jobs, job : Jobs \cup {NoJob}]]
  /\ polling \in BOOLEAN
  /\ cutOff \subseteq Jobs

Idle == [pc |-> "idle", todo |-> {}, job |-> NoJob]

Init ==
  /\ status = [j \in Jobs |-> "none"]
  /\ type = [j \in Jobs |-> "consolidate"]
  /\ createdAt = [j \in Jobs |-> 0]
  /\ log = [j \in Jobs |-> <<>>]
  /\ workers = [w \in Workers |-> Idle]
  /\ polling = FALSE
  /\ cutOff = {}

-----------------------------------------------------------------------------
upsertJob(j, s) == status' = [status EXCEPT ![j] = s]
appendEvent(j, e) == log' = [log EXCEPT ![j] = Append(@, e)]

\* Mutant: a running job is listed again.
Unfinished == {j \in Jobs : status[j] \in {"queued", "running"}}

Queued == {j \in Jobs : status[j] = "queued"}

\* The oldest queued jobs, at most limit of them.
listQueuedJobs(limit) ==
  {S \in SUBSET Queued :
     /\ Cardinality(S) = IF Cardinality(Queued) < limit THEN Cardinality(Queued) ELSE limit
     /\ \A j \in S, k \in Queued \ S : createdAt[j] <= createdAt[k]}

\* Mutant: creation is counted from one too few.
CreateEarly(j, t) ==
  /\ status[j] = "none"
  /\ type' = [type EXCEPT ![j] = t]
  /\ createdAt' = [createdAt EXCEPT ![j] = Cardinality({k \in Jobs : status[k] # "none"}) - 1]

Create(j, t) ==
  /\ status[j] = "none"
  /\ type' = [type EXCEPT ![j] = t]
  /\ createdAt' = [createdAt EXCEPT ![j] = Cardinality({k \in Jobs : status[k] # "none"})]

\* A worker that is done with a job goes on with its batch or returns.
NextJob(w) == workers' = [workers EXCEPT ![w] =
  IF workers[w].todo = {} THEN Idle ELSE [@ EXCEPT !.pc = "take", !.job = NoJob]]

takeFrom(W) == cutOff' = cutOff \cup ({workers[w].job : w \in W} \ {NoJob})

Goto(w, pc) == workers' = [workers EXCEPT ![w].pc = pc]

-----------------------------------------------------------------------------
\* consolidate in enqueue mode, or a tombstone of many refs.
Enqueue(j, t) ==
  /\ Create(j, t)
  /\ upsertJob(j, "queued")
  /\ UNCHANGED <<log, workers, polling, cutOff>>

\* Mutant: stored as queued in either mode.
RunNowQueued(j, w) ==
  /\ workers[w] = Idle
  /\ Create(j, "consolidate")
  /\ upsertJob(j, "queued")
  /\ workers' = [workers EXCEPT ![w] = [Idle EXCEPT !.pc = "begin", !.job = j]]
  /\ UNCHANGED <<log, polling, cutOff>>

\* consolidate in run_now mode: the request stores the job as running and runs it.
RunNow(j, w) ==
  /\ workers[w] = Idle
  /\ Create(j, "consolidate")
  /\ upsertJob(j, "running")
  /\ workers' = [workers EXCEPT ![w] = [Idle EXCEPT !.pc = "begin", !.job = j]]
  /\ UNCHANGED <<log, polling, cutOff>>

\* start and stop; stop leaves a batch in progress alone.
StartPolling ==
  /\ ~polling /\ polling' = TRUE
  /\ UNCHANGED <<status, type, createdAt, log, workers, cutOff>>
StopPolling ==
  /\ MayStop /\ polling /\ polling' = FALSE
  /\ UNCHANGED <<status, type, createdAt, log, workers, cutOff>>

\* The timer does not wait for the previous processBatch.  A batch holds the job
\* records as they were listed, queued.
Tick(w) ==
  /\ polling
  /\ workers[w] = Idle
  /\ MayOverlap \/ \A b \in Batches : workers[b] = Idle
  /\ \E S \in listQueuedJobs(BatchSize) :
       /\ S # {}
       /\ workers' = [workers EXCEPT ![w] = [Idle EXCEPT !.pc = "take", !.todo = S]]
  /\ UNCHANGED <<status, type, createdAt, log, polling, cutOff>>

\* processJob: its test of the status reads the record listed, which says queued.
TakeJob(w) ==
  /\ workers[w].pc = "take"
  /\ \E j \in workers[w].todo :
       /\ \A k \in workers[w].todo : createdAt[j] <= createdAt[k]
       /\ upsertJob(j, "running")
       /\ workers' = [workers EXCEPT ![w] =
            [pc |-> IF type[j] = "consolidate" THEN "begin" ELSE "work",
             todo |-> workers[w].todo \ {j}, job |-> j]]
  /\ UNCHANGED <<type, createdAt, log, polling, cutOff>>

BeginConsolidation(w) ==
  /\ workers[w].pc = "begin"
  /\ appendEvent(workers[w].job, "started")
  /\ Goto(w, "work")
  /\ UNCHANGED <<status, type, createdAt, polling, cutOff>>

CompleteJob(w) ==
  /\ workers[w].pc = "work"
  /\ upsertJob(workers[w].job, "completed")
  /\ IF type[workers[w].job] = "consolidate" THEN Goto(w, "report") ELSE NextJob(w)
  /\ UNCHANGED <<type, createdAt, log, polling, cutOff>>

ReportCompleted(w) ==
  /\ workers[w].pc = "report"
  /\ appendEvent(workers[w].job, "completed")
  /\ NextJob(w)
  /\ UNCHANGED <<status, type, createdAt, polling, cutOff>>

\* The work of a job throws; or, inside the same try, the event that reports its
\* completion.  Only consolidation catches it itself.
Throw(w) ==
  /\ \/ workers[w].pc \in {"begin", "work"} /\ "work" \in Throws
     \/ workers[w].pc = "report" /\ "report" \in Throws
  /\ Goto(w, IF type[workers[w].job] = "consolidate" THEN "failed" ELSE "caught")
  /\ UNCHANGED <<status, type, createdAt, log, polling, cutOff>>

FailJob(w) ==
  /\ workers[w].pc = "failed"
  /\ upsertJob(workers[w].job, "failed")
  /\ Goto(w, "reportFailed")
  /\ UNCHANGED <<type, createdAt, log, polling, cutOff>>

\* Mutant: reports the failure as a completion.
ReportFailedAsCompleted(w) ==
  /\ workers[w].pc = "reportFailed"
  /\ appendEvent(workers[w].job, "completed")
  /\ NextJob(w)
  /\ UNCHANGED <<status, type, createdAt, polling, cutOff>>

ReportFailed(w) ==
  /\ workers[w].pc = "reportFailed"
  /\ appendEvent(workers[w].job, "failed")
  /\ NextJob(w)
  /\ UNCHANGED <<status, type, createdAt, polling, cutOff>>

\* The handling of the failure throws: a request rejects, a batch goes on to the
\* catch of processJob.
ThrowAgain(w) ==
  /\ \/ workers[w].pc = "failed" /\ "store" \in Throws
     \/ workers[w].pc = "reportFailed" /\ "report" \in Throws
  /\ IF w \in Batches THEN Goto(w, "caught") ELSE NextJob(w)
  /\ takeFrom({w})
  /\ UNCHANGED <<status, type, createdAt, log, polling>>

\* Mutant: the failure is not recorded.
CatchJobSilently(w) ==
  /\ workers[w].pc = "caught"
  /\ NextJob(w)
  /\ UNCHANGED <<status, type, createdAt, log, polling, cutOff>>

CatchJob(w) ==
  /\ workers[w].pc = "caught"
  /\ upsertJob(workers[w].job, "failed")
  /\ NextJob(w)
  /\ UNCHANGED <<type, createdAt, log, polling, cutOff>>

\* The upsert that starts a job, or the one in the catch of processJob, throws: the
\* exception leaves processBatch with the rest of the batch still queued.
LoseBatch(w) ==
  /\ "store" \in Throws
  /\ workers[w].pc \in {"take", "caught"}
  /\ workers' = [workers EXCEPT ![w] = Idle]
  /\ takeFrom({w})
  /\ UNCHANGED <<status, type, createdAt, log, polling>>

Crash ==
  /\ MayCrash
  /\ workers' = [w \in Workers |-> Idle]
  /\ polling' = FALSE
  /\ takeFrom(Workers)
  /\ UNCHANGED <<status, type, createdAt, log>>

-----------------------------------------------------------------------------
WorkerStep(w) ==
  \/ TakeJob(w)
  \/ BeginConsolidation(w)
  \/ CompleteJob(w)
  \/ ReportCompleted(w)
  \/ Throw(w)
  \/ FailJob(w)
  \/ ReportFailed(w)
  \/ ThrowAgain(w)
  \/ CatchJob(w)
  \/ LoseBatch(w)

Next ==
  \/ \E j \in Jobs, t \in JobTypes : Enqueue(j, t)
  \/ \E j \in Jobs, w \in Requests : RunNow(j, w)
  \/ StartPolling \/ StopPolling
  \/ \E w \in Batches : Tick(w)
  \/ \E w \in Workers : WorkerStep(w)
  \/ Crash

Spec == Init /\ [][Next]_vars

\* server.ts starts the runner, the timer fires, and a call in progress settles.
Fairness ==
  /\ WF_vars(StartPolling)
  /\ WF_vars(\E w \in Batches : Tick(w))
  /\ \A w \in Workers : WF_vars(WorkerStep(w))

FairSpec == Spec /\ Fairness

-----------------------------------------------------------------------------
\* The record of each job follows the lifecycle getJob promises (storage-ports.v0.md
\* 85, memory-api.v0.md 375-400).
Lifecycle == INSTANCE JobLifecycle WITH state <- status
FollowsLifecycle == Lifecycle!LifecycleSpec

\* At most one worker holds a job, and it holds it queued before it starts it and
\* running while it works on it (jobRunner.ts 18-24, service.ts 417-420).
OneHolder ==
  /\ \A w \in Workers : \A j \in workers[w].todo : status[j] = "queued"
  /\ \A w \in Workers : workers[w].pc \in {"begin", "work"} => status[workers[w].job] = "running"
  /\ \A v, w \in Workers : v # w =>
       /\ workers[v].todo \cap (workers[w].todo \cup {workers[w].job}) = {}
       /\ workers[v].job # NoJob => workers[v].job # workers[w].job

Stranded(j) == status[j] = "running" /\ \A w \in Workers : workers[w].job # j

\* A job is left running with no worker to end it only when a crash, or an exception out
\* of the handler of a failure, took it from one: nothing lists a running job again
\* (service.ts 417-420, 445-452, jobRunner.ts 18-24).
StrandedOnlyIfCutOff == \A j \in Jobs : Stranded(j) => j \in cutOff

\* The events of a consolidation tell what became of it: no worker has it, it is finished
\* and its handling was not cut off, so it started once and ended once, the way its
\* record says (service.ts 538-544, 596-612, 617-633).
LogMatchesRecord ==
  \A j \in Jobs \ cutOff :
    /\ type[j] = "consolidate" /\ Lifecycle!Finished(j)
    /\ \A w \in Workers : workers[w].job # j
    => log[j] \in {<<"started", status[j]>>, <<status[j]>>}

\* If crashes, stops and lost batches cease, a queued job is finished some day, or a
\* crash leaves it running.
Disturbed == Crash \/ StopPolling \/ \E w \in Workers : LoseBatch(w)
JobsFinish ==
  <>[][~Disturbed]_vars =>
    \A j \in Jobs : status[j] = "queued" ~> Lifecycle!Finished(j) \/ j \in cutOff
=============================================================================
