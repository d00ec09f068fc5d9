--------------------------- MODULE JobRunnerProofs --------------------------
(***************************************************************************)
(* Proofs about JobRunner, for any set of jobs, batches and requests.      *)
(***************************************************************************)
EXTENDS JobRunner, FiniteSetTheorems, SequenceTheorems, TLAPS

-----------------------------------------------------------------------------
(* Lemmas.                                                                 *)

\* How many jobs have some property is a number.
LEMMA CountIsNat ==
  ASSUME NEW S \in SUBSET Jobs
  PROVE  Cardinality(S) \in Nat
BY JobsAssumption, FS_Subset, FS_CardinalityType

\* The next step of a worker done with a job leaves the workers well typed.
LEMMA NextJobType ==
  ASSUME TypeOK, NEW w \in Workers, NextJob(w)
  PROVE  workers' \in [Workers -> [pc : Pcs, todo : SUBSET Jobs, job : Jobs \cup {NoJob}]]
BY DEF TypeOK, NextJob, Idle, Pcs

LEMMA GotoType ==
  ASSUME TypeOK, NEW w \in Workers, NEW pc \in Pcs, Goto(w, pc)
  PROVE  workers' \in [Workers -> [pc : Pcs, todo : SUBSET Jobs, job : Jobs \cup {NoJob}]]
BY DEF TypeOK, Goto

\* Appending an event keeps the logs well typed, of an unknown job too.
LEMMA AppendType ==
  ASSUME TypeOK, NEW j, NEW e \in {"started", "completed", "failed"}, appendEvent(j, e)
  PROVE  log' \in [Jobs -> Seq({"started", "completed", "failed"})]
<1>1. CASE j \in Jobs
  <2>1. Append(log[j], e) \in Seq({"started", "completed", "failed"})
    BY <1>1 DEF TypeOK
  <2> QED
    BY <1>1, <2>1 DEF TypeOK, appendEvent
<1>2. CASE j \notin Jobs
  BY <1>2 DEF TypeOK, appendEvent
<1> QED
  BY <1>1, <1>2

-----------------------------------------------------------------------------
(* Every variable keeps its type.                                          *)

\* Only jobs are taken from workers.
LEMMA TakeFromType ==
  ASSUME TypeOK, NEW W \in SUBSET Workers, takeFrom(W)
  PROVE  cutOff' \subseteq Jobs
BY DEF TypeOK, takeFrom

LEMMA TypeStep ==
  ASSUME TypeOK, Next
  PROVE  TypeOK'
<1>1. ASSUME NEW j \in Jobs, NEW t \in JobTypes, Enqueue(j, t)
      PROVE  TypeOK'
  BY <1>1, CountIsNat DEF TypeOK, Enqueue, Create, upsertJob
<1>2. ASSUME NEW j \in Jobs, NEW w \in Requests, RunNow(j, w)
      PROVE  TypeOK'
  <2>1. Cardinality({k \in Jobs : status[k] # "none"}) \in Nat
    BY CountIsNat
  <2> QED
    BY <1>2, <2>1 DEF TypeOK, RunNow, Create, upsertJob, Workers, Idle, Pcs, JobTypes
<1>3. ASSUME StartPolling \/ StopPolling
      PROVE  TypeOK'
  BY <1>3 DEF TypeOK, StartPolling, StopPolling
<1>4. ASSUME NEW w \in Batches, Tick(w)
      PROVE  TypeOK'
  <2>1. PICK S \in listQueuedJobs(BatchSize) :
          workers' = [workers EXCEPT ![w] = [Idle EXCEPT !.pc = "take", !.todo = S]]
    BY <1>4 DEF Tick
  <2>2. S \in SUBSET Jobs
    BY DEF listQueuedJobs, Queued
  <2>3. [Idle EXCEPT !.pc = "take", !.todo = S]
          \in [pc : Pcs, todo : SUBSET Jobs, job : Jobs \cup {NoJob}]
    BY <2>2 DEF Idle, Pcs
  <2> QED
    BY <1>4, <2>1, <2>3 DEF TypeOK, Tick, Workers
<1>5. ASSUME NEW w \in Workers, WorkerStep(w)
      PROVE  TypeOK'
  <2>1. CASE TakeJob(w)
    BY <2>1 DEF TypeOK, TakeJob, upsertJob, Pcs
  <2>2. CASE BeginConsolidation(w)
    BY <2>2, GotoType, AppendType DEF TypeOK, BeginConsolidation, Pcs
  <2>3. CASE CompleteJob(w)
    BY <2>3, GotoType, NextJobType DEF TypeOK, CompleteJob, upsertJob, Pcs
  <2>4. CASE ReportCompleted(w)
    BY <2>4, NextJobType, AppendType DEF TypeOK, ReportCompleted
  <2>5. CASE Throw(w)
    BY <2>5, GotoType DEF TypeOK, Throw, Pcs
  <2>6. CASE FailJob(w)
    BY <2>6, GotoType DEF TypeOK, FailJob, upsertJob, Pcs
  <2>7. CASE ReportFailed(w)
    BY <2>7, NextJobType, AppendType DEF TypeOK, ReportFailed
  <2>8. CASE ThrowAgain(w)
    BY <2>8, GotoType, NextJobType, TakeFromType DEF TypeOK, ThrowAgain, Pcs
  <2>9. CASE CatchJob(w)
    BY <2>9, NextJobType DEF TypeOK, CatchJob, upsertJob
  <2>10. CASE LoseBatch(w)
    BY <2>10, TakeFromType DEF TypeOK, LoseBatch, Idle, Pcs
  <2> QED
    BY <1>5, <2>1, <2>2, <2>3, <2>4, <2>5, <2>6, <2>7, <2>8, <2>9, <2>10 DEF WorkerStep
<1>6. ASSUME Crash
      PROVE  TypeOK'
  BY <1>6, TakeFromType DEF TypeOK, Crash, Idle, Pcs
<1> QED
  BY <1>1, <1>2, <1>3, <1>4, <1>5, <1>6 DEF Next

LEMMA InitType == Init => TypeOK
<1> SUFFICES ASSUME Init PROVE TypeOK
  OBVIOUS
<1>1. log \in [Jobs -> Seq({"started", "completed", "failed"})]
  BY DEF Init
<1>2. workers \in [Workers -> [pc : Pcs, todo : SUBSET Jobs, job : Jobs \cup {NoJob}]]
  BY DEF Init, Idle, Pcs
<1>3. /\ status \in [Jobs -> {"none", "queued", "running", "completed", "failed"}]
      /\ type \in [Jobs -> JobTypes]
      /\ createdAt \in [Jobs -> Nat]
      /\ polling \in BOOLEAN
      /\ cutOff \subseteq Jobs
  BY DEF Init, JobTypes
<1> QED
  BY <1>1, <1>2, <1>3 DEF TypeOK

\* Type correctness of the jobs' records, their events and the workers.
THEOREM TypeCorrect == Spec => []TypeOK
<1>1. Init => TypeOK
  BY InitType
<1>2. TypeOK /\ [Next]_vars => TypeOK'
  <2>1. CASE Next
    BY <2>1, TypeStep
  <2>2. CASE UNCHANGED vars
    BY <2>2 DEF TypeOK, vars
  <2> QED
    BY <2>1, <2>2
<1> QED
  BY <1>1, <1>2, PTL DEF Spec

-----------------------------------------------------------------------------
(* No job is left running unless it was cut off, batches overlapping or    *)
(* not and whatever throws.                                                *)

\* A worker that still has to write how the job ends.
Ends(w, j) == workers[w].job = j /\ workers[w].pc \in {"begin", "work", "failed", "caught"}

\* The strengthening of StrandedOnlyIfCutOff that steps preserve.
EndsInv ==
  /\ TypeOK
  /\ \A j \in Jobs : status[j] = "running" => j \in cutOff \/ \E w \in Workers : Ends(w, j)

\* A step of a worker leaves the records of other jobs, and takes a job off its own only
\* when it wrote its end or cut it off.
LEMMA WorkerEnds ==
  ASSUME TypeOK, NEW w \in Workers, WorkerStep(w), NEW j \in Jobs
  PROVE  /\ \A v \in Workers \ {w} : workers'[v] = workers[v]
         /\ cutOff \subseteq cutOff'
         /\ status'[j] = "running" /\ status[j] # "running" => Ends(w, j)'
         /\ status'[j] = "running" /\ Ends(w, j) => Ends(w, j)' \/ j \in cutOff'
<1> USE JobsAssumption DEF Pcs, Ends
<1>1. CASE TakeJob(w)
  <2>1. PICK k \in workers[w].todo :
          /\ status' = [status EXCEPT ![k] = "running"]
          /\ workers' = [workers EXCEPT ![w] =
               [pc |-> IF type[k] = "consolidate" THEN "begin" ELSE "work",
                todo |-> workers[w].todo \ {k}, job |-> k]]
          /\ cutOff' = cutOff
          /\ workers[w].pc = "take"
    BY <1>1 DEF TakeJob, upsertJob
  <2> QED
    BY <2>1 DEF TypeOK
<1>2. CASE BeginConsolidation(w)
  BY <1>2 DEF BeginConsolidation, Goto, TypeOK
<1>3. CASE CompleteJob(w)
  <2>1. status' = [status EXCEPT ![workers[w].job] = "completed"] /\ cutOff' = cutOff
    BY <1>3 DEF CompleteJob, upsertJob
  <2>2. \A v \in Workers \ {w} : workers'[v] = workers[v]
    BY <1>3 DEF CompleteJob, Goto, NextJob, TypeOK
  <2> QED
    BY <2>1, <2>2 DEF TypeOK
<1>4. CASE ReportCompleted(w) \/ ReportFailed(w)
  BY <1>4 DEF ReportCompleted, ReportFailed, NextJob, TypeOK
<1>5. CASE Throw(w)
  BY <1>5 DEF Throw, Goto, TypeOK
<1>6. CASE FailJob(w)
  BY <1>6 DEF FailJob, Goto, upsertJob, TypeOK
<1>7. CASE ThrowAgain(w)
  <2>1. status' = status /\ cutOff' = cutOff \cup ({workers[w].job} \ {NoJob})
    BY <1>7 DEF ThrowAgain, takeFrom
  <2>2. \A v \in Workers \ {w} : workers'[v] = workers[v]
    BY <1>7 DEF ThrowAgain, Goto, NextJob, TypeOK
  <2> QED
    BY <2>1, <2>2
<1>8. CASE CatchJob(w)
  <2>1. status' = [status EXCEPT ![workers[w].job] = "failed"] /\ cutOff' = cutOff
    BY <1>8 DEF CatchJob, upsertJob
  <2>2. \A v \in Workers \ {w} : workers'[v] = workers[v]
    BY <1>8 DEF CatchJob, NextJob, TypeOK
  <2> QED
    BY <2>1, <2>2 DEF TypeOK
<1>9. CASE LoseBatch(w)
  <2>1. status' = status /\ cutOff' = cutOff \cup ({workers[w].job} \ {NoJob})
    BY <1>9 DEF LoseBatch, takeFrom
  <2>2. \A v \in Workers \ {w} : workers'[v] = workers[v]
    BY <1>9 DEF LoseBatch, TypeOK
  <2> QED
    BY <2>1, <2>2
<1> QED
  BY <1>1, <1>2, <1>3, <1>4, <1>5, <1>6, <1>7, <1>8, <1>9 DEF WorkerStep

LEMMA EndsStep ==
  ASSUME EndsInv, Next
  PROVE  EndsInv'
<1>0. TypeOK /\ TypeOK'
  BY TypeStep DEF EndsInv
<1> SUFFICES ASSUME NEW j \in Jobs, status'[j] = "running"
             PROVE  j \in cutOff' \/ \E w \in Workers : Ends(w, j)'
  BY <1>0 DEF EndsInv
<1>1. ASSUME NEW k \in Jobs, NEW t \in JobTypes, Enqueue(k, t)
      PROVE  j \in cutOff' \/ \E w \in Workers : Ends(w, j)'
  BY <1>0, <1>1 DEF EndsInv, TypeOK, Enqueue, upsertJob, Ends
<1>2. ASSUME NEW k \in Jobs, NEW w \in Requests, RunNow(k, w)
      PROVE  j \in cutOff' \/ \E v \in Workers : Ends(v, j)'
  <2>1. /\ w \in Workers /\ workers[w] = Idle /\ cutOff' = cutOff
        /\ workers' = [workers EXCEPT ![w] = [Idle EXCEPT !.pc = "begin", !.job = k]]
        /\ status' = [status EXCEPT ![k] = "running"]
    BY <1>2 DEF RunNow, upsertJob, Workers
  <2>2. CASE j = k
    BY <1>0, <2>1, <2>2 DEF TypeOK, Ends, Idle
  <2>3. CASE j # k
    <3>1. status[j] = "running"
      BY <1>0, <2>1, <2>3 DEF TypeOK
    <3>2. CASE j \in cutOff
      BY <2>1, <3>2
    <3>3. ASSUME NEW v \in Workers, Ends(v, j) PROVE Ends(v, j)'
      BY <1>0, <2>1, <3>3 DEF TypeOK, Ends, Idle
    <3> QED
      BY <3>1, <3>2, <3>3 DEF EndsInv
  <2> QED
    BY <2>2, <2>3
<1>3. ASSUME StartPolling \/ StopPolling
      PROVE  j \in cutOff' \/ \E w \in Workers : Ends(w, j)'
  BY <1>3 DEF EndsInv, StartPolling, StopPolling, Ends
<1>4. ASSUME NEW w \in Batches, Tick(w)
      PROVE  j \in cutOff' \/ \E v \in Workers : Ends(v, j)'
  <2>1. /\ w \in Workers /\ workers[w] = Idle /\ cutOff' = cutOff /\ status' = status
        /\ \A v \in Workers \ {w} : workers'[v] = workers[v]
    BY <1>0, <1>4 DEF Tick, Workers, TypeOK
  <2>2. \A v \in Workers : Ends(v, j) => Ends(v, j)'
    BY <2>1 DEF Ends, Idle
  <2> QED
    BY <2>1, <2>2 DEF EndsInv
<1>5. ASSUME NEW w \in Workers, WorkerStep(w)
      PROVE  j \in cutOff' \/ \E v \in Workers : Ends(v, j)'
  <2>1. /\ \A v \in Workers \ {w} : workers'[v] = workers[v]
        /\ cutOff \subseteq cutOff'
        /\ status'[j] = "running" /\ status[j] # "running" => Ends(w, j)'
        /\ status'[j] = "running" /\ Ends(w, j) => Ends(w, j)' \/ j \in cutOff'
    BY <1>0, <1>5, WorkerEnds
  <2>2. ASSUME NEW v \in Workers, v # w, Ends(v, j) PROVE Ends(v, j)'
    BY <2>1, <2>2 DEF Ends
  <2> QED
    BY <2>1, <2>2 DEF EndsInv
<1>6. ASSUME Crash
      PROVE  j \in cutOff' \/ \E w \in Workers : Ends(w, j)'
  <2>1. status' = status /\ cutOff' = cutOff \cup ({workers[w].job : w \in Workers} \ {NoJob})
    BY <1>6 DEF Crash, takeFrom
  <2>2. \A w \in Workers : Ends(w, j) => j \in cutOff'
    BY <2>1, JobsAssumption DEF Ends
  <2> QED
    BY <2>1, <2>2 DEF EndsInv
<1> QED
  BY <1>1, <1>2, <1>3, <1>4, <1>5, <1>6 DEF Next

\* Whatever batches overlap, throw or die, a running job without a worker was cut off.
THEOREM RunningIsHeldOrCutOff == Spec => []StrandedOnlyIfCutOff
<1>1. Init => EndsInv
  BY InitType DEF EndsInv, Init
<1>2. EndsInv /\ [Next]_vars => EndsInv'
  <2>1. CASE Next
    BY <2>1, EndsStep
  <2>2. CASE UNCHANGED vars
    BY <2>2 DEF EndsInv, TypeOK, Ends, vars
  <2> QED
    BY <2>1, <2>2
<1>3. EndsInv => StrandedOnlyIfCutOff
  BY DEF EndsInv, Ends, StrandedOnlyIfCutOff, Stranded
<1> QED
  BY <1>1, <1>2, <1>3, PTL DEF Spec

-----------------------------------------------------------------------------
(* A job's record follows its lifecycle as long as batches do not overlap  *)
(* and no event throws; the work may throw, the store may throw and the    *)
(* process may die.                                                        *)

\* The strengthening of OneHolder that steps preserve: what a worker's place in the
\* code says of the job it holds, and that only one batch is in progress.
Holding(w) ==
  /\ \A j \in workers[w].todo : status[j] = "queued"
  /\ workers[w].pc \in {"begin", "work", "failed", "caught"} =>
       workers[w].job \in Jobs /\ status[workers[w].job] = "running"
  /\ workers[w].pc \in {"report", "reportFailed"} =>
       workers[w].job \in Jobs /\ status[workers[w].job] \in {"completed", "failed"}
  /\ workers[w].pc \in {"idle", "take"} => workers[w].job = NoJob
  /\ workers[w].pc = "idle" \/ w \in Requests => workers[w].todo = {}

Apart(v, w) ==
  /\ workers[v].todo \cap workers[w].todo = {}
  /\ workers[v].job # NoJob => workers[v].job # workers[w].job

HoldInv ==
  /\ TypeOK
  /\ \A w \in Workers : Holding(w)
  /\ \A v, w \in Workers : v # w => Apart(v, w)
  /\ \A v, w \in Batches : v # w => workers[v].pc = "idle" \/ workers[w].pc = "idle"

\* HoldInv says all that OneHolder does.
LEMMA HoldInvImpliesOneHolder == HoldInv => OneHolder
<1> SUFFICES ASSUME HoldInv PROVE OneHolder
  OBVIOUS
<1>1. \A w \in Workers : \A j \in workers[w].todo : status[j] = "queued"
  BY DEF HoldInv, Holding
<1>2. \A w \in Workers : workers[w].pc \in {"begin", "work"} => status[workers[w].job] = "running"
  BY DEF HoldInv, Holding
<1>3. ASSUME NEW v \in Workers, NEW w \in Workers, v # w
      PROVE  /\ workers[v].todo \cap (workers[w].todo \cup {workers[w].job}) = {}
             /\ workers[v].job # NoJob => workers[v].job # workers[w].job
  <2>1. Apart(v, w) /\ Holding(v) /\ Holding(w)
    BY <1>3 DEF HoldInv
  <2>2. workers[w].job \notin workers[v].todo
    <3>1. workers[v].todo \subseteq Jobs /\ workers[w].pc \in Pcs
      BY DEF HoldInv, TypeOK
    <3> QED
      BY <2>1, <3>1, JobsAssumption DEF Holding, Pcs
  <2> QED
    BY <2>1, <2>2 DEF Apart
<1> QED
  BY <1>1, <1>2, <1>3 DEF OneHolder

\* A step of w that leaves the other workers, and the records of the jobs they hold,
\* alone keeps HoldInv if it keeps what HoldInv says of w.
LEMMA OnlyMoves ==
  ASSUME HoldInv, TypeOK', NEW w \in Workers,
         \A v \in Workers \ {w} : workers'[v] = workers[v],
         \A v \in Workers \ {w} : \A j \in (workers[v].todo \cup {workers[v].job}) \cap Jobs :
           status'[j] = status[j],
         Holding(w)',
         \A v \in Workers \ {w} : Apart(v, w)' /\ Apart(w, v)',
         w \in Batches /\ workers'[w].pc # "idle" =>
           \A v \in Batches \ {w} : workers[v].pc = "idle"
  PROVE  HoldInv'
<1>1. ASSUME NEW v \in Workers PROVE Holding(v)'
  <2>1. CASE v = w
    BY <2>1
  <2>2. CASE v # w
    <3>1. Holding(v)
      BY DEF HoldInv
    <3>2. workers'[v] = workers[v]
      BY <2>2
    <3>3. \A j \in (workers[v].todo \cup {workers[v].job}) \cap Jobs : status'[j] = status[j]
      BY <2>2
    <3>4. workers[v].todo \subseteq Jobs
      BY DEF HoldInv, TypeOK
    <3> QED
      BY <3>1, <3>2, <3>3, <3>4 DEF Holding
  <2> QED
    BY <2>1, <2>2
<1>2. ASSUME NEW u \in Workers, NEW v \in Workers, u # v PROVE Apart(u, v)'
  <2>1. CASE u # w /\ v # w
    <3>1. Apart(u, v)
      BY <1>2 DEF HoldInv
    <3>2. workers'[u] = workers[u] /\ workers'[v] = workers[v]
      BY <2>1
    <3> QED
      BY <3>1, <3>2 DEF Apart
  <2>2. CASE u = w \/ v = w
    BY <1>2, <2>2
  <2> QED
    BY <2>1, <2>2
<1>3. ASSUME NEW u \in Batches, NEW v \in Batches, u # v
      PROVE  workers'[u].pc = "idle" \/ workers'[v].pc = "idle"
  <2>1. u \in Workers /\ v \in Workers
    BY DEF Workers
  <2>2. workers[u].pc = "idle" \/ workers[v].pc = "idle"
    BY <1>3 DEF HoldInv
  <2> QED
    BY <1>3, <2>1, <2>2
<1> QED
  BY <1>1, <1>2, <1>3 DEF HoldInv

\* A busy worker that goes on with its batch or its job, and takes no job but from its
\* own batch, keeps HoldInv.
LEMMA GoesOn ==
  ASSUME HoldInv, TypeOK', NEW w \in Workers,
         workers[w].pc # "idle",
         \A v \in Workers \ {w} : workers'[v] = workers[v],
         workers'[w].todo \subseteq workers[w].todo,
         workers'[w].job \in {NoJob, workers[w].job} \cup workers[w].todo,
         \A j \in Jobs \ (workers[w].todo \cup {workers[w].job}) : status'[j] = status[j],
         Holding(w)'
  PROVE  HoldInv'
<1>1. ASSUME NEW v \in Workers \ {w}
      PROVE  /\ workers[v].todo \subseteq Jobs
             /\ workers[v].job \in Jobs \cup {NoJob}
             /\ workers[w].job \in Jobs \cup {NoJob}
             /\ workers[v].todo \cap (workers[w].todo \cup {workers[w].job}) = {}
             /\ workers[v].job # NoJob => workers[v].job \notin workers[w].todo \cup {workers[w].job}
  <2>1. /\ workers[v].todo \subseteq Jobs
        /\ workers[v].job \in Jobs \cup {NoJob}
        /\ workers[w].job \in Jobs \cup {NoJob}
        /\ workers[w].todo \subseteq Jobs
        /\ workers[v].pc \in Pcs /\ workers[w].pc \in Pcs
    BY DEF HoldInv, TypeOK
  <2>2. Holding(v) /\ Holding(w) /\ Apart(v, w) /\ Apart(w, v)
    BY DEF HoldInv
  <2>3. workers[w].job \notin workers[v].todo
    BY <2>1, <2>2, JobsAssumption DEF Holding, Pcs
  <2>4. workers[v].job \notin workers[w].todo
    BY <2>1, <2>2, JobsAssumption DEF Holding, Pcs
  <2> QED
    BY <2>1, <2>2, <2>3, <2>4 DEF Apart
<1>2. ASSUME NEW v \in Workers \ {w}
      PROVE  Apart(v, w)' /\ Apart(w, v)'
  <2>1. workers'[v] = workers[v]
    OBVIOUS
  <2> QED
    BY <1>1, <2>1 DEF Apart
<1>3. ASSUME NEW v \in Workers \ {w}, NEW j \in (workers[v].todo \cup {workers[v].job}) \cap Jobs
      PROVE  status'[j] = status[j]
  <2>1. j # NoJob
    BY JobsAssumption
  <2>2. j \notin workers[w].todo \cup {workers[w].job}
    BY <1>1, <2>1
  <2> QED
    BY <2>2
<1>4. w \in Batches => \A v \in Batches \ {w} : workers[v].pc = "idle"
  BY DEF HoldInv
<1> QED
  BY <1>2, <1>3, <1>4, OnlyMoves

LEMMA HoldInit == Init => HoldInv
<1>1. Init => TypeOK
  BY InitType
<1> QED
  BY <1>1 DEF Init, HoldInv, Holding, Apart, Idle, Workers

\* What a busy worker's step does to the worker.
LEMMA NextJobEffect ==
  ASSUME TypeOK, NEW w \in Workers, NextJob(w)
  PROVE  /\ \A v \in Workers \ {w} : workers'[v] = workers[v]
         /\ workers'[w].todo = workers[w].todo
         /\ workers'[w].job = NoJob
         /\ workers'[w].pc = IF workers[w].todo = {} THEN "idle" ELSE "take"
BY DEF TypeOK, NextJob, Idle

LEMMA GotoEffect ==
  ASSUME TypeOK, NEW w \in Workers, NEW pc, Goto(w, pc)
  PROVE  /\ \A v \in Workers \ {w} : workers'[v] = workers[v]
         /\ workers'[w].todo = workers[w].todo
         /\ workers'[w].job = workers[w].job
         /\ workers'[w].pc = pc
BY DEF TypeOK, Goto

LEMMA HoldWorkerStep ==
  ASSUME "report" \notin Throws, HoldInv, TypeOK', NEW w \in Workers, WorkerStep(w)
  PROVE  HoldInv'
<1> USE DEF Pcs
<1>0. TypeOK /\ Holding(w)
  BY DEF HoldInv
<1>1. /\ workers[w].todo \subseteq Jobs
      /\ workers[w].job \in Jobs \cup {NoJob}
      /\ NoJob \notin Jobs
      /\ workers[w].pc \in Pcs
  BY <1>0, JobsAssumption DEF TypeOK
<1>2. CASE TakeJob(w)
  <2>1. PICK j \in workers[w].todo :
          /\ upsertJob(j, "running")
          /\ workers' = [workers EXCEPT ![w] =
               [pc |-> IF type[j] = "consolidate" THEN "begin" ELSE "work",
                todo |-> workers[w].todo \ {j}, job |-> j]]
    BY <1>2 DEF TakeJob
  <2>2. workers[w].pc = "take"
    BY <1>2 DEF TakeJob
  <2>3. /\ workers'[w].todo = workers[w].todo \ {j}
        /\ workers'[w].job = j
        /\ workers'[w].pc \in {"begin", "work"}
        /\ \A v \in Workers \ {w} : workers'[v] = workers[v]
    BY <1>0, <2>1 DEF TypeOK
  <2>4. status'[j] = "running" /\ \A k \in Jobs \ {j} : status'[k] = status[k]
    BY <1>0, <1>1, <2>1 DEF TypeOK, upsertJob
  <2>5. w \notin Requests
    BY <1>0, <2>1 DEF Holding
  <2>6. Holding(w)'
    BY <1>0, <1>1, <2>1, <2>3, <2>4, <2>5 DEF Holding
  <2> QED
    BY <2>1, <2>2, <2>3, <2>4, <2>6, GoesOn
<1>3. CASE BeginConsolidation(w)
  <2>1. workers[w].pc = "begin" /\ status' = status /\ Goto(w, "work")
    BY <1>3 DEF BeginConsolidation
  <2>2. Holding(w)'
    BY <1>0, <2>1, GotoEffect DEF Holding
  <2> QED
    BY <1>0, <2>1, <2>2, GotoEffect, GoesOn
<1>4. CASE CompleteJob(w)
  <2>1. workers[w].pc = "work" /\ upsertJob(workers[w].job, "completed")
    BY <1>4 DEF CompleteJob
  <2>2. /\ workers[w].job \in Jobs /\ status[workers[w].job] = "running"
        /\ status'[workers[w].job] = "completed"
        /\ \A k \in Jobs \ {workers[w].job} : status'[k] = status[k]
    BY <1>0, <2>1 DEF Holding, upsertJob, TypeOK
  <2>3. CASE Goto(w, "report")
    <3>1. Holding(w)'
      BY <1>0, <1>1, <2>1, <2>2, <2>3, GotoEffect DEF Holding
    <3> QED
      BY <1>0, <2>1, <2>2, <2>3, <3>1, GotoEffect, GoesOn
  <2>4. CASE NextJob(w)
    <3>1. Holding(w)'
      BY <1>0, <1>1, <2>1, <2>2, <2>4, NextJobEffect DEF Holding
    <3> QED
      BY <1>0, <2>1, <2>2, <2>4, <3>1, NextJobEffect, GoesOn
  <2> QED
    BY <1>4, <2>3, <2>4 DEF CompleteJob
<1>5. CASE ReportCompleted(w) \/ ReportFailed(w)
  <2>1. workers[w].pc \in {"report", "reportFailed"} /\ status' = status /\ NextJob(w)
    BY <1>5 DEF ReportCompleted, ReportFailed
  <2>2. Holding(w)'
    BY <1>0, <2>1, NextJobEffect DEF Holding
  <2> QED
    BY <1>0, <2>1, <2>2, NextJobEffect, GoesOn
<1>6. CASE Throw(w)
  <2>1. PICK pc \in {"failed", "caught"} : Goto(w, pc)
    BY <1>6 DEF Throw
  <2>2. workers[w].pc \in {"begin", "work"} /\ status' = status
    BY <1>6 DEF Throw
  <2>3. Holding(w)'
    BY <1>0, <2>1, <2>2, GotoEffect DEF Holding
  <2> QED
    BY <1>0, <2>1, <2>2, <2>3, GotoEffect, GoesOn
<1>7. CASE FailJob(w)
  <2>1. workers[w].pc = "failed" /\ upsertJob(workers[w].job, "failed") /\ Goto(w, "reportFailed")
    BY <1>7 DEF FailJob
  <2>2. /\ workers[w].job \in Jobs /\ status[workers[w].job] = "running"
        /\ status'[workers[w].job] = "failed"
        /\ \A k \in Jobs \ {workers[w].job} : status'[k] = status[k]
    BY <1>0, <2>1 DEF Holding, upsertJob, TypeOK
  <2>3. Holding(w)'
    BY <1>0, <1>1, <2>1, <2>2, GotoEffect DEF Holding
  <2> QED
    BY <1>0, <2>1, <2>2, <2>3, GotoEffect, GoesOn
<1>8. CASE ThrowAgain(w)
  <2>1. workers[w].pc = "failed" /\ status' = status
    BY <1>8 DEF ThrowAgain
  <2>2. CASE Goto(w, "caught")
    <3>1. Holding(w)'
      BY <1>0, <2>1, <2>2, GotoEffect DEF Holding
    <3> QED
      BY <1>0, <2>1, <2>2, <3>1, GotoEffect, GoesOn
  <2>3. CASE NextJob(w)
    <3>1. Holding(w)'
      BY <1>0, <2>1, <2>3, NextJobEffect DEF Holding
    <3> QED
      BY <1>0, <2>1, <2>3, <3>1, NextJobEffect, GoesOn
  <2> QED
    BY <1>8, <2>2, <2>3 DEF ThrowAgain
<1>9. CASE CatchJob(w)
  <2>1. workers[w].pc = "caught" /\ upsertJob(workers[w].job, "failed") /\ NextJob(w)
    BY <1>9 DEF CatchJob
  <2>2. /\ workers[w].job \in Jobs /\ status[workers[w].job] = "running"
        /\ status'[workers[w].job] = "failed"
        /\ \A k \in Jobs \ {workers[w].job} : status'[k] = status[k]
    BY <1>0, <2>1 DEF Holding, upsertJob, TypeOK
  <2>3. Holding(w)'
    BY <1>0, <1>1, <2>1, <2>2, NextJobEffect DEF Holding
  <2> QED
    BY <1>0, <2>1, <2>2, <2>3, NextJobEffect, GoesOn
<1>10. CASE LoseBatch(w)
  <2>1. /\ workers[w].pc \in {"take", "caught"}
        /\ workers' = [workers EXCEPT ![w] = Idle] /\ status' = status
    BY <1>10 DEF LoseBatch
  <2>2. workers'[w] = Idle /\ \A v \in Workers \ {w} : workers'[v] = workers[v]
    BY <1>0, <2>1 DEF TypeOK
  <2>3. Holding(w)'
    BY <2>2 DEF Holding, Idle
  <2> QED
    BY <2>1, <2>2, <2>3, GoesOn DEF Idle
<1> QED
  BY <1>2, <1>3, <1>4, <1>5, <1>6, <1>7, <1>8, <1>9, <1>10 DEF WorkerStep

LEMMA HoldStep ==
  ASSUME ~MayOverlap, "report" \notin Throws, HoldInv, Next
  PROVE  HoldInv'
<1>0. TypeOK /\ TypeOK'
  BY TypeStep DEF HoldInv
<1>1. ASSUME NEW j \in Jobs, NEW t \in JobTypes, Enqueue(j, t)
      PROVE  HoldInv'
  <2>1. status[j] = "none" /\ workers' = workers /\ \A k \in Jobs \ {j} : status'[k] = status[k]
    BY <1>0, <1>1 DEF Enqueue, Create, upsertJob, TypeOK
  <2>2. ASSUME NEW w \in Workers PROVE Holding(w)'
    <3>1. Holding(w) /\ workers[w].todo \subseteq Jobs
      BY DEF HoldInv, TypeOK
    <3> QED
      BY <2>1, <3>1 DEF Holding
  <2> QED
    BY <1>0, <2>1, <2>2 DEF HoldInv, Apart
<1>2. ASSUME NEW j \in Jobs, NEW w \in Requests, RunNow(j, w)
      PROVE  HoldInv'
  <2>1. /\ w \in Workers /\ w \notin Batches /\ NoJob \notin Jobs
        /\ status[j] = "none" /\ workers[w] = Idle
        /\ status' = [status EXCEPT ![j] = "running"]
        /\ workers' = [workers EXCEPT ![w] = [Idle EXCEPT !.pc = "begin", !.job = j]]
    BY <1>2, WorkersAssumption, JobsAssumption DEF RunNow, Create, upsertJob, Workers
  <2>2. /\ workers'[w].todo = {} /\ workers'[w].job = j /\ workers'[w].pc = "begin"
        /\ \A v \in Workers \ {w} : workers'[v] = workers[v]
        /\ status'[j] = "running" /\ \A k \in Jobs \ {j} : status'[k] = status[k]
    BY <1>0, <2>1 DEF TypeOK, Idle
  <2>3. ASSUME NEW v \in Workers
        PROVE  j \notin workers[v].todo /\ j # workers[v].job
    <3>1. Holding(v) /\ workers[v].pc \in Pcs
      BY DEF HoldInv, TypeOK
    <3> QED
      BY <2>1, <3>1 DEF Holding, Pcs
  <2>4. Holding(w)'
    BY <2>1, <2>2 DEF Holding
  <2>5. \A v \in Workers \ {w} : Apart(v, w)' /\ Apart(w, v)'
    BY <2>2, <2>3 DEF Apart
  <2> QED
    BY <1>0, <2>1, <2>2, <2>3, <2>4, <2>5, OnlyMoves
<1>3. ASSUME StartPolling \/ StopPolling
      PROVE  HoldInv'
  BY <1>0, <1>3 DEF StartPolling, StopPolling, HoldInv, Holding, Apart
<1>4. ASSUME NEW w \in Batches, Tick(w)
      PROVE  HoldInv'
  <2>1. PICK S \in listQueuedJobs(BatchSize) :
          /\ S # {}
          /\ workers' = [workers EXCEPT ![w] = [Idle EXCEPT !.pc = "take", !.todo = S]]
    BY <1>4 DEF Tick
  <2>2. /\ w \in Workers /\ w \notin Requests
        /\ status' = status
        /\ \A v \in Batches : workers[v] = Idle
    BY <1>4, WorkersAssumption DEF Tick, Workers
  <2>3. S \subseteq Jobs /\ \A j \in S : status[j] = "queued"
    BY DEF listQueuedJobs, Queued
  <2>4. /\ workers'[w].todo = S /\ workers'[w].job = NoJob /\ workers'[w].pc = "take"
        /\ \A v \in Workers \ {w} : workers'[v] = workers[v]
    BY <1>0, <2>1, <2>2 DEF TypeOK, Idle
  <2>5. Holding(w)'
    BY <2>2, <2>3, <2>4 DEF Holding
  <2>6. ASSUME NEW v \in Workers \ {w}
        PROVE  Apart(v, w)' /\ Apart(w, v)'
    <3>1. workers[v].todo = {}
      <4>1. CASE v \in Batches
        BY <2>2, <4>1 DEF Idle
      <4>2. CASE v \in Requests
        BY <4>2 DEF HoldInv, Holding
      <4> QED
        BY <4>1, <4>2 DEF Workers
    <3> QED
      BY <2>4, <3>1 DEF Apart
  <2>7. \A v \in Batches \ {w} : workers[v].pc = "idle"
    BY <2>2 DEF Idle
  <2> QED
    BY <1>0, <2>2, <2>4, <2>5, <2>6, <2>7, OnlyMoves
<1>5. ASSUME NEW w \in Workers, WorkerStep(w)
      PROVE  HoldInv'
  BY <1>0, <1>5, HoldWorkerStep
<1>6. ASSUME Crash
      PROVE  HoldInv'
  <2>1. \A w \in Workers : workers'[w] = Idle
    BY <1>6 DEF Crash
  <2>2. ASSUME NEW w \in Workers PROVE Holding(w)'
    BY <2>1 DEF Holding, Idle
  <2> QED
    BY <1>0, <2>1, <2>2 DEF HoldInv, Apart, Idle, Workers
<1> QED
  BY <1>1, <1>2, <1>3, <1>4, <1>5, <1>6 DEF Next

\* Every step from a state of HoldInv is a step of JobLifecycle, or leaves the records.
LEMMA StepFollows ==
  ASSUME "report" \notin Throws, HoldInv, Next
  PROVE  [Lifecycle!LifecycleNext]_status
<1>0. TypeOK
  BY DEF HoldInv
<1>1. ASSUME NEW j \in Jobs, NEW t \in JobTypes, Enqueue(j, t)
      PROVE  Lifecycle!LifecycleNext
  BY <1>1 DEF Enqueue, Create, upsertJob, Lifecycle!LifecycleNext, Lifecycle!Move
<1>2. ASSUME NEW j \in Jobs, NEW w \in Requests, RunNow(j, w)
      PROVE  Lifecycle!LifecycleNext
  BY <1>2 DEF RunNow, Create, upsertJob, Lifecycle!LifecycleNext, Lifecycle!Move
<1>3. ASSUME StartPolling \/ StopPolling \/ (\E w \in Batches : Tick(w)) \/ Crash
      PROVE  status' = status
  BY <1>3 DEF StartPolling, StopPolling, Tick, Crash
<1>4. ASSUME NEW w \in Workers, WorkerStep(w)
      PROVE  [Lifecycle!LifecycleNext]_status
  <2>0. Holding(w) /\ workers[w].todo \subseteq Jobs
    BY DEF HoldInv, TypeOK
  <2>1. CASE TakeJob(w)
    <3>1. PICK j \in workers[w].todo : upsertJob(j, "running")
      BY <2>1 DEF TakeJob
    <3>2. j \in Jobs /\ status[j] = "queued"
      BY <2>0, <3>1 DEF Holding
    <3> QED
      BY <3>1, <3>2 DEF upsertJob, Lifecycle!LifecycleNext, Lifecycle!Move
  <2>2. CASE CompleteJob(w)
    <3>1. workers[w].job \in Jobs /\ status[workers[w].job] = "running"
      BY <2>0, <2>2 DEF CompleteJob, Holding
    <3> QED
      BY <2>2, <3>1 DEF CompleteJob, upsertJob, Lifecycle!LifecycleNext, Lifecycle!Move
  <2>3. CASE FailJob(w) \/ CatchJob(w)
    <3>1. workers[w].job \in Jobs /\ status[workers[w].job] = "running"
      BY <2>0, <2>3 DEF FailJob, CatchJob, Holding
    <3>2. upsertJob(workers[w].job, "failed")
      BY <2>3 DEF FailJob, CatchJob
    <3> QED
      BY <3>1, <3>2 DEF upsertJob, Lifecycle!LifecycleNext, Lifecycle!Move
  <2>4. CASE \/ BeginConsolidation(w) \/ ReportCompleted(w) \/ Throw(w) \/ ReportFailed(w)
             \/ ThrowAgain(w) \/ LoseBatch(w)
    BY <2>4 DEF BeginConsolidation, ReportCompleted, Throw, ReportFailed, ThrowAgain, LoseBatch
  <2> QED
    BY <1>4, <2>1, <2>2, <2>3, <2>4 DEF WorkerStep
<1> QED
  BY <1>1, <1>2, <1>3, <1>4 DEF Next

\* At most one worker holds a job, whatever crashes and whatever the work and the store
\* throw, as long as batches do not overlap.
THEOREM OneHolderAtATime ==
  ASSUME ~MayOverlap, "report" \notin Throws
  PROVE  Spec => []OneHolder
<1>1. Init => HoldInv
  BY HoldInit
<1>2. HoldInv /\ [Next]_vars => HoldInv'
  <2>1. CASE Next
    BY <2>1, HoldStep
  <2>2. CASE UNCHANGED vars
    BY <2>2 DEF HoldInv, TypeOK, Holding, Apart, vars
  <2> QED
    BY <2>1, <2>2
<1>3. HoldInv => OneHolder
  BY HoldInvImpliesOneHolder
<1> QED
  BY <1>1, <1>2, <1>3, PTL DEF Spec

\* Under the same conditions JobRunner implements JobLifecycle: a job getJob answered
\* as completed or failed stays so.
THEOREM RunnerFollowsLifecycle ==
  ASSUME ~MayOverlap, "report" \notin Throws
  PROVE  Spec => FollowsLifecycle
<1>1. Init => HoldInv /\ Lifecycle!LifecycleInit
  BY HoldInit DEF Init, Lifecycle!LifecycleInit
<1>2. HoldInv /\ [Next]_vars => HoldInv' /\ [Lifecycle!LifecycleNext]_status
  <2>1. CASE Next
    BY <2>1, HoldStep, StepFollows
  <2>2. CASE UNCHANGED vars
    BY <2>2 DEF HoldInv, TypeOK, Holding, Apart, vars
  <2> QED
    BY <2>1, <2>2
<1> QED
  BY <1>1, <1>2, PTL DEF Spec, FollowsLifecycle, Lifecycle!LifecycleSpec

-----------------------------------------------------------------------------
(* The events of a consolidation and its record, under the same conditions. *)

\* What the log of a consolidation holds while w is at it.
LogAt(w, j) ==
  /\ workers[w].pc = "begin" => log[j] = <<>>
  /\ workers[w].pc = "work" => log[j] = <<"started">>
  /\ workers[w].pc = "report" => log[j] = <<"started">> /\ status[j] = "completed"
  /\ workers[w].pc = "failed" => log[j] \in {<<>>, <<"started">>}
  /\ workers[w].pc = "reportFailed" =>
       log[j] \in {<<>>, <<"started">>} /\ status[j] = "failed"
  /\ workers[w].pc # "caught"

Held(j) == \E w \in Workers : workers[w].job = j

ToldRight(j) == log[j] \in {<<"started", status[j]>>, <<status[j]>>}

Logged(j) ==
  /\ status[j] \in {"none", "queued"} => log[j] = <<>>
  /\ type[j] = "consolidate" => \A w \in Workers : workers[w].job = j => LogAt(w, j)
  /\ type[j] = "consolidate" /\ ~Held(j) /\ status[j] \in {"completed", "failed"} =>
       ToldRight(j)

\* The strengthening of LogMatchesRecord that steps preserve.
LogInv == HoldInv /\ \A j \in Jobs \ cutOff : Logged(j)

\* Appending to the logs that occur.
LEMMA Appended ==
  /\ Append(<<>>, "started") = <<"started">>
  /\ \A e \in {"completed", "failed"} :
       Append(<<>>, e) = <<e>> /\ Append(<<"started">>, e) = <<"started", e>>
<1>1. ASSUME NEW e PROVE Append(<<>>, e) = <<e>>
  OBVIOUS
<1>2. ASSUME NEW e \in {"completed", "failed"}
      PROVE  Append(<<"started">>, e) = <<"started", e>>
  <2> DEFINE S == {"started", "completed", "failed"}
  <2>1. <<"started">> \in Seq(S) /\ <<"started", e>> \in Seq(S)
    OBVIOUS
  <2>2. Append(<<"started">>, e) \in Seq(S)
    BY <2>1
  <2>3. Len(Append(<<"started">>, e)) = 2 /\ Len(<<"started", e>>) = 2
    BY <2>1
  <2>4. \A i \in 1 .. 2 : Append(<<"started">>, e)[i] = <<"started", e>>[i]
    BY <2>1
  <2> QED
    BY <2>1, <2>2, <2>3, <2>4, SeqEqual
<1> QED
  BY <1>1, <1>2

\* A step that leaves the job, its log and the workers that have it keeps Logged.
LEMMA LogUntouched ==
  ASSUME NEW j \in Jobs, Logged(j),
         status'[j] = status[j], log'[j] = log[j], type'[j] = type[j],
         \A v \in Workers : workers'[v].job = j <=> workers[v].job = j,
         \A v \in Workers : workers[v].job = j => workers'[v].pc = workers[v].pc
  PROVE  Logged(j)'
BY DEF Logged, LogAt, Held, ToldRight

\* A step of the worker that has the job or takes it from its batch.
LEMMA LogOfHolder ==
  ASSUME HoldInv, NEW w \in Workers, NEW j \in Jobs, Logged(j),
         \A v \in Workers \ {w} : workers'[v] = workers[v],
         workers[w].job = j \/ j \in workers[w].todo,
         type'[j] = type[j],
         status'[j] \notin {"none", "queued"},
         type[j] = "consolidate" /\ workers'[w].job = j => LogAt(w, j)',
         type[j] = "consolidate" /\ workers'[w].job # j /\ status'[j] \in {"completed", "failed"}
           => ToldRight(j)'
  PROVE  Logged(j)'
<1>1. ASSUME NEW v \in Workers \ {w} PROVE workers[v].job # j
  <2>1. Apart(w, v) /\ Holding(v) /\ Holding(w) /\ workers[v].pc \in Pcs
    BY DEF HoldInv, TypeOK
  <2> QED
    BY <2>1, JobsAssumption DEF Apart, Holding, Pcs
<1>2. \A v \in Workers : workers'[v].job = j => v = w
  BY <1>1
<1>3. Held(j)' <=> workers'[w].job = j
  BY <1>2 DEF Held
<1> QED
  BY <1>2, <1>3 DEF Logged

LEMMA LogWorkerStep ==
  ASSUME "report" \notin Throws, LogInv, NEW w \in Workers, WorkerStep(w),
         NEW j \in Jobs, j \notin cutOff'
  PROVE  Logged(j)'
<1> USE DEF Pcs
<1>0. /\ HoldInv /\ TypeOK /\ Holding(w)
      /\ workers[w].todo \subseteq Jobs /\ workers[w].job \in Jobs \cup {NoJob}
      /\ workers[w].pc \in Pcs /\ NoJob # j
      /\ type[j] \in JobTypes
  BY JobsAssumption DEF LogInv, HoldInv, TypeOK
<1>1. Logged(j) /\ \A v \in Workers \ {w} : workers'[v] = workers[v]
  BY <1>0, WorkerEnds DEF LogInv
<1>2. type'[j] = type[j]
  BY DEF WorkerStep, TakeJob, BeginConsolidation, CompleteJob, ReportCompleted, Throw,
         FailJob, ReportFailed, ThrowAgain, CatchJob, LoseBatch
<1>3. CASE TakeJob(w)
  <2>1. PICK k \in workers[w].todo :
          /\ status' = [status EXCEPT ![k] = "running"]
          /\ workers' = [workers EXCEPT ![w] =
               [pc |-> IF type[k] = "consolidate" THEN "begin" ELSE "work",
                todo |-> workers[w].todo \ {k}, job |-> k]]
          /\ log' = log
          /\ workers[w].pc = "take"
    BY <1>3 DEF TakeJob, upsertJob
  <2>2. workers[w].job = NoJob /\ status[k] = "queued" /\ k \in Jobs
    BY <1>0, <2>1 DEF Holding
  <2>3. /\ workers'[w].job = k
        /\ workers'[w].pc = IF type[k] = "consolidate" THEN "begin" ELSE "work"
    BY <1>0, <2>1 DEF TypeOK
  <2>4. CASE j = k
    <3>1. status'[j] = "running" /\ log'[j] = <<>>
      BY <1>0, <1>1, <2>1, <2>2, <2>4 DEF TypeOK, Logged
    <3>2. type[j] = "consolidate" => LogAt(w, j)'
      BY <2>3, <2>4, <3>1 DEF LogAt
    <3> QED
      BY <1>0, <1>1, <1>2, <2>1, <2>3, <2>4, <3>1, <3>2, LogOfHolder
  <2>5. CASE j # k
    <3>1. status'[j] = status[j] /\ log'[j] = log[j]
      BY <1>0, <2>1, <2>5 DEF TypeOK
    <3>2. \A v \in Workers : /\ workers'[v].job = j <=> workers[v].job = j
                             /\ workers[v].job = j => workers'[v].pc = workers[v].pc
      BY <1>0, <1>1, <2>2, <2>3, <2>5
    <3> QED
      BY <1>1, <1>2, <3>1, <3>2, LogUntouched
  <2> QED
    BY <2>4, <2>5
<1>4. CASE ~TakeJob(w) /\ workers[w].job # j
  <2>1. status'[j] = status[j] /\ log'[j] = log[j]
    BY <1>0, <1>4
    DEF WorkerStep, BeginConsolidation, CompleteJob, ReportCompleted, Throw, FailJob,
        ReportFailed, ThrowAgain, CatchJob, LoseBatch, upsertJob, appendEvent, TypeOK
  <2>2. workers'[w].job \in {workers[w].job, NoJob}
    <3>1. \/ workers' = [workers EXCEPT ![w] = Idle]
          \/ NextJob(w)
          \/ \E pc \in Pcs : Goto(w, pc)
      BY <1>4
      DEF WorkerStep, BeginConsolidation, CompleteJob, ReportCompleted, Throw, FailJob,
          ReportFailed, ThrowAgain, CatchJob, LoseBatch
    <3> QED
      BY <1>0, <3>1, NextJobEffect, GotoEffect DEF TypeOK, Idle
  <2>3. \A v \in Workers : workers'[v].job = j <=> workers[v].job = j
    BY <1>0, <1>1, <1>4, <2>2
  <2> QED
    BY <1>1, <1>2, <1>4, <2>1, <2>3, LogUntouched
<1>5. CASE ~TakeJob(w) /\ workers[w].job = j
  <2>0. /\ type[j] = "consolidate" => LogAt(w, j)
        /\ log \in [Jobs -> Seq({"started", "completed", "failed"})]
        /\ status \in [Jobs -> {"none", "queued", "running", "completed", "failed"}]
    BY <1>0, <1>1, <1>5 DEF Logged, TypeOK
  <2>1. CASE BeginConsolidation(w)
    <3>1. /\ workers[w].pc = "begin" /\ status' = status /\ Goto(w, "work")
          /\ log'[j] = Append(log[j], "started")
      BY <1>5, <2>0, <2>1 DEF BeginConsolidation, appendEvent
    <3>2. /\ workers'[w].job = j /\ workers'[w].pc = "work" /\ status'[j] = "running"
      BY <1>0, <1>5, <3>1, GotoEffect DEF Holding
    <3>3. type[j] = "consolidate" => LogAt(w, j)'
      BY <2>0, <3>1, <3>2, Appended DEF LogAt
    <3> QED
      BY <1>0, <1>1, <1>2, <1>5, <3>2, <3>3, LogOfHolder
  <2>2. CASE CompleteJob(w)
    <3>1. /\ workers[w].pc = "work" /\ log' = log /\ status'[j] = "completed"
          /\ IF type[j] = "consolidate" THEN Goto(w, "report") ELSE NextJob(w)
      BY <1>5, <2>0, <2>2 DEF CompleteJob, upsertJob
    <3>2. type[j] = "consolidate" => workers'[w].job = j /\ workers'[w].pc = "report"
      BY <1>0, <1>5, <3>1, GotoEffect
    <3>3. type[j] = "consolidate" => LogAt(w, j)'
      BY <2>0, <3>1, <3>2 DEF LogAt
    <3> QED
      BY <1>0, <1>1, <1>2, <1>5, <3>1, <3>2, <3>3, LogOfHolder
  <2>3. CASE ReportCompleted(w) \/ ReportFailed(w)
    <3>1. PICK e \in {"completed", "failed"} :
            /\ workers[w].pc = IF e = "completed" THEN "report" ELSE "reportFailed"
            /\ status' = status /\ NextJob(w)
            /\ log'[j] = Append(log[j], e)
      BY <1>5, <2>0, <2>3 DEF ReportCompleted, ReportFailed, appendEvent
    <3>2. workers'[w].job = NoJob /\ status'[j] \in {"completed", "failed"}
      BY <1>0, <1>5, <3>1, NextJobEffect DEF Holding
    <3>3. type[j] = "consolidate" => ToldRight(j)'
      BY <2>0, <3>1, Appended DEF LogAt, ToldRight
    <3> QED
      BY <1>0, <1>1, <1>2, <1>5, <3>2, <3>3, LogOfHolder
  <2>4. CASE Throw(w)
    <3>1. /\ workers[w].pc \in {"begin", "work"} /\ status' = status /\ log' = log
          /\ Goto(w, IF type[j] = "consolidate" THEN "failed" ELSE "caught")
      BY <1>5, <2>4 DEF Throw
    <3>2. /\ workers'[w].job = j /\ status'[j] = "running"
          /\ type[j] = "consolidate" => workers'[w].pc = "failed"
      BY <1>0, <1>5, <3>1, GotoEffect DEF Holding
    <3>3. type[j] = "consolidate" => LogAt(w, j)'
      BY <2>0, <3>1, <3>2 DEF LogAt
    <3> QED
      BY <1>0, <1>1, <1>2, <1>5, <3>2, <3>3, LogOfHolder
  <2>5. CASE FailJob(w)
    <3>1. /\ workers[w].pc = "failed" /\ log' = log /\ status'[j] = "failed"
          /\ Goto(w, "reportFailed")
      BY <1>5, <2>0, <2>5 DEF FailJob, upsertJob
    <3>2. workers'[w].job = j /\ workers'[w].pc = "reportFailed"
      BY <1>0, <1>5, <3>1, GotoEffect
    <3>3. type[j] = "consolidate" => LogAt(w, j)'
      BY <2>0, <3>1, <3>2 DEF LogAt
    <3> QED
      BY <1>0, <1>1, <1>2, <1>5, <3>1, <3>2, <3>3, LogOfHolder
  <2>6. CASE CatchJob(w)
    <3>1. workers[w].pc = "caught" /\ log' = log /\ status'[j] = "failed" /\ NextJob(w)
      BY <1>5, <2>0, <2>6 DEF CatchJob, upsertJob
    <3>2. workers'[w].job = NoJob /\ type[j] # "consolidate"
      BY <1>0, <2>0, <3>1, NextJobEffect DEF LogAt
    <3> QED
      BY <1>0, <1>1, <1>2, <1>5, <3>1, <3>2, LogOfHolder
  <2>7. CASE ThrowAgain(w) \/ LoseBatch(w)
    <3>1. cutOff' = cutOff \cup ({workers[w].job} \ {NoJob})
      BY <2>7 DEF ThrowAgain, LoseBatch, takeFrom
    <3> QED
      BY <1>0, <1>5, <3>1
  <2> QED
    BY <1>5, <2>1, <2>2, <2>3, <2>4, <2>5, <2>6, <2>7 DEF WorkerStep
<1> QED
  BY <1>3, <1>4, <1>5

LEMMA LogStep ==
  ASSUME ~MayOverlap, "report" \notin Throws, LogInv, Next
  PROVE  LogInv'
<1>0. HoldInv /\ TypeOK /\ HoldInv' /\ TypeOK'
  BY HoldStep, TypeStep DEF LogInv, HoldInv
<1> SUFFICES ASSUME NEW j \in Jobs, j \notin cutOff' PROVE Logged(j)'
  BY <1>0 DEF LogInv
<1>1. ASSUME NEW k \in Jobs, NEW t \in JobTypes, Enqueue(k, t)
      PROVE  Logged(j)'
  <2>1. /\ workers' = workers /\ log' = log /\ cutOff' = cutOff /\ status[k] = "none"
        /\ status' = [status EXCEPT ![k] = "queued"] /\ type' = [type EXCEPT ![k] = t]
    BY <1>1 DEF Enqueue, Create, upsertJob
  <2>2. Logged(j)
    BY <2>1 DEF LogInv
  <2>3. CASE j # k
    BY <1>0, <2>1, <2>2, <2>3, LogUntouched DEF TypeOK
  <2>4. CASE j = k
    <3>1. status'[j] = "queued" /\ log'[j] = <<>>
      BY <1>0, <2>1, <2>2, <2>4 DEF TypeOK, Logged
    <3>2. ASSUME NEW v \in Workers PROVE workers'[v].job # j
      <4>1. Holding(v) /\ workers[v].pc \in Pcs
        BY <1>0 DEF HoldInv, TypeOK
      <4> QED
        BY <2>1, <2>4, <4>1, JobsAssumption DEF Holding, Pcs
    <3> QED
      BY <3>1, <3>2 DEF Logged
  <2> QED
    BY <2>3, <2>4
<1>2. ASSUME NEW k \in Jobs, NEW w \in Requests, RunNow(k, w)
      PROVE  Logged(j)'
  <2>1. /\ w \in Workers /\ workers[w] = Idle /\ log' = log /\ cutOff' = cutOff
        /\ status[k] = "none" /\ status' = [status EXCEPT ![k] = "running"]
        /\ type' = [type EXCEPT ![k] = "consolidate"]
        /\ workers' = [workers EXCEPT ![w] = [Idle EXCEPT !.pc = "begin", !.job = k]]
    BY <1>2 DEF RunNow, Create, upsertJob, Workers
  <2>2. /\ workers'[w].job = k /\ workers'[w].pc = "begin" /\ workers[w].job = NoJob
        /\ \A v \in Workers \ {w} : workers'[v] = workers[v]
    BY <1>0, <2>1 DEF TypeOK, Idle
  <2>3. Logged(j)
    BY <2>1 DEF LogInv
  <2>4. CASE j # k
    <3>1. \A v \in Workers : /\ workers'[v].job = j <=> workers[v].job = j
                             /\ workers[v].job = j => workers'[v].pc = workers[v].pc
      BY <2>2, <2>4, JobsAssumption
    <3>2. status'[j] = status[j] /\ log'[j] = log[j] /\ type'[j] = type[j]
      BY <1>0, <2>1, <2>4 DEF TypeOK
    <3> QED
      BY <2>3, <3>1, <3>2, LogUntouched
  <2>5. CASE j = k
    <3>1. status'[j] = "running" /\ log'[j] = <<>>
      BY <1>0, <2>1, <2>3, <2>5 DEF TypeOK, Logged
    <3>2. ASSUME NEW v \in Workers \ {w} PROVE workers'[v].job # j
      <4>1. Holding(v) /\ workers[v].pc \in Pcs
        BY <1>0 DEF HoldInv, TypeOK
      <4> QED
        BY <2>1, <2>2, <2>5, <4>1, JobsAssumption DEF Holding, Pcs
    <3> QED
      BY <2>2, <3>1, <3>2 DEF Logged, LogAt
  <2> QED
    BY <2>4, <2>5
<1>3. ASSUME StartPolling \/ StopPolling
      PROVE  Logged(j)'
  BY <1>3, LogUntouched DEF StartPolling, StopPolling, LogInv
<1>4. ASSUME NEW w \in Batches, Tick(w)
      PROVE  Logged(j)'
  <2>1. /\ w \in Workers /\ workers[w] = Idle
        /\ UNCHANGED <<status, type, log, cutOff>>
        /\ workers'[w].job = NoJob
        /\ \A v \in Workers \ {w} : workers'[v] = workers[v]
    BY <1>0, <1>4 DEF Tick, Workers, TypeOK, Idle
  <2>2. \A v \in Workers : /\ workers'[v].job = j <=> workers[v].job = j
                           /\ workers[v].job = j => workers'[v].pc = workers[v].pc
    BY <2>1, JobsAssumption DEF Idle
  <2> QED
    BY <2>1, <2>2, LogUntouched DEF LogInv
<1>5. ASSUME NEW w \in Workers, WorkerStep(w)
      PROVE  Logged(j)'
  BY <1>5, LogWorkerStep
<1>6. ASSUME Crash
      PROVE  Logged(j)'
  <2>1. /\ UNCHANGED <<status, type, log>>
        /\ cutOff' = cutOff \cup ({workers[w].job : w \in Workers} \ {NoJob})
        /\ \A w \in Workers : workers'[w].job = NoJob
    BY <1>6 DEF Crash, takeFrom, Idle
  <2>2. \A v \in Workers : workers[v].job # j /\ workers'[v].job # j
    BY <2>1, JobsAssumption
  <2> QED
    BY <2>1, <2>2, LogUntouched DEF LogInv
<1> QED
  BY <1>1, <1>2, <1>3, <1>4, <1>5, <1>6 DEF Next

\* Under the same conditions a consolidation that was not cut off is reported once, and the
\* way its record says it ended.
THEOREM LogTellsTheEnd ==
  ASSUME ~MayOverlap, "report" \notin Throws
  PROVE  Spec => []LogMatchesRecord
<1>1. Init => LogInv
  <2> SUFFICES ASSUME Init PROVE LogInv
    OBVIOUS
  <2>1. HoldInv
    BY HoldInit
  <2>2. \A w \in Workers : workers[w].job = NoJob
    BY DEF Init, Idle
  <2> QED
    BY <2>1, <2>2, JobsAssumption DEF Init, LogInv, Logged
<1>2. LogInv /\ [Next]_vars => LogInv'
  <2>1. CASE Next
    BY <2>1, LogStep
  <2>2. ASSUME LogInv, UNCHANGED vars PROVE LogInv'
    <3>1. HoldInv'
      BY <2>2 DEF LogInv, HoldInv, TypeOK, Holding, Apart, vars
    <3> QED
      BY <2>2, <3>1 DEF LogInv, Logged, LogAt, Held, ToldRight, vars
  <2> QED
    BY <2>1, <2>2
<1>3. LogInv => LogMatchesRecord
  BY DEF LogInv, Logged, Held, ToldRight, LogMatchesRecord, Lifecycle!Finished
<1> QED
  BY <1>1, <1>2, <1>3, PTL DEF Spec
=============================================================================
