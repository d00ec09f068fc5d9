---------------------------- MODULE JobLifecycle ----------------------------
(***************************************************************************)
(* What a client of getJob may rely on: a job is created queued or running,*)
(* runs once, and ends completed or failed, for good.                      *)
(***************************************************************************)
CONSTANT Jobs

VARIABLE state  \* the status getJob answers, "none" before the job exists

States == {"none", "queued", "running", "completed", "failed"}
Finished(j) == state[j] \in {"completed", "failed"}

Move(j, from, to) == state[j] = from /\ state' = [state EXCEPT ![j] = to]

LifecycleInit == state = [j \in Jobs |-> "none"]

LifecycleNext ==
  \E j \in Jobs :
    \/ Move(j, "none", "queued")
    \/ Move(j, "none", "running")
    \/ Move(j, "queued", "running")
    \/ Move(j, "running", "completed")
    \/ Move(j, "running", "failed")

LifecycleSpec == LifecycleInit /\ [][LifecycleNext]_state
=============================================================================
