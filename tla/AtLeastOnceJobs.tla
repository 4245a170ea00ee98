-------------------------- MODULE AtLeastOnceJobs --------------------------
(***************************************************************************)
(* What a client of the gateway may rely on when it is given a jobId       *)
(* (README.md, "Queue System"): the job ends, its outcome is final, and it *)
(* is completed only after the operation was tried.  How often it is tried *)
(* is not promised, nor that it is not tried again after the end, nor that *)
(* Redis keeps the job: it may be lost, and then that is final.            *)
(***************************************************************************)
CONSTANT Jobs

VARIABLES
  outcome,  \* outcome[j]: what polling the job's status would show
  tried     \* tried[j]: the operation has been sent to SmartOLT

vars == <<outcome, tried>>

Init ==
  /\ outcome = [j \in Jobs |-> "unknown"]
  /\ tried = [j \in Jobs |-> FALSE]

Submit(j) ==
  /\ outcome[j] = "unknown"
  /\ outcome' = [outcome EXCEPT ![j] = "pending"]
  /\ UNCHANGED tried

Try(j) ==
  /\ outcome[j] # "unknown"
  /\ tried' = [tried EXCEPT ![j] = TRUE]
  /\ UNCHANGED outcome

Complete(j) ==
  /\ outcome[j] = "pending"
  /\ tried[j]
  /\ outcome' = [outcome EXCEPT ![j] = "completed"]
  /\ UNCHANGED tried

Fail(j) ==
  /\ outcome[j] = "pending"
  /\ outcome' = [outcome EXCEPT ![j] = "failed"]
  /\ UNCHANGED tried

Lose(j) ==
  /\ outcome[j] \notin {"unknown", "lost"}
  /\ outcome' = [outcome EXCEPT ![j] = "lost"]
  /\ UNCHANGED tried

Next ==
  \E j \in Jobs : Submit(j) \/ Try(j) \/ Complete(j) \/ Fail(j) \/ Lose(j)

\* An accepted job that is not lost ends one way or the other.
FairSpec ==
  /\ Init
  /\ [][Next]_vars
  /\ \A j \in Jobs : WF_vars(Complete(j) \/ Fail(j))
=============================================================================
