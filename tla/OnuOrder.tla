------------------------------ MODULE OnuOrder ------------------------------
(***************************************************************************)
(* The order in which the operations on one ONU take effect.  The write    *)
(* handlers of onu.controller.ts accept them one after another; the jobs   *)
(* wait in BullMQ's list (external) for one of the QUEUE_CONCURRENCY slots *)
(* of the worker, run side by side, fail and wait for their backoff, or    *)
(* stall; a request that the gateway has given up may still reach SmartOLT *)
(* (external).  OnuJobs has what becomes of one job; this module has what  *)
(* several do to each other.                                               *)
(***************************************************************************)
EXTENDS Integers, Sequences

CONSTANTS
  MaxJobs,     \* bound: operations on the ONU; their ids are 1, 2, ...
  MaxMishaps,  \* bound: failures, stalls and deaths of processors
  Slots        \* QUEUE_CONCURRENCY places to run a processor in

ASSUME OrderAssumption ==
  MaxJobs \in Nat \ {0} /\ MaxMishaps \in Nat

VARIABLES
  accepted,   \* the number of operations accepted
  wait,       \* the list of waiting jobs; workers take them from its head
  job,        \* job[j]: its state, and the slot that has its lock
  run,        \* run[s]: the processor in slot s
  stray,      \* the jobs with a request that nobody waits for any more
  applied,    \* history: the jobs that SmartOLT has carried out
  excused,    \* history: excused[i]: the jobs that may have overtaken i
  mishaps     \* history: how often something has gone wrong

orderVars == <<accepted, wait, job, run, stray, applied, excused, mishaps>>

-----------------------------------------------------------------------------
(* State                                                                   *)

Jobs == 1..MaxJobs

\* The states of a job: "unknown", "waiting", "active", "delayed" (in its
\* backoff), "completed" and "failed".

\* The phases of a run.  start: before the first HTTP request.  sent, applied: a
\* request is under way, and SmartOLT has not or has carried it out.  pause:
\* before the next one.  answered: SmartOLT has answered with 2xx.
FreeRun == [phase |-> "free", job |-> 1]

Running(j) == \E s \in Slots : run[s].phase # "free" /\ run[s].job = j

OrderInit ==
  /\ accepted = 0
  /\ wait = <<>>
  /\ job = [j \in Jobs |-> [state |-> "unknown", owner |-> {}]]
  /\ run = [s \in Slots |-> FreeRun]
  /\ stray = {}
  /\ applied = {}
  /\ excused = [j \in Jobs |-> {}]
  /\ mishaps = 0

\* SmartOLT carries out operation i.
Effect(i) == applied' = applied \cup {i}

\* Something went wrong with job i: any other may overtake it.
Mishap(i) ==
  /\ mishaps < MaxMishaps
  /\ mishaps' = mishaps + 1
  /\ excused' = [excused EXCEPT ![i] = Jobs]

-----------------------------------------------------------------------------
(* The queue                                                               *)

\* Mutant: jobs are added with BullMQ's option lifo.
AcceptLast ==
  /\ accepted < MaxJobs
  /\ accepted' = accepted + 1
  /\ wait' = <<accepted'>> \o wait
  /\ job' = [job EXCEPT ![accepted'].state = "waiting"]
  /\ UNCHANGED <<run, stray, applied, excused, mishaps>>

\* A write handler finds the body valid, and enqueueOperation() adds a job.
Accept ==
  /\ accepted < MaxJobs
  /\ accepted' = accepted + 1
  /\ wait' = Append(wait, accepted')
  /\ job' = [job EXCEPT ![accepted'].state = "waiting"]
  /\ UNCHANGED <<run, stray, applied, excused, mishaps>>

\* A free slot takes the first job.  It may overtake those that are running.
Pick(s) ==
  LET j == Head(wait) IN
  /\ run[s].phase = "free" /\ wait # <<>>
  /\ wait' = Tail(wait)
  /\ job' = [job EXCEPT ![j].state = "active", ![j].owner = {s}]
  /\ run' = [run EXCEPT ![s] = [phase |-> "start", job |-> j]]
  /\ excused' = [i \in Jobs |-> IF Running(i) THEN excused[i] \cup {j} ELSE excused[i]]
  /\ UNCHANGED <<accepted, stray, applied, mishaps>>

\* The backoff of job j is over: it goes to the end of the list.
Promote(j) ==
  /\ job[j].state = "delayed"
  /\ wait' = Append(wait, j)
  /\ job' = [job EXCEPT ![j].state = "waiting"]
  /\ UNCHANGED <<accepted, run, stray, applied, excused, mishaps>>

\* The lock of job j expires, its processor dead or not: it goes to the head of
\* the list, or fails when that is once too often (OnuJobs counts).
Stall(j) ==
  /\ job[j].state = "active"
  /\ \/ /\ wait' = <<j>> \o wait
        /\ job' = [job EXCEPT ![j].state = "waiting", ![j].owner = {}]
     \/ /\ job' = [job EXCEPT ![j].state = "failed", ![j].owner = {}]
        /\ UNCHANGED wait
  /\ Mishap(j)
  /\ UNCHANGED <<accepted, run, stray, applied>>

-----------------------------------------------------------------------------
(* The processor                                                           *)

Send(s) ==
  /\ run[s].phase \in {"start", "pause"}
  /\ run' = [run EXCEPT ![s].phase = "sent"]
  /\ UNCHANGED <<accepted, wait, job, stray, applied, excused, mishaps>>

\* SmartOLT carries out the request.
Apply(s) ==
  /\ run[s].phase = "sent"
  /\ run' = [run EXCEPT ![s].phase = "applied"]
  /\ Effect(run[s].job)
  /\ UNCHANGED <<accepted, wait, job, stray, excused, mishaps>>

\* SmartOLT answers with 2xx: the operation was done, or is declined.
Answer(s) ==
  /\ run[s].phase \in {"sent", "applied"}
  /\ run' = [run EXCEPT ![s].phase = "answered"]
  /\ UNCHANGED <<accepted, wait, job, stray, applied, excused, mishaps>>

\* A request that is given up may be lost, or be carried out later.
GiveUp(s) ==
  /\ \/ UNCHANGED stray
     \/ run[s].phase = "sent" /\ stray' = stray \cup {run[s].job}
  /\ Mishap(run[s].job)

\* The request fails or times out, and withRetry() is going to send another
\* one (SmartOLTClient counts).
Retry(s) ==
  /\ run[s].phase \in {"sent", "applied"}
  /\ GiveUp(s)
  /\ run' = [run EXCEPT ![s].phase = "pause"]
  /\ UNCHANGED <<accepted, wait, job, applied>>

\* The processor ends; this counts if its job is still its own.
End(s, state) ==
  LET j == run[s].job IN
  /\ run' = [run EXCEPT ![s] = FreeRun]
  /\ job' = IF job[j].owner # {s} THEN job
            ELSE [job EXCEPT ![j].state = state, ![j].owner = {}]

Return(s) ==
  /\ run[s].phase = "answered"
  /\ End(s, "completed")
  /\ UNCHANGED <<accepted, wait, stray, applied, excused, mishaps>>

\* The processor throws: there is no active tenant, the circuit breaker
\* refuses, the last request fails, or the audit row cannot be written.  Whether
\* an attempt is left is a matter of OnuJobs.
Throw(s) ==
  /\ run[s].phase \in {"start", "sent", "applied", "answered"}
  /\ GiveUp(s)
  /\ \E state \in {"delayed", "failed"} : End(s, state)
  /\ UNCHANGED <<accepted, wait, applied>>

\* The processor dies with its process; its job is going to stall.
Die(s) ==
  /\ run[s].phase # "free"
  /\ GiveUp(s)
  /\ run' = [run EXCEPT ![s] = FreeRun]
  /\ UNCHANGED <<accepted, wait, job, applied>>

\* SmartOLT carries out a request that was given up.
ApplyStray(j) ==
  /\ j \in stray
  /\ stray' \in {stray, stray \ {j}}
  /\ Effect(j)
  /\ UNCHANGED <<accepted, wait, job, run, excused, mishaps>>

OrderNext ==
  \/ Accept
  \/ \E s \in Slots :
       \/ Pick(s) \/ Send(s) \/ Apply(s) \/ Answer(s) \/ Retry(s) \/ Return(s)
       \/ Throw(s) \/ Die(s)
  \/ \E j \in Jobs : Promote(j) \/ Stall(j) \/ ApplyStray(j)

OrderSpec == OrderInit /\ [][OrderNext]_orderVars

-----------------------------------------------------------------------------
(* Properties                                                              *)

\* An operation takes effect after one that was accepted later only if the later
\* one was begun beside it, or if something went wrong with it: a request or an
\* attempt of it failed, or it stalled.  In particular a job that has completed
\* undisturbed takes no effect after any that a client sent when it saw that.
InOrderUnlessExcused ==
  [][\A i \in Jobs :
       ApplyStray(i) \/ (\E s \in Slots : Apply(s) /\ run[s].job = i)
         => {j \in applied : j > i} \subseteq excused[i]]_orderVars
=============================================================================
