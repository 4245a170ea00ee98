------------------------------ MODULE OnuJobs ------------------------------
(***************************************************************************)
(* The queued ONU operations of one tenant: ONUService.enqueueOperation()  *)
(* adds a job (services/queue/QueueService.ts), BullMQ hands it to the     *)
(* processor of services/queue/workers/onu.worker.ts, which checks the     *)
(* tenant, posts the operation to SmartOLT and writes an audit row.        *)
(*                                                                         *)
(* A step of the processor is what happens between two of its awaits.  The *)
(* process may die between any two of them, which is also what the         *)
(* shutdown of app.ts does to active jobs: nothing calls closeAll().       *)
(* BullMQ (external) keeps its state in Redis, which survives, but evicts  *)
(* what it likes when it is full (docker-compose.yml, allkeys-lru).  It    *)
(* takes a job whose lock is not renewed for stalled, and that need not    *)
(* mean that its processor is dead.                                        *)
(***************************************************************************)
EXTENDS Integers, FiniteSets

CONSTANTS
  Jobs,            \* job ids
  Slots,           \* QUEUE_CONCURRENCY places to run a processor in
  QueueAttempts,   \* QUEUE_MAX_ATTEMPTS
  RetryAttempts,   \* SMARTOLT_RETRY_ATTEMPTS, of withRetry() in the client
  MaxStalls,       \* BullMQ's maxStalledCount, which is left at its default
  MaxCrashes,      \* bound: how often the process dies
  Nobody           \* the owner of a job that no processor is running

ASSUME JobsAssumption ==
  /\ Jobs # {}
  /\ IsFiniteSet(Slots) /\ Nobody \notin Slots
  /\ QueueAttempts \in Nat \ {0}
  /\ RetryAttempts \in Nat \ {0}
  /\ MaxStalls \in Nat
  /\ MaxCrashes \in Nat

VARIABLES
  job,      \* job[j]: the job as BullMQ keeps it
  run,      \* run[s]: the processor in slot s
  tenant,   \* the tenant's row: "active", "inactive", "gone"
  audits,   \* audits[j]: the number of audit rows for j
  posts,    \* history: posts[j] counts the HTTP requests sent for j
  effects,  \* history: effects[j] counts those that SmartOLT carried out
  crashes   \* history: how often the process has died

jobsVars == <<job, run, tenant, audits, posts, effects, crashes>>

-----------------------------------------------------------------------------
(* State                                                                   *)

JobState == {"unknown", "waiting", "active", "delayed", "completed", "failed",
             "lost"}
Final    == {"completed", "failed"}

\* made: attemptsMade.  owner: the slot that holds the job's lock.  success:
\* the field of the return value of a completed job.
Job == [state : JobState, made : 0..QueueAttempts, stalls : 0..MaxStalls,
        owner : Slots \cup {Nobody}, success : BOOLEAN]

NewJob == [state |-> "unknown", made |-> 0, stalls |-> 0,
           owner |-> Nobody, success |-> FALSE]

\* Where a processor is: before the tenant is read, before an HTTP request is
\* sent (the first one, or the next one after a pause), before the answer to
\* request number `tries`, before the audit row is written, and after it has
\* returned or thrown.
RunPhase == {"free", "check", "send", "post", "audit", "return", "throw"}

Run == [phase : RunPhase, job : Jobs, tries : 0..RetryAttempts, success : BOOLEAN]

FreeRun == [phase |-> "free", job |-> CHOOSE j \in Jobs : TRUE,
            tries |-> 0, success |-> FALSE]

Init ==
  /\ job = [j \in Jobs |-> NewJob]
  /\ run = [s \in Slots |-> FreeRun]
  /\ tenant = "active"
  /\ audits = [j \in Jobs |-> 0]
  /\ posts = [j \in Jobs |-> 0]
  /\ effects = [j \in Jobs |-> 0]
  /\ crashes = 0

-----------------------------------------------------------------------------
(* The queue                                                               *)

\* enqueueOperation().
Enqueue(j) ==
  /\ job[j].state = "unknown"
  /\ job' = [job EXCEPT ![j].state = "waiting"]
  /\ UNCHANGED <<run, tenant, audits, posts, effects, crashes>>

\* The worker takes a job and calls the processor.
Pick(s, j) ==
  /\ run[s].phase = "free"
  /\ job[j].state = "waiting"
  /\ job' = [job EXCEPT ![j].state = "active", ![j].owner = s]
  /\ run' = [run EXCEPT ![s] = [FreeRun EXCEPT !.phase = "check", !.job = j]]
  /\ UNCHANGED <<tenant, audits, posts, effects, crashes>>

\* The backoff of a failed attempt is over.
Promote(j) ==
  /\ job[j].state = "delayed"
  /\ job' = [job EXCEPT ![j].state = "waiting"]
  /\ UNCHANGED <<run, tenant, audits, posts, effects, crashes>>

\* Mutant: a stalled job is always given another run.
StalledForever(b) == [b EXCEPT !.state = "waiting", !.owner = Nobody]

\* Mutant: one stall too many.
StalledOnceMore(b) ==
  IF b.stalls <= MaxStalls
  THEN [b EXCEPT !.state = "waiting", !.owner = Nobody, !.stalls = @ + 1]
  ELSE [b EXCEPT !.state = "failed", !.owner = Nobody]

\* What becomes of a job whose lock has expired.
Stalled(b) ==
  IF b.stalls < MaxStalls
  THEN [b EXCEPT !.state = "waiting", !.owner = Nobody, !.stalls = @ + 1]
  ELSE [b EXCEPT !.state = "failed", !.owner = Nobody]

\* The processor of the job's owner has died with the process.
Orphaned(j) ==
  /\ job[j].state = "active"
  /\ \A s \in Slots : ~(job[j].owner = s /\ run[s].phase # "free" /\ run[s].job = j)

\* The lock of an orphaned job expires.
Recover(j) ==
  /\ Orphaned(j)
  /\ job' = [job EXCEPT ![j] = Stalled(@)]
  /\ UNCHANGED <<run, tenant, audits, posts, effects, crashes>>

\* The lock of a running job expires: Redis could not be reached, or the
\* event loop was blocked.  Its processor knows nothing of it.
LoseLock(j) ==
  /\ job[j].state = "active"
  /\ ~Orphaned(j)
  /\ job' = [job EXCEPT ![j] = Stalled(@)]
  /\ UNCHANGED <<run, tenant, audits, posts, effects, crashes>>

\* Redis has the job no more, or not where a worker would find it: it has
\* ended and BullMQ removes it (removeOnComplete, removeOnFail), or its record
\* or the list with its id is evicted, wherever it is.  A processor that runs
\* it knows nothing of it.
Forget(j) ==
  /\ job[j].state \notin {"unknown", "lost"}
  /\ job' = [job EXCEPT ![j].state = "lost", ![j].owner = Nobody]
  /\ UNCHANGED <<run, tenant, audits, posts, effects, crashes>>

-----------------------------------------------------------------------------
(* The processor of onu.worker.ts                                          *)

\* findUnique(): the query fails, or there is no active tenant, and the
\* processor throws; otherwise it goes on to smartOLTClient.post().
Check(s) ==
  /\ run[s].phase = "check"
  /\ \/ tenant = "active" /\ run' = [run EXCEPT ![s].phase = "send"]
     \/ run' = [run EXCEPT ![s].phase = "throw"]
  /\ UNCHANGED <<job, tenant, audits, posts, effects, crashes>>

\* Mutant: a refused call is written to the audit log as well.
RefuseAudited(s) ==
  /\ run[s].phase = "send"
  /\ run[s].tries = 0
  /\ run' = [run EXCEPT ![s].phase = "throw"]
  /\ audits' = [audits EXCEPT ![run[s].job] = @ + 1]
  /\ UNCHANGED <<job, tenant, posts, effects, crashes>>

\* The circuit breaker refuses the call, which it does only at its start.
Refuse(s) ==
  /\ run[s].phase = "send"
  /\ run[s].tries = 0
  /\ run' = [run EXCEPT ![s].phase = "throw"]
  /\ UNCHANGED <<job, tenant, audits, posts, effects, crashes>>

\* An HTTP request is sent.
Send(s) ==
  /\ run[s].phase = "send"
  /\ run' = [run EXCEPT ![s].phase = "post", ![s].tries = @ + 1]
  /\ posts' = [posts EXCEPT ![run[s].job] = @ + 1]
  /\ UNCHANGED <<job, tenant, audits, effects, crashes>>

\* SmartOLT has answered with 2xx; `success` is its own word for the outcome.
PostAnswered(s) ==
  /\ run[s].phase = "post"
  /\ \E ok \in BOOLEAN :
       /\ run' = [run EXCEPT ![s].phase = "audit", ![s].success = ok]
       /\ effects' = IF ok THEN [effects EXCEPT ![run[s].job] = @ + 1] ELSE effects
  /\ UNCHANGED <<job, tenant, audits, posts, crashes>>

\* The HTTP request has failed, before or after SmartOLT carried it out; it
\* is going to be sent again, or post() throws.
PostFails(s) ==
  /\ run[s].phase = "post"
  /\ run' = [run EXCEPT ![s].phase = IF run[s].tries < RetryAttempts
                                     THEN "send" ELSE "throw"]
  /\ \E done \in {0, 1} : effects' = [effects EXCEPT ![run[s].job] = @ + done]
  /\ UNCHANGED <<job, tenant, audits, posts, crashes>>

\* Mutant: a failure to write the audit row is ignored.
AuditIgnoringErrors(s) ==
  /\ run[s].phase = "audit"
  /\ audits' \in {audits, [audits EXCEPT ![run[s].job] = @ + 1]}
  /\ run' = [run EXCEPT ![s].phase = "return"]
  /\ UNCHANGED <<job, tenant, posts, effects, crashes>>

\* auditLog.create(): it fails if the tenant is gone, a foreign key, or for
\* any reason of the database's, and the processor throws.  The row may have
\* been committed all the same, and only the answer lost.
Audit(s) ==
  /\ run[s].phase = "audit"
  /\ \/ /\ tenant # "gone"
        /\ audits' = [audits EXCEPT ![run[s].job] = @ + 1]
        /\ \E phase \in {"return", "throw"} : run' = [run EXCEPT ![s].phase = phase]
     \/ /\ run' = [run EXCEPT ![s].phase = "throw"]
        /\ UNCHANGED audits
  /\ UNCHANGED <<job, tenant, posts, effects, crashes>>

\* What becomes of a job whose processor has thrown.
Thrown(b) ==
  LET made == b.made + 1
  IN  [b EXCEPT !.made = made, !.owner = Nobody,
                !.state = IF made < QueueAttempts THEN "delayed" ELSE "failed"]

\* Mutant: an outcome counts although the lock is lost.
FinishWithoutLock(s) ==
  LET j == run[s].job
      b == job[j]
  IN
  /\ run[s].phase \in {"return", "throw"}
  /\ job' =
       IF run[s].phase = "throw" THEN [job EXCEPT ![j] = Thrown(b)]
       ELSE [job EXCEPT ![j] = [b EXCEPT !.state = "completed", !.owner = Nobody,
                                         !.success = run[s].success]]
  /\ run' = [run EXCEPT ![s] = FreeRun]
  /\ UNCHANGED <<tenant, audits, posts, effects, crashes>>

\* The worker reports the end of the processor, if it still holds the lock.
Finish(s) ==
  LET j == run[s].job
      b == job[j]
  IN
  /\ run[s].phase \in {"return", "throw"}
  /\ job' =
       IF b.owner # s THEN job
       ELSE IF run[s].phase = "throw" THEN [job EXCEPT ![j] = Thrown(b)]
       ELSE [job EXCEPT ![j] = [b EXCEPT !.state = "completed", !.owner = Nobody,
                                         !.success = run[s].success]]
  /\ run' = [run EXCEPT ![s] = FreeRun]
  /\ UNCHANGED <<tenant, audits, posts, effects, crashes>>

-----------------------------------------------------------------------------
(* The surroundings                                                        *)

\* The process dies, or shuts down, and is started again.
Crash ==
  /\ crashes < MaxCrashes
  /\ crashes' = crashes + 1
  /\ run' = [s \in Slots |-> FreeRun]
  /\ UNCHANGED <<job, tenant, audits, posts, effects>>

\* TenantService.toggleStatus() and delete(), which cascades to audit rows.
ToggleTenant ==
  /\ tenant # "gone"
  /\ tenant' = IF tenant = "active" THEN "inactive" ELSE "active"
  /\ UNCHANGED <<job, run, audits, posts, effects, crashes>>

DeleteTenant ==
  /\ tenant # "gone"
  /\ tenant' = "gone"
  /\ audits' = [j \in Jobs |-> 0]
  /\ UNCHANGED <<job, run, posts, effects, crashes>>

Next ==
  \/ \E j \in Jobs :
       \/ Enqueue(j) \/ Promote(j) \/ Recover(j) \/ LoseLock(j) \/ Forget(j)
       \/ \E s \in Slots : Pick(s, j)
  \/ \E s \in Slots :
       \/ Check(s) \/ Refuse(s) \/ Send(s) \/ PostAnswered(s) \/ PostFails(s)
       \/ Audit(s) \/ Finish(s)
  \/ Crash
  \/ ToggleTenant
  \/ DeleteTenant

Spec == Init /\ [][Next]_jobsVars

\* Every await of the processor is settled, and BullMQ's timers run: the
\* worker takes waiting jobs, ends backoffs and looks for expired locks.
Fairness ==
  /\ \A j \in Jobs :
       /\ WF_jobsVars(\E s \in Slots : Pick(s, j))
       /\ WF_jobsVars(Promote(j))
       /\ WF_jobsVars(Recover(j))
  /\ \A s \in Slots :
       WF_jobsVars(\/ Check(s) \/ Refuse(s) \/ Send(s) \/ PostAnswered(s)
                   \/ PostFails(s) \/ Audit(s) \/ Finish(s))

FairSpec == Spec /\ Fairness

-----------------------------------------------------------------------------
(* Properties                                                              *)

TypeOK ==
  /\ job \in [Jobs -> Job]
  /\ run \in [Slots -> Run]
  /\ tenant \in {"active", "inactive", "gone"}
  /\ audits \in [Jobs -> Nat]
  /\ posts \in [Jobs -> Nat]
  /\ effects \in [Jobs -> Nat]
  /\ crashes \in 0..MaxCrashes

\* A job that GET /onus/jobs/:jobId reports as completed was posted, was
\* carried out if it reports success, and has its audit row: across retries,
\* a stalled job's second run, a crash and the other run's interference.
CompletedMeansDone ==
  \A j \in Jobs : job[j].state = "completed" =>
    /\ posts[j] >= 1
    /\ job[j].success => effects[j] >= 1
    /\ tenant # "gone" => audits[j] >= 1

\* An operation that is not idempotent (authorize, reboot, restore factory) is
\* posted at most this often, all retries and stalls together.
PostsBounded ==
  \A j \in Jobs : posts[j] <= RetryAttempts * (QueueAttempts + MaxStalls)

\* Rows in the audit log stand for posts: a retry may log an operation again,
\* but never one that was not posted.
AuditsArePosted ==
  \A j \in Jobs : audits[j] <= posts[j]

\* What a client of the queue may rely on.
Abstract == INSTANCE AtLeastOnceJobs WITH
  outcome <- [j \in Jobs |->
                IF job[j].state \in Final \cup {"unknown", "lost"}
                THEN job[j].state ELSE "pending"],
  tried <- [j \in Jobs |-> posts[j] > 0]

\* The queue with its workers is a queue of at-least-once jobs: a job that
\* was accepted ends, once and for good, unless Redis loses it first, and is
\* completed only if tried.
ImplementsAtLeastOnce == Abstract!FairSpec

\* README.md:268 says that "Audit logs track all operations per tenant": an
\* operation that SmartOLT has carried out would be in the log when its job
\* has ended.  It is not when the answer was lost, or the row not written, in
\* every attempt.
EffectsAudited ==
  \A j \in Jobs :
    /\ job[j].state \in Final
    /\ \A s \in Slots : run[s].phase # "free" => run[s].job # j
    /\ tenant # "gone"
    /\ effects[j] > 0
    => audits[j] > 0
=============================================================================
