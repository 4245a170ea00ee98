------------------------------ MODULE JobStatus ------------------------------
(***************************************************************************)
(* What GET /onus/jobs/:jobId and the queue counts of /health and /metrics *)
(* show of the jobs: getJobStatus() and getQueueMetrics() of               *)
(* services/queue/QueueService.ts, next to jobs that go through BullMQ     *)
(* (external: a job is its record in Redis).  Both read Redis more than    *)
(* once, and the jobs move between the reads.                              *)
(***************************************************************************)
EXTENDS Integers, FiniteSets

CONSTANTS
  Jobs,           \* job ids
  Pollers,        \* slots for the getJobStatus() calls in progress
  QueueAttempts   \* QUEUE_MAX_ATTEMPTS

ASSUME StatusAssumption ==
  /\ IsFiniteSet(Jobs)
  /\ QueueAttempts \in Nat \ {0}

VARIABLES
  job,    \* job[j]: the record of job j
  poll,   \* poll[p]: the call in slot p
  told,   \* history: told[j] are the final states that polls of j have answered
  tally   \* the getQueueMetrics() call: what it has counted so far

statusVars == <<job, poll, told, tally>>

-----------------------------------------------------------------------------
(* State                                                                   *)

Counted == <<"waiting", "active", "completed", "failed", "delayed">>
Final   == {"completed", "failed"}
Pending == {"waiting", "active", "delayed"}

\* state: the list of BullMQ's that has the job; "none": not yet added, or
\* removed, or its list evicted.  made: its failed attempts.  kept: whether the
\* job's own record is still there.  result, error: whether its returnvalue and
\* its failedReason were written; neither is cleared again.  added: history,
\* whether it was ever added.
NewJob == [state |-> "none", made |-> 0, kept |-> FALSE, result |-> FALSE,
           error |-> FALSE, added |-> FALSE]

\* phase: "idle", or "read" between the two reads.  result, error: those of the
\* record that getJob() has read.  before: the final states that had been told
\* when the call began.
NoPoll == [phase |-> "idle", job |-> CHOOSE j \in Jobs : TRUE,
           result |-> FALSE, error |-> FALSE, before |-> {}]

\* next: the count that is read next.  total: the sum of those read.  present:
\* the jobs in the queue when the call began.  moves: history, the changes of
\* the lists since then, counted up to MaxMoves.
NoTally == [next |-> 0, total |-> 0, present |-> 0, moves |-> 0]

MaxMoves == 5 * Cardinality(Jobs)

InState(states) == {j \in Jobs : job[j].state \in states}

Init ==
  /\ job = [j \in Jobs |-> NewJob]
  /\ poll = [p \in Pollers |-> NoPoll]
  /\ told = [j \in Jobs |-> {}]
  /\ tally = NoTally

-----------------------------------------------------------------------------
(* The jobs                                                                *)

\* n jobs change their list; a getQueueMetrics() call in progress may miss them
\* or count them twice.
Moved(n) ==
  /\ tally' = IF tally.next = 0 THEN tally
              ELSE [tally EXCEPT !.moves =
                      IF @ + n > MaxMoves THEN MaxMoves ELSE @ + n]
  /\ UNCHANGED <<poll, told>>

\* Job j becomes b.
Move(j, b) == job' = [job EXCEPT ![j] = b] /\ Moved(1)

\* addJob().
Add(j) ==
  /\ ~job[j].added
  /\ Move(j, [NewJob EXCEPT !.state = "waiting", !.kept = TRUE, !.added = TRUE])

Take(j) ==
  /\ job[j].state = "waiting" /\ job[j].kept
  /\ Move(j, [job[j] EXCEPT !.state = "active"])

\* The processor returns.
Return(j) ==
  /\ job[j].state = "active" /\ job[j].kept
  /\ Move(j, [job[j] EXCEPT !.state = "completed", !.result = TRUE])

\* The processor throws: failedReason is written with every failed attempt, and
\* is still there when a later one returns.
Throw(j) ==
  LET made == job[j].made + 1 IN
  /\ job[j].state = "active" /\ job[j].kept
  /\ Move(j, [job[j] EXCEPT !.made = made, !.error = TRUE,
                !.state = IF made < QueueAttempts THEN "delayed" ELSE "failed"])

\* The job's lock expires: it waits again, or fails when that is once too often.
Stall(j) ==
  /\ job[j].state = "active" /\ job[j].kept
  /\ \/ Move(j, [job[j] EXCEPT !.state = "waiting"])
     \/ Move(j, [job[j] EXCEPT !.state = "failed", !.error = TRUE])

\* The backoff ends.
Promote(j) ==
  /\ job[j].state = "delayed" /\ job[j].kept
  /\ Move(j, [job[j] EXCEPT !.state = "waiting"])

\* removeOnComplete, removeOnFail: a finished job is removed for its age, or
\* for the number of those that finished after it, whoever's they are.
Remove(j) ==
  /\ job[j].state \in Final
  /\ Move(j, [NewJob EXCEPT !.added = TRUE])

\* Redis evicts the job's record, under the maxmemory-policy allkeys-lru of
\* docker-compose.yml, whether the job has run or not.  The list keeps its id.
Evict(j) ==
  /\ job[j].kept
  /\ job' = [job EXCEPT ![j].kept = FALSE]
  /\ UNCHANGED <<poll, told, tally>>

\* Redis evicts one of the lists: getState() finds its jobs nowhere, though
\* their records are there.  No job comes back: BullMQ moves a job only out of
\* the list that has it.
EvictList(state) ==
  LET gone == InState({state}) IN
  /\ gone # {}
  /\ job' = [j \in Jobs |->
               IF j \in gone THEN [job[j] EXCEPT !.state = "none"] ELSE job[j]]
  /\ Moved(Cardinality(gone))

-----------------------------------------------------------------------------
(* getJobStatus()                                                          *)

\* Mutant: a job that has been read once is not read again.
GetJobOnce(p, j) ==
  /\ poll[p].phase = "idle"
  /\ job[j].kept
  /\ poll' = [poll EXCEPT ![p] =
       [phase |-> "read", job |-> j, before |-> told[j],
        result |-> told[j] = {} /\ job[j].result,
        error |-> told[j] = {} /\ job[j].error]]
  /\ UNCHANGED <<job, told, tally>>

\* getJob() finds the record.  Any id can be asked for.
GetJob(p, j) ==
  /\ poll[p].phase = "idle"
  /\ job[j].kept
  /\ poll' = [poll EXCEPT ![p] =
       [phase |-> "read", job |-> j, before |-> told[j],
        result |-> job[j].result, error |-> job[j].error]]
  /\ UNCHANGED <<job, told, tally>>

\* getState(), which looks for the id in the lists; the answer joins it with
\* the result and the error read before.  A job removed meanwhile is "unknown".
GetState(p) ==
  LET q == poll[p] IN
  /\ q.phase = "read"
  /\ told' = [told EXCEPT ![q.job] = @ \cup (Final \cap {job[q.job].state})]
  /\ poll' = [poll EXCEPT ![p] = NoPoll]
  /\ UNCHANGED <<job, tally>>

\* Redis fails, and the answer is 500.
PollFails(p) ==
  /\ poll[p].phase = "read"
  /\ poll' = [poll EXCEPT ![p] = NoPoll]
  /\ UNCHANGED <<job, told, tally>>

\* What the call in slot p answers if its second read is done now.
Answer(p) == [status |-> job[poll[p].job].state,
              result |-> poll[p].result, error |-> poll[p].error]

-----------------------------------------------------------------------------
(* getQueueMetrics()                                                       *)

TallyStart ==
  /\ tally.next = 0
  /\ tally' = [NoTally EXCEPT !.next = 1,
                              !.present = Cardinality(InState(Pending \cup Final))]
  /\ UNCHANGED <<job, poll, told>>

\* Mutant: jobs in their backoff are left out.
TallyNextButDelayed ==
  /\ tally.next \in 1..5
  /\ tally' = [tally EXCEPT
       !.next = IF @ = 4 THEN 6 ELSE @ + 1, !.total = @ + Cardinality(InState({Counted[tally.next]}))]
  /\ UNCHANGED <<job, poll, told>>

\* The five counts are sent together, down one connection: Redis runs them in
\* order, with commands of other connections in between.
TallyNext ==
  /\ tally.next \in 1..5
  /\ tally' = [tally EXCEPT
       !.next = @ + 1, !.total = @ + Cardinality(InState({Counted[tally.next]}))]
  /\ UNCHANGED <<job, poll, told>>

TallyEnd ==
  /\ tally.next = 6
  /\ tally' = NoTally
  /\ UNCHANGED <<job, poll, told>>

Next ==
  \/ \E j \in Jobs :
       \/ Add(j) \/ Take(j) \/ Return(j) \/ Throw(j) \/ Stall(j) \/ Promote(j)
       \/ Remove(j) \/ Evict(j)
       \/ \E p \in Pollers : GetJob(p, j)
  \/ \E state \in Pending \cup Final : EvictList(state)
  \/ \E p \in Pollers : GetState(p) \/ PollFails(p)
  \/ TallyStart \/ TallyNext \/ TallyEnd

Spec == Init /\ [][Next]_statusVars

-----------------------------------------------------------------------------
(* Properties                                                              *)

\* A client that is told of a job's end and asks once more gets the same end
\* with its result or error, unless the job has been removed or its list
\* evicted, and a failed job has no result.  The first such answer may lack the
\* result or error of its state: getJobStatus() reads the record before the
\* state.  A completed job may have the error of an earlier attempt beside its
\* result, in every answer.
SecondAnswerIsWhole ==
  \A p \in Pollers :
    poll[p].phase = "read" /\ poll[p].before # {} =>
      \/ Answer(p).status = "none"
      \/ /\ Answer(p).status \in poll[p].before
         /\ Answer(p).result <=> Answer(p).status = "completed"
         /\ Answer(p).status = "failed" => Answer(p).error

\* The five counts of /health and /metrics are not of one moment, but their sum
\* is off by no more than the number of jobs' moves meanwhile.
TallyOffByMoves ==
  tally.next = 6 =>
    /\ tally.total <= tally.present + tally.moves
    /\ tally.present <= tally.total + tally.moves

=============================================================================
