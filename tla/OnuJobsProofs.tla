--------------------------- MODULE OnuJobsProofs ---------------------------
(***************************************************************************)
(* Theorems of OnuJobs, for any jobs, any finite number of slots, and any  *)
(* number of attempts, retries, stalls and crashes.                        *)
(*                                                                         *)
(* The inductive invariant is IInv.  That posts are bounded is shown by    *)
(* counting those that may still come: the pairs of a slot and a number of *)
(* a request that its processor has not sent (PostsLeft), and the runs     *)
(* that BullMQ may still start (Future), of RetryAttempts requests each.   *)
(***************************************************************************)
EXTENDS OnuJobs, FiniteSetTheorems, TLAPS

\* A job that has ended or is lost is not run again.
Over(b) == b.state \in Final \cup {"lost"}

\* A job is active as long as some slot has its lock, and has an attempt left
\* as long as it is not over.
JobOK(b) ==
  /\ b.state = "active" <=> b.owner # Nobody
  /\ ~Over(b) => b.made < QueueAttempts

JobsOK == \A j \in Jobs : JobOK(job[j])

\* What a processor has done when it has reached its phase.
RunOK(s) ==
  LET q == run[s] IN
  /\ q.phase # "free" => job[q.job].state # "unknown"
  /\ q.phase = "check" => q.tries = 0
  /\ q.phase = "send" => q.tries < RetryAttempts
  /\ q.phase = "post" => q.tries >= 1
  /\ q.phase \in {"post", "audit", "return"} => posts[q.job] >= 1
  /\ q.phase \in {"audit", "return"} /\ q.success => effects[q.job] >= 1
  /\ q.phase = "return" /\ tenant # "gone" => audits[q.job] >= 1

RunsOK == \A s \in Slots : RunOK(s)

\* The runs of a job that may still be started.
Future(b) ==
  IF Over(b) THEN 0
  ELSE (QueueAttempts - b.made) + (MaxStalls - b.stalls)
         - (IF b.state = "active" THEN 1 ELSE 0)

\* The requests for j that the runs rs may still send.
PostsLeft(rs, j) ==
  {p \in Slots \X (1..RetryAttempts) :
     rs[p[1]].phase # "free" /\ rs[p[1]].job = j /\ rs[p[1]].tries < p[2]}

PostsCounted ==
  \A j \in Jobs :
    posts[j] + Cardinality(PostsLeft(run, j)) + RetryAttempts * Future(job[j])
      <= RetryAttempts * (QueueAttempts + MaxStalls)

\* A processor that has sent a request and may still write the audit row.
Owes(q) == q.phase \in {"post", "audit"} \/ (q.phase = "send" /\ q.tries > 0)

Owing(rs, j) == {s \in Slots : Owes(rs[s]) /\ rs[s].job = j}

AuditsCounted ==
  \A j \in Jobs : audits[j] + Cardinality(Owing(run, j)) <= posts[j]

IInv ==
  /\ TypeOK
  /\ JobsOK
  /\ RunsOK
  /\ CompletedMeansDone
  /\ PostsCounted
  /\ AuditsCounted
-----------------------------------------------------------------------------
(* Counting                                                                *)

\* What is counted is finite.
LEMMA CountsFinite ==
  ASSUME NEW rs, NEW j
  PROVE  /\ IsFiniteSet(PostsLeft(rs, j)) /\ Cardinality(PostsLeft(rs, j)) \in Nat
         /\ IsFiniteSet(Owing(rs, j)) /\ Cardinality(Owing(rs, j)) \in Nat
<1>1. IsFiniteSet(Slots)
  BY JobsAssumption DEF JobsAssumption
<1>2. IsFiniteSet(1..RetryAttempts)
  BY JobsAssumption, FS_Interval DEF JobsAssumption
<1>3. IsFiniteSet(Slots \X (1..RetryAttempts))
  BY <1>1, <1>2, FS_Product
<1>4. PostsLeft(rs, j) \in SUBSET (Slots \X (1..RetryAttempts))
  BY DEF PostsLeft
<1>5. Owing(rs, j) \in SUBSET Slots
  BY DEF Owing
<1>6. IsFiniteSet(PostsLeft(rs, j))
  BY <1>3, <1>4, FS_Subset
<1>7. IsFiniteSet(Owing(rs, j))
  BY <1>1, <1>5, FS_Subset
<1> QED  BY <1>6, <1>7, FS_CardinalityType

\* Runs that end, or get on, have no more requests to send than before.
LEMMA FewerLeft ==
  ASSUME NEW cs \in [Slots -> Run], NEW ds \in [Slots -> Run], NEW j,
         \A s \in Slots : ds[s].phase # "free" =>
           cs[s].phase # "free" /\ cs[s].job = ds[s].job /\ cs[s].tries <= ds[s].tries
  PROVE  Cardinality(PostsLeft(ds, j)) <= Cardinality(PostsLeft(cs, j))
<1>1. PostsLeft(ds, j) \in SUBSET PostsLeft(cs, j)
  <2> SUFFICES ASSUME NEW p \in PostsLeft(ds, j)
               PROVE  p \in PostsLeft(cs, j)
    OBVIOUS
  <2>1. /\ p \in Slots \X (1..RetryAttempts)
        /\ ds[p[1]].phase # "free" /\ ds[p[1]].job = j /\ ds[p[1]].tries < p[2]
    BY DEF PostsLeft
  <2>2. p[1] \in Slots /\ p[2] \in Int
    BY <2>1, JobsAssumption DEF JobsAssumption
  <2>3. cs[p[1]].tries \in Int /\ ds[p[1]].tries \in Int
    BY <2>2, JobsAssumption DEF JobsAssumption, Run
  <2>4. cs[p[1]].tries < p[2]
    BY <2>1, <2>2, <2>3
  <2> QED  BY <2>1, <2>2, <2>4 DEF PostsLeft
<1> QED  BY <1>1, CountsFinite, FS_Subset

\* If a run sends a request, one less is left.
LEMMA OneLeftLess ==
  ASSUME NEW cs \in [Slots -> Run], NEW s \in Slots, NEW q \in Run,
         cs[s].phase # "free", q.phase # "free", q.job = cs[s].job,
         cs[s].tries < RetryAttempts, q.tries = cs[s].tries + 1
  PROVE  Cardinality(PostsLeft([cs EXCEPT ![s] = q], q.job))
           = Cardinality(PostsLeft(cs, q.job)) - 1
<1> DEFINE ds == [cs EXCEPT ![s] = q]
           n == q.tries
           x == <<s, n>>
           R == PostsLeft(cs, q.job)
<1>1. n \in 1..RetryAttempts /\ cs[s].tries \in Int
  BY JobsAssumption DEF JobsAssumption, Run
<1>2. x \in R
  BY <1>1 DEF PostsLeft
<1>3. ds[s] = q /\ \A t \in Slots : t # s => ds[t] = cs[t]
  OBVIOUS
<1>4. PostsLeft(ds, q.job) = R \ {x}
  <2> SUFFICES ASSUME NEW p \in Slots \X (1..RetryAttempts)
               PROVE  p \in PostsLeft(ds, q.job) <=> p \in R /\ p # x
    BY DEF PostsLeft
  <2>1. p[1] \in Slots /\ p[2] \in Int /\ p = <<p[1], p[2]>>
    BY JobsAssumption DEF JobsAssumption
  <2> HIDE DEF ds
  <2>2. CASE p[1] = s
    <3>1. p \in PostsLeft(ds, q.job) <=> n < p[2]
      BY <1>3, <2>2 DEF PostsLeft
    <3>2. p \in R <=> cs[s].tries < p[2]
      BY <2>2 DEF PostsLeft
    <3>3. p # x <=> p[2] # n
      BY <2>1, <2>2
    <3> QED  BY <1>1, <2>1, <3>1, <3>2, <3>3
  <2>3. CASE p[1] # s
    <3>1. p # x
      BY <2>3
    <3> QED  BY <1>3, <2>1, <2>3, <3>1 DEF PostsLeft
  <2> QED  BY <2>2, <2>3
<1> HIDE DEF ds, x, R
<1>5. Cardinality(R \ {x}) = Cardinality(R) - 1
  BY <1>2, CountsFinite, FS_RemoveElement DEF R
<1> QED  BY <1>4, <1>5 DEF ds, R

\* A run that begins may send RetryAttempts requests.
LEMMA NewRunLeft ==
  ASSUME NEW cs \in [Slots -> Run], NEW s \in Slots, NEW q \in Run
  PROVE  Cardinality(PostsLeft([cs EXCEPT ![s] = q], q.job))
           <= Cardinality(PostsLeft(cs, q.job)) + RetryAttempts
<1> DEFINE ds == [cs EXCEPT ![s] = q]
           R == PostsLeft(cs, q.job)
           N == {s} \X (1..RetryAttempts)
<1>1. IsFiniteSet(N) /\ Cardinality(N) = RetryAttempts
  <2>1. IsFiniteSet({s}) /\ Cardinality({s}) = 1
    BY FS_Singleton
  <2>2. IsFiniteSet(1..RetryAttempts) /\ Cardinality(1..RetryAttempts) = RetryAttempts
    BY JobsAssumption, FS_Interval DEF JobsAssumption
  <2>3. /\ IsFiniteSet(N)
        /\ Cardinality(N) = Cardinality({s}) * Cardinality(1..RetryAttempts)
    BY <2>1, <2>2, FS_Product
  <2> HIDE DEF N
  <2>4. Cardinality(N) = 1 * RetryAttempts
    BY <2>1, <2>2, <2>3
  <2> QED  BY <2>3, <2>4, JobsAssumption DEF JobsAssumption
<1>2. PostsLeft(ds, q.job) \in SUBSET (R \cup N)
  <2> SUFFICES ASSUME NEW p \in PostsLeft(ds, q.job), p \notin R
               PROVE  p \in N
    OBVIOUS
  <2>1. p \in Slots \X (1..RetryAttempts)
    BY DEF PostsLeft
  <2>2. p[1] = s
    BY <2>1 DEF PostsLeft
  <2> QED  BY <2>1, <2>2
<1> HIDE DEF ds, R, N
<1>3. IsFiniteSet(R) /\ Cardinality(R) \in Nat
  BY CountsFinite DEF R
<1>4. /\ IsFiniteSet(R \cup N)
      /\ Cardinality(R \cup N) = Cardinality(R) + Cardinality(N) - Cardinality(R \cap N)
  BY <1>1, <1>3, FS_Union
<1>5. IsFiniteSet(R \cap N)
  BY <1>3, FS_Intersection
<1>6. Cardinality(R \cap N) \in Nat
  BY <1>5, FS_CardinalityType
<1>7. Cardinality(PostsLeft(ds, q.job)) <= Cardinality(R \cup N)
  BY <1>2, <1>4, FS_Subset
<1>8. Cardinality(PostsLeft(ds, q.job)) \in Nat /\ RetryAttempts \in Nat
  BY CountsFinite, JobsAssumption DEF JobsAssumption
<1> QED  BY <1>1, <1>3, <1>4, <1>6, <1>7, <1>8 DEF ds, R

\* Where slot s does not begin to owe, no more rows are owed.
LEMMA FewerOwe ==
  ASSUME NEW cs, NEW ds, NEW j,
         \A s \in Slots : Owes(ds[s]) => Owes(cs[s]) /\ ds[s].job = cs[s].job
  PROVE  Cardinality(Owing(ds, j)) <= Cardinality(Owing(cs, j))
<1>1. Owing(ds, j) \in SUBSET Owing(cs, j)
  BY DEF Owing
<1> QED  BY <1>1, CountsFinite, FS_Subset

\* One slot owes one row.
LEMMA OneOweMore ==
  ASSUME NEW cs \in [Slots -> Run], NEW s \in Slots, NEW q \in Run, NEW j
  PROVE  Cardinality(Owing([cs EXCEPT ![s] = q], j)) <= Cardinality(Owing(cs, j)) + 1
<1> DEFINE ds == [cs EXCEPT ![s] = q]
           O == Owing(cs, j)
<1>1. Owing(ds, j) \in SUBSET (O \cup {s})
  BY DEF Owing
<1> HIDE DEF ds, O
<1>2. IsFiniteSet(O) /\ Cardinality(O) \in Nat
  BY CountsFinite DEF O
<1>3. /\ IsFiniteSet(O \cup {s})
      /\ Cardinality(O \cup {s}) = IF s \in O THEN Cardinality(O) ELSE Cardinality(O) + 1
  BY <1>2, FS_AddElement
<1>4. Cardinality(Owing(ds, j)) <= Cardinality(O \cup {s})
  BY <1>1, <1>3, FS_Subset
<1>5. Cardinality(Owing(ds, j)) \in Nat
  BY CountsFinite
<1> QED  BY <1>2, <1>3, <1>4, <1>5 DEF ds, O

\* A slot that has paid owes no more.
LEMMA OneOweLess ==
  ASSUME NEW cs \in [Slots -> Run], NEW s \in Slots, NEW q \in Run,
         Owes(cs[s]), ~Owes(q), q.job = cs[s].job
  PROVE  Cardinality(Owing([cs EXCEPT ![s] = q], q.job)) = Cardinality(Owing(cs, q.job)) - 1
<1> DEFINE ds == [cs EXCEPT ![s] = q]
           O == Owing(cs, q.job)
<1>1. s \in O
  BY DEF Owing
<1>2. Owing(ds, q.job) = O \ {s}
  BY DEF Owing
<1> HIDE DEF ds, O
<1>3. Cardinality(O \ {s}) = Cardinality(O) - 1
  BY <1>1, CountsFinite, FS_RemoveElement DEF O
<1> QED  BY <1>2, <1>3 DEF ds, O

-----------------------------------------------------------------------------
(* The kinds of steps                                                      *)

\* What a completed job b of id j stands for.
Done(j, b) ==
  /\ posts[j] >= 1
  /\ b.success => effects[j] >= 1
  /\ tenant # "gone" => audits[j] >= 1

\* The runs to come are a natural number.
LEMMA FutureType ==
  ASSUME NEW b \in Job, JobOK(b)
  PROVE  Future(b) \in Nat
BY JobsAssumption DEF JobsAssumption, Job, JobState, Final, Over, JobOK, Future

\* Steps that change the record of one job to c, without a run to come more
\* than before, and leave each processor alone or end it.
LEMMA JobStep ==
  ASSUME IInv, NEW j \in Jobs, NEW c \in Job, JobOK(c),
         Future(c) <= Future(job[j]),
         c.state = "unknown" => job[j].state = "unknown",
         c.state = "completed" => Done(j, c),
         job' = [job EXCEPT ![j] = c],
         run' \in [Slots -> Run],
         \A s \in Slots : run'[s] = run[s] \/ run'[s] = FreeRun,
         crashes' \in 0..MaxCrashes,
         UNCHANGED <<tenant, audits, posts, effects>>
  PROVE  IInv'
<1>1. /\ job'[j] = c
      /\ \A i \in Jobs : i # j => job'[i] = job[i]
  BY DEF IInv, TypeOK
<1>2. TypeOK'
  BY DEF IInv, TypeOK
<1>3. JobsOK'
  BY <1>1 DEF IInv, JobsOK
<1>4. RunsOK'
  <2> SUFFICES ASSUME NEW s \in Slots
               PROVE  RunOK(s)'
    BY DEF RunsOK
  <2>1. CASE run'[s] = FreeRun
    BY <2>1 DEF RunOK, FreeRun
  <2>2. CASE run'[s] = run[s]
    <3>1. RunOK(s) /\ run[s].job \in Jobs
      BY DEF IInv, RunsOK, TypeOK, Run
    <3>2. job'[run[s].job].state = "unknown" => job[run[s].job].state = "unknown"
      BY <1>1, <3>1
    <3> QED  BY <2>2, <3>1, <3>2 DEF RunOK
  <2> QED  BY <2>1, <2>2
<1>5. CompletedMeansDone'
  BY <1>1 DEF IInv, CompletedMeansDone, Done
<1>6. PostsCounted'
  <2> SUFFICES ASSUME NEW i \in Jobs
               PROVE  posts'[i] + Cardinality(PostsLeft(run', i)) + RetryAttempts * Future(job'[i])
                        <= RetryAttempts * (QueueAttempts + MaxStalls)
    BY DEF PostsCounted
  <2> DEFINE L  == Cardinality(PostsLeft(run, i))
             M  == Cardinality(PostsLeft(run', i))
             F  == Future(job[i])
             G  == Future(job'[i])
             B  == RetryAttempts * (QueueAttempts + MaxStalls)
  <2>1. M <= L
    <3>1. \A s \in Slots : run'[s].phase # "free" =>
            run[s].phase # "free" /\ run[s].job = run'[s].job /\ run[s].tries <= run'[s].tries
      BY JobsAssumption DEF JobsAssumption, IInv, TypeOK, Run, FreeRun
    <3> QED  BY <3>1, FewerLeft DEF IInv, TypeOK
  <2>2. G <= F /\ F \in Nat /\ G \in Nat
    <3>1. F \in Nat
      BY FutureType DEF IInv, TypeOK, JobsOK
    <3>2. Future(c) \in Nat
      BY FutureType
    <3>3. CASE i = j
      BY <1>1, <3>1, <3>2, <3>3
    <3>4. CASE i # j
      BY <1>1, <3>1, <3>4
    <3> QED  BY <3>3, <3>4
  <2>3. posts[i] + L + RetryAttempts * F <= B /\ posts[i] \in Nat
    BY DEF IInv, PostsCounted, TypeOK
  <2>4. L \in Nat /\ M \in Nat /\ RetryAttempts \in Nat /\ B \in Int
    BY CountsFinite, JobsAssumption DEF JobsAssumption
  <2>5. posts'[i] = posts[i]
    OBVIOUS
  <2> HIDE DEF L, M, F, G, B
  <2>6. RetryAttempts * G <= RetryAttempts * F
    BY <2>2, <2>4
  <2>7. RetryAttempts * G \in Int /\ RetryAttempts * F \in Int
    BY <2>2, <2>4
  <2>8. posts'[i] + M + RetryAttempts * G <= B
    BY <2>1, <2>3, <2>4, <2>5, <2>6, <2>7
  <2> QED  BY <2>8 DEF M, G, B
<1>7. AuditsCounted'
  <2> SUFFICES ASSUME NEW i \in Jobs
               PROVE  audits'[i] + Cardinality(Owing(run', i)) <= posts'[i]
    BY DEF AuditsCounted
  <2>1. \A s \in Slots : Owes(run'[s]) => Owes(run[s]) /\ run'[s].job = run[s].job
    BY DEF Owes, FreeRun
  <2>2. Cardinality(Owing(run', i)) <= Cardinality(Owing(run, i))
    BY <2>1, FewerOwe
  <2>3. audits[i] + Cardinality(Owing(run, i)) <= posts[i]
    BY DEF IInv, AuditsCounted
  <2>4. /\ audits[i] \in Nat /\ posts[i] \in Nat
        /\ Cardinality(Owing(run, i)) \in Nat /\ Cardinality(Owing(run', i)) \in Nat
    BY CountsFinite DEF IInv, TypeOK
  <2> QED  BY <2>2, <2>3, <2>4
<1> QED  BY <1>2, <1>3, <1>4, <1>5, <1>6, <1>7 DEF IInv

\* Steps of the processor in slot s, which becomes q, with p requests sent, e
\* effects of them, and a audit rows written.
RunMoves(s, q, p, e, a) ==
  /\ run[s].phase # "free" /\ q.phase # "free" /\ q.job = run[s].job
  /\ q.tries = run[s].tries + p
  /\ p = 1 => run[s].tries < RetryAttempts
  /\ a = 1 => Owes(run[s]) /\ ~Owes(q)
  /\ Owes(q) => Owes(run[s]) \/ p = 1
  /\ run' = [run EXCEPT ![s] = q]
  /\ posts' = [posts EXCEPT ![q.job] = @ + p]
  /\ effects' = [effects EXCEPT ![q.job] = @ + e]
  /\ audits' = [audits EXCEPT ![q.job] = @ + a]
  /\ UNCHANGED <<job, tenant, crashes>>
  /\ RunOK(s)'

\* Such a step keeps the invariant.
LEMMA RunStep ==
  ASSUME IInv, NEW s \in Slots, NEW q \in Run,
         NEW p \in {0, 1}, NEW e \in {0, 1}, NEW a \in {0, 1},
         RunMoves(s, q, p, e, a)
  PROVE  IInv'
<1> USE DEF RunMoves
<1> DEFINE j == q.job
<1>1. j \in Jobs
  BY DEF Run
<1>2. /\ posts \in [Jobs -> Nat] /\ effects \in [Jobs -> Nat] /\ audits \in [Jobs -> Nat]
      /\ run \in [Slots -> Run]
  BY DEF IInv, TypeOK
<1>3. /\ posts'[j] = posts[j] + p /\ effects'[j] = effects[j] + e
      /\ audits'[j] = audits[j] + a
      /\ \A i \in Jobs : i # j =>
           posts'[i] = posts[i] /\ effects'[i] = effects[i] /\ audits'[i] = audits[i]
  BY <1>1, <1>2
<1>4. run'[s] = q /\ \A t \in Slots : t # s => run'[t] = run[t]
  BY <1>2
<1>5. \A i \in Jobs : /\ posts'[i] \in Nat /\ effects'[i] \in Nat /\ audits'[i] \in Nat
                      /\ posts'[i] >= posts[i] /\ effects'[i] >= effects[i]
                      /\ audits'[i] >= audits[i]
  <2> TAKE i \in Jobs
  <2>1. posts[i] \in Nat /\ effects[i] \in Nat /\ audits[i] \in Nat
    BY <1>2
  <2>2. CASE i = j
    BY <1>3, <2>1, <2>2
  <2>3. CASE i # j
    BY <1>3, <2>1, <2>3
  <2> QED  BY <2>2, <2>3
<1>6. TypeOK'
  <2>1. run' \in [Slots -> Run]
    BY <1>2
  <2>2. /\ posts' \in [Jobs -> Nat] /\ effects' \in [Jobs -> Nat]
        /\ audits' \in [Jobs -> Nat]
    BY <1>2, <1>5
  <2> QED  BY <2>1, <2>2 DEF IInv, TypeOK
<1>7. JobsOK'
  BY DEF IInv, JobsOK
<1>8. RunsOK'
  <2> SUFFICES ASSUME NEW t \in Slots, t # s
               PROVE  RunOK(t)'
    BY DEF RunsOK
  <2>1. run'[t] = run[t] /\ RunOK(t) /\ run[t].job \in Jobs
    BY <1>2, <1>4 DEF IInv, RunsOK, Run
  <2>2. /\ posts'[run[t].job] >= posts[run[t].job] /\ effects'[run[t].job] >= effects[run[t].job]
        /\ audits'[run[t].job] >= audits[run[t].job]
        /\ posts'[run[t].job] \in Nat /\ effects'[run[t].job] \in Nat
        /\ audits'[run[t].job] \in Nat
        /\ posts[run[t].job] \in Nat /\ effects[run[t].job] \in Nat
        /\ audits[run[t].job] \in Nat
    BY <1>2, <1>5, <2>1
  <2> QED  BY <2>1, <2>2 DEF RunOK
<1>9. CompletedMeansDone'
  <2> SUFFICES ASSUME NEW i \in Jobs, job[i].state = "completed"
               PROVE  Done(i, job[i])'
    BY DEF CompletedMeansDone, Done
  <2>1. Done(i, job[i])
    BY DEF IInv, CompletedMeansDone, Done
  <2>2. posts[i] \in Nat /\ effects[i] \in Nat /\ audits[i] \in Nat
    BY <1>2
  <2> QED  BY <1>5, <2>1, <2>2 DEF Done
<1>10. PostsCounted'
  <2> SUFFICES ASSUME NEW i \in Jobs
               PROVE  posts'[i] + Cardinality(PostsLeft(run', i)) + RetryAttempts * Future(job[i])
                        <= RetryAttempts * (QueueAttempts + MaxStalls)
    BY DEF PostsCounted
  <2> DEFINE L  == Cardinality(PostsLeft(run, i))
             M  == Cardinality(PostsLeft(run', i))
             F  == RetryAttempts * Future(job[i])
             B  == RetryAttempts * (QueueAttempts + MaxStalls)
  <2>1. posts'[i] + M <= posts[i] + L
    <3>1. L \in Nat /\ M \in Nat /\ posts[i] \in Nat
      BY <1>2, CountsFinite
    <3>2. CASE i # j
      <4>1. PostsLeft(run', i) = PostsLeft(run, i)
        BY <1>2, <3>2 DEF PostsLeft
      <4> QED  BY <1>3, <3>1, <3>2, <4>1
    <3>3. CASE i = j /\ p = 0
      <4>1. run[s].tries \in Int /\ \A t \in Slots : run[t].tries \in Int
        BY <1>2, JobsAssumption DEF JobsAssumption, Run
      <4>2. \A t \in Slots : run'[t].phase # "free" =>
              run[t].phase # "free" /\ run[t].job = run'[t].job /\ run[t].tries <= run'[t].tries
        BY <1>4, <3>3, <4>1
      <4>3. M <= L
        BY <1>2, <1>6, <4>2, FewerLeft DEF TypeOK
      <4> QED  BY <1>3, <3>1, <3>3, <4>3
    <3>4. CASE i = j /\ p = 1
      <4>1. M = L - 1
        BY <1>2, <3>4, OneLeftLess
      <4> QED  BY <1>3, <3>1, <3>4, <4>1
    <3> QED  BY <3>2, <3>3, <3>4
  <2>2. posts[i] + L + F <= B
    BY DEF IInv, PostsCounted
  <2>3. /\ L \in Nat /\ M \in Nat /\ posts[i] \in Nat /\ posts'[i] \in Nat
        /\ F \in Int /\ B \in Int
    <3>1. Future(job[i]) \in Nat
      BY FutureType DEF IInv, TypeOK, JobsOK
    <3> QED  BY <1>2, <1>5, <3>1, CountsFinite, JobsAssumption DEF JobsAssumption
  <2> HIDE DEF L, M, F, B
  <2>4. posts'[i] + M + F <= B
    BY <2>1, <2>2, <2>3
  <2> QED  BY <2>4 DEF M, F, B
<1>11. AuditsCounted'
  <2> SUFFICES ASSUME NEW i \in Jobs
               PROVE  audits'[i] + Cardinality(Owing(run', i)) <= posts'[i]
    BY DEF AuditsCounted
  <2> DEFINE O  == Cardinality(Owing(run, i))
             P  == Cardinality(Owing(run', i))
  <2>1. audits[i] + O <= posts[i]
    BY DEF IInv, AuditsCounted
  <2>2. O \in Nat /\ P \in Nat /\ audits[i] \in Nat /\ posts[i] \in Nat
    BY <1>2, CountsFinite
  <2>3. CASE i # j
    <3>1. Owing(run', i) = Owing(run, i)
      BY <1>2, <2>3 DEF Owing
    <3> QED  BY <1>3, <2>1, <2>2, <2>3, <3>1
  <2>4. CASE i = j /\ a = 1
    <3>1. P = O - 1
      BY <1>2, <2>4, OneOweLess
    <3> QED  BY <1>3, <2>1, <2>2, <2>4, <3>1
  <2>5. CASE i = j /\ a = 0 /\ p = 1
    <3>1. P <= O + 1
      BY <1>2, <2>5, OneOweMore
    <3> QED  BY <1>3, <2>1, <2>2, <2>5, <3>1
  <2>6. CASE i = j /\ a = 0 /\ p = 0
    <3>1. \A t \in Slots : Owes(run'[t]) => Owes(run[t]) /\ run'[t].job = run[t].job
      BY <1>4, <2>6
    <3>2. P <= O
      BY <3>1, FewerOwe
    <3> QED  BY <1>3, <2>1, <2>2, <2>6, <3>2
  <2> QED  BY <2>3, <2>4, <2>5, <2>6
<1> QED  BY <1>6, <1>7, <1>8, <1>9, <1>10, <1>11 DEF IInv

-----------------------------------------------------------------------------
(* The actions                                                             *)

\* A free processor is one of the values of a run.
LEMMA FreeRunType == FreeRun \in Run
BY JobsAssumption DEF JobsAssumption, FreeRun, Run, RunPhase

\* A job whose lock has expired has as many runs to come as before, or none.
LEMMA StalledOK ==
  ASSUME NEW b \in Job, b.state = "active", JobOK(b)
  PROVE  /\ Stalled(b) \in Job /\ JobOK(Stalled(b))
         /\ Future(Stalled(b)) <= Future(b)
         /\ Stalled(b).state \in {"waiting", "failed"}
<1>1. CASE b.stalls < MaxStalls
  <2> DEFINE c == [b EXCEPT !.state = "waiting", !.owner = Nobody, !.stalls = @ + 1]
  <2>1. Stalled(b) = c
    BY <1>1 DEF Stalled
  <2>2. /\ c.state = "waiting" /\ c.owner = Nobody /\ c.stalls = b.stalls + 1
        /\ c.made = b.made /\ c.success = b.success
    BY DEF Job
  <2>3. c \in Job
    <3> DEFINE c1 == [b EXCEPT !.state = "waiting"]
               c2 == [c1 EXCEPT !.owner = Nobody]
               c3 == [c2 EXCEPT !.stalls = @ + 1]
    <3>1. c1 \in Job /\ c1.stalls = b.stalls
      BY DEF Job, JobState
    <3> HIDE DEF c1
    <3>2. c2 \in Job /\ c2.stalls = b.stalls
      BY <3>1 DEF Job
    <3> HIDE DEF c2
    <3>3. c2.stalls + 1 \in 0..MaxStalls
      BY <1>1, <3>2, JobsAssumption DEF JobsAssumption, Job
    <3>4. c3 \in Job
      BY <3>2, <3>3 DEF Job
    <3>5. c = c3
      BY DEF c1, c2
    <3> QED  BY <3>4, <3>5
  <2> HIDE DEF c
  <2>4. JobOK(c)
    BY <2>2 DEF JobOK, Final, Over
  <2>5. Future(c) <= Future(b)
    BY <2>2, JobsAssumption DEF JobsAssumption, Job, Future, Final, Over
  <2> QED  BY <2>1, <2>2, <2>3, <2>4, <2>5
<1>2. CASE ~(b.stalls < MaxStalls)
  <2> DEFINE c == [b EXCEPT !.state = "failed", !.owner = Nobody]
  <2>1. Stalled(b) = c
    BY <1>2 DEF Stalled
  <2>2. c.state = "failed" /\ c.owner = Nobody
    BY DEF Job
  <2>3. c \in Job
    BY DEF Job, JobState
  <2> HIDE DEF c
  <2>4. JobOK(c) /\ Future(c) = 0
    BY <2>2 DEF JobOK, Final, Over, Future
  <2> QED  BY <2>1, <2>2, <2>3, <2>4, FutureType
<1> QED  BY <1>1, <1>2

\* So has a job whose processor has thrown.
LEMMA ThrownOK ==
  ASSUME NEW b \in Job, b.state = "active", JobOK(b)
  PROVE  /\ Thrown(b) \in Job /\ JobOK(Thrown(b))
         /\ Future(Thrown(b)) <= Future(b)
         /\ Thrown(b).state \in {"delayed", "failed"}
<1> DEFINE c == Thrown(b)
<1>1. /\ c.state = IF b.made + 1 < QueueAttempts THEN "delayed" ELSE "failed"
      /\ c.owner = Nobody /\ c.made = b.made + 1 /\ c.stalls = b.stalls
  BY DEF Job, Thrown
<1>2. b.made + 1 \in 0..QueueAttempts
  BY JobsAssumption DEF JobsAssumption, Job, JobOK, Final, Over
<1>3. c \in Job
  BY <1>2 DEF Thrown, Job, JobState
<1> HIDE DEF c
<1>4. JobOK(c)
  BY <1>1 DEF JobOK, Final, Over
<1>5. Future(c) <= Future(b)
  BY <1>1, <1>4, JobsAssumption DEF JobsAssumption, Job, JobOK, Future, Final, Over
<1> QED  BY <1>1, <1>3, <1>4, <1>5 DEF c

\* A job that enters another state without its lock keeps what it has.
LEMMA QueuedOK ==
  ASSUME NEW b \in Job, b.state \in {"unknown", "delayed"}, JobOK(b)
  PROVE  LET c == [b EXCEPT !.state = "waiting"]
         IN  c \in Job /\ JobOK(c) /\ Future(c) = Future(b) /\ c.state = "waiting"
<1> DEFINE c == [b EXCEPT !.state = "waiting"]
<1>1. c \in Job
  BY DEF Job, JobState
<1>2. /\ c.state = "waiting" /\ c.owner = b.owner /\ c.made = b.made /\ c.stalls = b.stalls
  BY DEF Job
<1> HIDE DEF c
<1>3. JobOK(c) /\ Future(c) = Future(b)
  BY <1>2 DEF JobOK, Future, Final, Over
<1> QED  BY <1>1, <1>2, <1>3 DEF c

\* A job that is lost has no runs to come.
LEMMA LostOK ==
  ASSUME NEW b \in Job, JobOK(b)
  PROVE  LET c == [b EXCEPT !.state = "lost", !.owner = Nobody]
         IN  c \in Job /\ JobOK(c) /\ Future(c) <= Future(b) /\ c.state = "lost"
<1> DEFINE c1 == [b EXCEPT !.state = "lost"]
           c == [c1 EXCEPT !.owner = Nobody]
<1>1. c1 \in Job /\ c1.state = "lost"
  BY DEF Job, JobState
<1> HIDE DEF c1
<1>2. c \in Job /\ c.state = "lost" /\ c.owner = Nobody
  BY <1>1 DEF Job
<1>3. c = [b EXCEPT !.state = "lost", !.owner = Nobody]
  BY DEF c1
<1> HIDE DEF c
<1>4. JobOK(c) /\ Future(c) = 0
  BY <1>2 DEF JobOK, Over, Future
<1>5. Future(c) <= Future(b)
  BY <1>4, FutureType
<1> QED  BY <1>2, <1>3, <1>4, <1>5

\* Steps of the queue that concern a job alone.
LEMMA QueueSteps ==
  ASSUME IInv, NEW j \in Jobs,
         Enqueue(j) \/ Promote(j) \/ Recover(j) \/ LoseLock(j) \/ Forget(j)
  PROVE  IInv'
<1>1. job[j] \in Job /\ JobOK(job[j]) /\ job \in [Jobs -> Job]
  BY DEF IInv, TypeOK, JobsOK
<1>2. run' \in [Slots -> Run] /\ crashes' \in 0..MaxCrashes
  BY DEF IInv, TypeOK, Enqueue, Promote, Recover, LoseLock, Forget
<1>3. CASE Enqueue(j) \/ Promote(j)
  <2> DEFINE c == [job[j] EXCEPT !.state = "waiting"]
  <2>1. job[j].state \in {"unknown", "delayed"}
    BY <1>3 DEF Enqueue, Promote
  <2>2. c \in Job /\ JobOK(c) /\ Future(c) = Future(job[j]) /\ c.state = "waiting"
    BY <1>1, <2>1, QueuedOK
  <2>3. job' = [job EXCEPT ![j] = c]
    BY <1>3 DEF Enqueue, Promote
  <2>4. Future(c) <= Future(job[j])
    BY <1>1, <2>2, FutureType
  <2>5. run' = run /\ UNCHANGED <<tenant, audits, posts, effects>>
    BY <1>3 DEF Enqueue, Promote
  <2> HIDE DEF c
  <2> QED  BY <1>2, <2>2, <2>3, <2>4, <2>5, JobStep
<1>4. CASE Recover(j) \/ LoseLock(j)
  <2> DEFINE c == Stalled(job[j])
  <2>1. job[j].state = "active"
    BY <1>4 DEF Recover, LoseLock, Orphaned
  <2>2. /\ c \in Job /\ JobOK(c) /\ Future(c) <= Future(job[j])
        /\ c.state \in {"waiting", "failed"}
    BY <1>1, <2>1, StalledOK
  <2>3. job' = [job EXCEPT ![j] = c]
    BY <1>4 DEF Recover, LoseLock
  <2>4. run' = run /\ UNCHANGED <<tenant, audits, posts, effects>>
    BY <1>4 DEF Recover, LoseLock
  <2> HIDE DEF c
  <2> QED  BY <1>2, <2>2, <2>3, <2>4, JobStep
<1>5. CASE Forget(j)
  <2> DEFINE c == [job[j] EXCEPT !.state = "lost", !.owner = Nobody]
  <2>1. c \in Job /\ JobOK(c) /\ Future(c) <= Future(job[j]) /\ c.state = "lost"
    BY <1>1, LostOK
  <2>2. job' = [job EXCEPT ![j] = c]
    BY <1>5 DEF Forget
  <2>3. run' = run /\ UNCHANGED <<tenant, audits, posts, effects>>
    BY <1>5 DEF Forget
  <2> HIDE DEF c
  <2> QED  BY <1>2, <2>1, <2>2, <2>3, JobStep
<1> QED  BY <1>3, <1>4, <1>5

\* A run that is begun is paid for by one of the runs to come.
LEMMA PickStep ==
  ASSUME IInv, NEW s \in Slots, NEW j \in Jobs, Pick(s, j)
  PROVE  IInv'
<1> DEFINE b == job[j]
           c == [b EXCEPT !.state = "active", !.owner = s]
           q == [FreeRun EXCEPT !.phase = "check", !.job = j]
<1>1. b \in Job /\ JobOK(b) /\ b.state = "waiting" /\ job \in [Jobs -> Job]
  BY DEF IInv, TypeOK, JobsOK, Pick
<1>2. /\ c.state = "active" /\ c.owner = s /\ c.made = b.made /\ c.stalls = b.stalls
  BY <1>1 DEF Job
<1>3. c \in Job
  BY <1>1 DEF Job, JobState
<1>4. q \in Run /\ q.phase = "check" /\ q.job = j /\ q.tries = 0
  <2> DEFINE q1 == [FreeRun EXCEPT !.phase = "check"]
  <2>1. q1 \in Run /\ q1.phase = "check" /\ q1.tries = 0
    BY FreeRunType DEF FreeRun, Run, RunPhase
  <2> HIDE DEF q1
  <2>2. q = [q1 EXCEPT !.job = j]
    BY DEF q1
  <2> QED  BY <2>1, <2>2 DEF Run
<1>5. job' = [job EXCEPT ![j] = c] /\ run' = [run EXCEPT ![s] = q]
  BY DEF Pick
<1>6. UNCHANGED <<tenant, audits, posts, effects, crashes>> /\ run[s].phase = "free"
  BY DEF Pick
<1> HIDE DEF b, c, q
<1>7. JobOK(c)
  BY <1>1, <1>2, JobsAssumption DEF JobOK, JobsAssumption, Final, Over
<1>8. /\ job'[j] = c /\ \A i \in Jobs : i # j => job'[i] = job[i]
      /\ run'[s] = q /\ \A t \in Slots : t # s => run'[t] = run[t]
      /\ run \in [Slots -> Run]
  BY <1>1, <1>5 DEF IInv, TypeOK
<1>9. TypeOK'
  BY <1>3, <1>4, <1>5, <1>6 DEF IInv, TypeOK
<1>10. JobsOK'
  BY <1>7, <1>8 DEF IInv, JobsOK
<1>11. RunsOK'
  <2> SUFFICES ASSUME NEW t \in Slots
               PROVE  RunOK(t)'
    BY DEF RunsOK
  <2>1. CASE t = s
    BY <1>2, <1>4, <1>8, <2>1 DEF RunOK
  <2>2. CASE t # s
    <3>1. RunOK(t) /\ run'[t] = run[t] /\ run[t].job \in Jobs
      BY <1>8, <2>2 DEF IInv, RunsOK, Run
    <3>2. job'[run[t].job].state = "unknown" => job[run[t].job].state = "unknown"
      BY <1>2, <1>8, <3>1
    <3> QED  BY <1>6, <3>1, <3>2 DEF RunOK
  <2> QED  BY <2>1, <2>2
<1>12. CompletedMeansDone'
  BY <1>2, <1>6, <1>8 DEF IInv, CompletedMeansDone
<1>13. PostsCounted'
  <2> SUFFICES ASSUME NEW i \in Jobs
               PROVE  posts[i] + Cardinality(PostsLeft(run', i)) + RetryAttempts * Future(job'[i])
                        <= RetryAttempts * (QueueAttempts + MaxStalls)
    BY <1>6 DEF PostsCounted
  <2>1. /\ posts[i] + Cardinality(PostsLeft(run, i)) + RetryAttempts * Future(job[i])
             <= RetryAttempts * (QueueAttempts + MaxStalls)
        /\ posts[i] \in Nat
    BY DEF IInv, PostsCounted, TypeOK
  <2>2. CASE i # j
    <3>1. PostsLeft(run', i) = PostsLeft(run, i)
      BY <1>4, <1>6, <1>8, <2>2 DEF PostsLeft
    <3> QED  BY <1>8, <2>1, <2>2, <3>1
  <2>3. CASE i = j
    <3> DEFINE L == Cardinality(PostsLeft(run, j))
               M == Cardinality(PostsLeft(run', j))
               F == Future(b)
               G == Future(c)
               B == RetryAttempts * (QueueAttempts + MaxStalls)
    <3>1. M <= L + RetryAttempts
      BY <1>4, <1>5, <1>8, NewRunLeft
    <3>2. F = G + 1 /\ G \in Nat
      <4>1. G \in Nat
        BY <1>3, <1>7, FutureType
      <4>2. F = G + 1
        BY <1>1, <1>2, JobsAssumption DEF JobsAssumption, Future, Final, Over, Job
      <4> QED  BY <4>1, <4>2
    <3>3. posts[j] + L + RetryAttempts * F <= B /\ posts[j] \in Nat
      BY <2>1, <2>3 DEF b
    <3>4. L \in Nat /\ M \in Nat /\ RetryAttempts \in Nat /\ B \in Int
      BY CountsFinite, JobsAssumption DEF JobsAssumption
    <3> HIDE DEF L, M, F, G, B
    <3>5. RetryAttempts * F = RetryAttempts * G + RetryAttempts /\ RetryAttempts * G \in Nat
      BY <3>2, <3>4
    <3>6. posts[j] + M + RetryAttempts * G <= B
      BY <3>1, <3>3, <3>4, <3>5
    <3> QED  BY <1>8, <2>3, <3>6 DEF M, G, B
  <2> QED  BY <2>2, <2>3
<1>14. AuditsCounted'
  <2> SUFFICES ASSUME NEW i \in Jobs
               PROVE  audits[i] + Cardinality(Owing(run', i)) <= posts[i]
    BY <1>6 DEF AuditsCounted
  <2>1. \A t \in Slots : Owes(run'[t]) => Owes(run[t]) /\ run'[t].job = run[t].job
    BY <1>4, <1>8 DEF Owes
  <2>2. Cardinality(Owing(run', i)) <= Cardinality(Owing(run, i))
    BY <2>1, FewerOwe
  <2>3. audits[i] + Cardinality(Owing(run, i)) <= posts[i]
    BY DEF IInv, AuditsCounted
  <2>4. /\ audits[i] \in Nat /\ posts[i] \in Nat
        /\ Cardinality(Owing(run, i)) \in Nat /\ Cardinality(Owing(run', i)) \in Nat
    BY CountsFinite DEF IInv, TypeOK
  <2> QED  BY <2>2, <2>3, <2>4
<1> QED  BY <1>9, <1>10, <1>11, <1>12, <1>13, <1>14 DEF IInv

\* Steps of a processor that leave its job and its history as they are.
LEMMA QuietRunStep ==
  ASSUME IInv, NEW s \in Slots, NEW phase \in {"send", "throw"},
         run[s].phase # "free",
         phase = "send" => /\ run[s].tries < RetryAttempts
                           /\ run[s].tries > 0 => Owes(run[s]),
         run' = [run EXCEPT ![s].phase = phase],
         NEW e \in {0, 1},
         effects' = [effects EXCEPT ![run[s].job] = @ + e],
         UNCHANGED <<job, tenant, audits, posts, crashes>>
  PROVE  IInv'
<1> DEFINE q == [run[s] EXCEPT !.phase = phase]
           j == run[s].job
<1>1. run[s] \in Run /\ run \in [Slots -> Run] /\ j \in Jobs
  BY DEF IInv, TypeOK, Run
<1>2. q \in Run
  BY <1>1 DEF Run, RunPhase
<1>3. q.phase = phase /\ q.job = j /\ q.tries = run[s].tries
  BY <1>1 DEF Run
<1>4. run' = [run EXCEPT ![s] = q]
  BY <1>1
<1>5. /\ posts' = [posts EXCEPT ![q.job] = @ + 0]
      /\ audits' = [audits EXCEPT ![q.job] = @ + 0]
      /\ effects' = [effects EXCEPT ![q.job] = @ + e]
  BY <1>1, <1>3 DEF IInv, TypeOK
<1>6. run[s].tries \in Int
  BY <1>1, JobsAssumption DEF JobsAssumption, Run
<1> HIDE DEF q
<1>7. run'[s] = q
  BY <1>1, <1>4
<1>8. RunOK(s)
  BY DEF IInv, RunsOK
<1>9. RunOK(s)'
  BY <1>3, <1>7, <1>8 DEF RunOK
<1>10. Owes(q) => Owes(run[s])
  BY <1>3 DEF Owes
<1>11. q.tries = run[s].tries + 0
  BY <1>3, <1>6
<1>12. q.phase # "free"
  BY <1>3
<1>13. 0 # 1 /\ UNCHANGED <<job, tenant, crashes>>
  OBVIOUS
<1>14. RunMoves(s, q, 0, e, 0)
  BY <1>3, <1>4, <1>5, <1>9, <1>10, <1>11, <1>12, <1>13, Zenon DEF RunMoves
<1> QED  BY <1>2, <1>14, RunStep

\* findUnique(), a refusal by the circuit breaker and a failed request.
LEMMA CheckRefuseFail ==
  ASSUME IInv, NEW s \in Slots, Check(s) \/ Refuse(s) \/ PostFails(s)
  PROVE  IInv'
<1>1. effects \in [Jobs -> Nat] /\ run[s] \in Run
  BY DEF IInv, TypeOK
<1>2. run[s].tries \in Int /\ run[s].tries <= RetryAttempts /\ RetryAttempts \in Nat \ {0}
  BY <1>1, JobsAssumption DEF JobsAssumption, Run
<1>3. CASE Check(s) \/ Refuse(s)
  <2>1. effects' = [effects EXCEPT ![run[s].job] = @ + 0]
    BY <1>1, <1>3 DEF Check, Refuse, Run
  <2>2. PICK phase \in {"send", "throw"} :
          /\ run' = [run EXCEPT ![s].phase = phase]
          /\ phase = "send" => run[s].phase = "check"
    BY <1>3 DEF Check, Refuse
  <2>3. run[s].phase = "check" => run[s].tries = 0
    BY DEF IInv, RunsOK, RunOK
  <2>4. /\ run[s].phase # "free"
        /\ UNCHANGED <<job, tenant, audits, posts, crashes>>
    BY <1>3 DEF Check, Refuse
  <2>5. phase = "send" => /\ run[s].tries < RetryAttempts
                          /\ run[s].tries > 0 => Owes(run[s])
    BY <1>2, <2>2, <2>3
  <2> QED  BY <2>1, <2>2, <2>4, <2>5, QuietRunStep
<1>4. CASE PostFails(s)
  <2>1. PICK e \in {0, 1} : effects' = [effects EXCEPT ![run[s].job] = @ + e]
    BY <1>4 DEF PostFails
  <2> DEFINE phase == IF run[s].tries < RetryAttempts THEN "send" ELSE "throw"
  <2>2. run' = [run EXCEPT ![s].phase = phase] /\ phase \in {"send", "throw"}
    BY <1>4 DEF PostFails
  <2>3. run[s].phase = "post" /\ Owes(run[s])
    BY <1>4 DEF PostFails, Owes
  <2>4. phase = "send" => run[s].tries < RetryAttempts
    OBVIOUS
  <2>5. UNCHANGED <<job, tenant, audits, posts, crashes>>
    BY <1>4 DEF PostFails
  <2> HIDE DEF phase
  <2> QED  BY <2>1, <2>2, <2>3, <2>4, <2>5, QuietRunStep
<1> QED  BY <1>3, <1>4

\* An HTTP request is sent.
LEMMA SendStep ==
  ASSUME IInv, NEW s \in Slots, Send(s)
  PROVE  IInv'
<1> DEFINE n == run[s].tries + 1
           q1 == [run[s] EXCEPT !.phase = "post"]
           q == [q1 EXCEPT !.tries = n]
           j == run[s].job
<1>1. run[s] \in Run /\ run \in [Slots -> Run] /\ j \in Jobs
  BY DEF IInv, TypeOK, Run
<1>2. RunOK(s) /\ run[s].phase = "send"
  BY DEF IInv, RunsOK, Send
<1>3. run[s].tries < RetryAttempts /\ run[s].tries \in Nat /\ n \in 0..RetryAttempts
  BY <1>1, <1>2, JobsAssumption DEF JobsAssumption, Run, RunOK
<1>4. run' = [run EXCEPT ![s] = q]
  BY <1>1 DEF Send
<1>5. q1 \in Run /\ q1.phase = "post" /\ q1.job = j
  BY <1>1 DEF Run, RunPhase
<1> HIDE DEF q1
<1>6. q \in Run /\ q.phase = "post" /\ q.job = j /\ q.tries = n
  BY <1>3, <1>5 DEF Run
<1> HIDE DEF q
<1>a. posts' = [posts EXCEPT ![q.job] = @ + 1]
  BY <1>6 DEF Send
<1>b. audits' = [audits EXCEPT ![q.job] = @ + 0]
  BY <1>1, <1>6 DEF IInv, TypeOK, Send
<1>c. effects' = [effects EXCEPT ![q.job] = @ + 0]
  BY <1>1, <1>6 DEF IInv, TypeOK, Send
<1>7. UNCHANGED <<job, tenant, crashes>>
  BY DEF Send
<1>8. run'[s] = q
  BY <1>1, <1>4
<1>9. posts'[j] >= 1
  BY <1>1, <1>6, <1>a DEF IInv, TypeOK
<1>10. RunOK(s)'
  BY <1>2, <1>3, <1>6, <1>7, <1>8, <1>9 DEF RunOK
<1>11. RunMoves(s, q, 1, 0, 0)
  BY <1>2, <1>3, <1>4, <1>6, <1>a, <1>b, <1>c, <1>7, <1>10 DEF RunMoves
<1> QED  BY <1>6, <1>11, RunStep

\* SmartOLT has answered with 2xx.
LEMMA PostAnsweredStep ==
  ASSUME IInv, NEW s \in Slots, PostAnswered(s)
  PROVE  IInv'
<1>1. PICK ok \in BOOLEAN :
        /\ run' = [run EXCEPT ![s].phase = "audit", ![s].success = ok]
        /\ effects' = IF ok THEN [effects EXCEPT ![run[s].job] = @ + 1] ELSE effects
  BY DEF PostAnswered
<1> DEFINE e == IF ok THEN 1 ELSE 0
           q1 == [run[s] EXCEPT !.phase = "audit"]
           q == [q1 EXCEPT !.success = ok]
           j == run[s].job
<1>2. run[s] \in Run /\ run \in [Slots -> Run] /\ j \in Jobs
  BY DEF IInv, TypeOK, Run
<1>3. RunOK(s) /\ run[s].phase = "post"
  BY DEF IInv, RunsOK, PostAnswered
<1>4. run' = [run EXCEPT ![s] = q]
  BY <1>1, <1>2
<1>5. q1 \in Run /\ q1.phase = "audit" /\ q1.job = j /\ q1.tries = run[s].tries
  BY <1>2 DEF Run, RunPhase
<1> HIDE DEF q1
<1>6. q \in Run /\ q.phase = "audit" /\ q.job = j /\ q.tries = run[s].tries /\ q.success = ok
  BY <1>5 DEF Run
<1>7. effects \in [Jobs -> Nat]
  BY DEF IInv, TypeOK
<1>8. effects' = [effects EXCEPT ![q.job] = @ + e]
  <2>1. CASE ok
    BY <1>1, <1>6, <2>1
  <2>2. CASE ~ok
    BY <1>1, <1>2, <1>6, <1>7, <2>2
  <2> QED  BY <2>1, <2>2
<1>9. /\ posts' = [posts EXCEPT ![q.job] = @ + 0]
      /\ audits' = [audits EXCEPT ![q.job] = @ + 0]
      /\ UNCHANGED <<job, tenant, posts, crashes>>
  BY <1>2, <1>6 DEF IInv, TypeOK, PostAnswered
<1>10. e \in {0, 1} /\ (ok => e = 1)
  OBVIOUS
<1> HIDE DEF q, e
<1>11. run'[s] = q
  BY <1>2, <1>4
<1>12. ok => effects'[j] >= 1
  BY <1>2, <1>6, <1>7, <1>8, <1>10
<1>13. RunOK(s)'
  BY <1>3, <1>6, <1>9, <1>11, <1>12 DEF RunOK
<1>14. Owes(run[s]) /\ run[s].tries \in Int
  BY <1>2, <1>3, JobsAssumption DEF JobsAssumption, Owes, Run
<1>15. q.tries = run[s].tries + 0
  BY <1>6, <1>14
<1>16. RunMoves(s, q, 0, e, 0)
  BY <1>3, <1>4, <1>6, <1>8, <1>9, <1>13, <1>14, <1>15 DEF RunMoves
<1> QED  BY <1>6, <1>10, <1>16, RunStep

\* auditLog.create().
LEMMA AuditStep ==
  ASSUME IInv, NEW s \in Slots, Audit(s)
  PROVE  IInv'
<1> DEFINE j == run[s].job
<1>1. run[s] \in Run /\ run \in [Slots -> Run] /\ j \in Jobs
  BY DEF IInv, TypeOK, Run
<1>2. RunOK(s) /\ run[s].phase = "audit"
  BY DEF IInv, RunsOK, Audit
<1>3. UNCHANGED <<job, tenant, posts, effects, crashes>>
  BY DEF Audit
<1>4. ASSUME tenant # "gone", audits' = [audits EXCEPT ![j] = @ + 1],
             NEW phase \in {"return", "throw"},
             run' = [run EXCEPT ![s].phase = phase]
      PROVE  IInv'
  <2> DEFINE q == [run[s] EXCEPT !.phase = phase]
  <2>1. q \in Run
    BY <1>1 DEF Run, RunPhase
  <2>2. q.phase = phase /\ q.job = j /\ q.tries = run[s].tries
          /\ q.success = run[s].success
    BY <1>1 DEF Run
  <2>3. run' = [run EXCEPT ![s] = q]
    BY <1>1, <1>4
  <2>4. /\ posts' = [posts EXCEPT ![q.job] = @ + 0]
        /\ effects' = [effects EXCEPT ![q.job] = @ + 0]
        /\ audits' = [audits EXCEPT ![q.job] = @ + 1]
    BY <1>1, <1>3, <1>4, <2>2 DEF IInv, TypeOK
  <2> HIDE DEF q
  <2>5. run'[s] = q
    BY <1>1, <2>3
  <2>6. audits'[j] >= 1
    BY <1>1, <1>4 DEF IInv, TypeOK
  <2>7. RunOK(s)'
    BY <1>2, <1>3, <2>2, <2>5, <2>6 DEF RunOK
  <2>8. Owes(run[s]) /\ ~Owes(q)
    BY <1>2, <2>2 DEF Owes
  <2>9. q.tries = run[s].tries + 0
    BY <1>1, <2>2, JobsAssumption DEF JobsAssumption, Run
  <2>10. /\ 0 # 1 /\ UNCHANGED <<job, tenant, crashes>>
         /\ run[s].phase # "free" /\ q.phase # "free"
    BY <1>2, <1>3, <2>2
  <2>11. RunMoves(s, q, 0, 0, 1)
    BY <2>2, <2>3, <2>4, <2>7, <2>8, <2>9, <2>10, Zenon DEF RunMoves
  <2> QED  BY <2>1, <2>11, RunStep
<1>5. CASE run' = [run EXCEPT ![s].phase = "throw"] /\ UNCHANGED audits
  <2>1. effects' = [effects EXCEPT ![j] = @ + 0]
    BY <1>1, <1>3 DEF IInv, TypeOK
  <2> QED  BY <1>2, <1>3, <1>5, <2>1, QuietRunStep
<1> QED  BY <1>4, <1>5 DEF Audit

\* The end of a processor counts if it still has the lock.
LEMMA FinishStep ==
  ASSUME IInv, NEW s \in Slots, Finish(s)
  PROVE  IInv'
<1> DEFINE j == run[s].job
           b == job[j]
<1>1. /\ run[s] \in Run /\ run \in [Slots -> Run] /\ j \in Jobs
      /\ job \in [Jobs -> Job] /\ b \in Job /\ JobOK(b)
  BY DEF IInv, TypeOK, Run, JobsOK
<1>2. RunOK(s) /\ run[s].phase \in {"return", "throw"}
  BY DEF IInv, RunsOK, Finish
<1>3. run' = [run EXCEPT ![s] = FreeRun] /\ UNCHANGED <<tenant, audits, posts, effects, crashes>>
  BY DEF Finish
<1>4. /\ run' \in [Slots -> Run]
      /\ \A t \in Slots : run'[t] = run[t] \/ run'[t] = FreeRun
      /\ crashes' \in 0..MaxCrashes
  BY <1>1, <1>3, FreeRunType DEF IInv, TypeOK
<1>5. CASE b.owner # s
  <2>1. job' = [job EXCEPT ![j] = b]
    BY <1>1, <1>5 DEF Finish
  <2>2. b.state = "completed" => Done(j, b)
    BY <1>1 DEF IInv, CompletedMeansDone, Done
  <2>3. Future(b) <= Future(job[j])
    BY <1>1, FutureType
  <2> HIDE DEF b, j
  <2> QED  BY <1>1, <1>3, <1>4, <2>1, <2>2, <2>3, JobStep DEF b
<1>6. CASE b.owner = s
  <2>1. b.state = "active"
    BY <1>1, <1>6, JobsAssumption DEF JobsAssumption, JobOK
  <2>2. CASE run[s].phase = "throw"
    <3> DEFINE c == Thrown(b)
    <3>1. /\ c \in Job /\ JobOK(c) /\ Future(c) <= Future(b)
          /\ c.state \in {"delayed", "failed"}
      BY <1>1, <2>1, ThrownOK
    <3>2. job' = [job EXCEPT ![j] = c]
      BY <1>6, <2>2 DEF Finish
    <3> HIDE DEF c
    <3> QED  BY <1>1, <1>3, <1>4, <3>1, <3>2, JobStep
  <2>3. CASE run[s].phase = "return"
    <3> DEFINE c1 == [b EXCEPT !.state = "completed"]
               c2 == [c1 EXCEPT !.owner = Nobody]
               c == [c2 EXCEPT !.success = run[s].success]
    <3>1. job' = [job EXCEPT ![j] = c]
      BY <1>6, <2>3 DEF Finish
    <3>2. c1 \in Job /\ c1.state = "completed"
      BY <1>1 DEF Job, JobState
    <3> HIDE DEF c1
    <3>3. c2 \in Job /\ c2.state = "completed" /\ c2.owner = Nobody
      BY <3>2 DEF Job
    <3> HIDE DEF c2
    <3>4. /\ c \in Job /\ c.state = "completed" /\ c.owner = Nobody
          /\ c.success = run[s].success
      BY <1>1, <3>3 DEF Job, Run
    <3> HIDE DEF c
    <3>5. JobOK(c) /\ Future(c) = 0
      BY <3>4 DEF JobOK, Future, Final, Over
    <3>6. Done(j, c)
      BY <1>2, <2>3, <3>4 DEF RunOK, Done
    <3>7. Future(c) <= Future(job[j])
      BY <1>1, <3>5, FutureType
    <3>8. c.state # "unknown"
      BY <3>4
    <3> QED  BY <1>1, <1>3, <1>4, <3>1, <3>4, <3>5, <3>6, <3>7, <3>8, JobStep
  <2> QED  BY <1>2, <2>2, <2>3
<1> QED  BY <1>5, <1>6

\* A process that dies leaves jobs and rows as they are.
LEMMA CrashStep == IInv /\ Crash => IInv'
<1> SUFFICES ASSUME IInv, Crash
             PROVE  IInv'
  OBVIOUS
<1>1. PICK j \in Jobs : TRUE
  BY JobsAssumption DEF JobsAssumption
<1>2. /\ job[j] \in Job /\ JobOK(job[j])
      /\ job' = [job EXCEPT ![j] = job[j]]
  BY DEF IInv, TypeOK, JobsOK, Crash
<1>3. /\ run' \in [Slots -> Run] /\ \A s \in Slots : run'[s] = FreeRun
      /\ crashes' \in 0..MaxCrashes
      /\ UNCHANGED <<tenant, audits, posts, effects>>
  BY FreeRunType, JobsAssumption DEF JobsAssumption, IInv, TypeOK, Crash
<1>4. job[j].state = "completed" => Done(j, job[j])
  BY DEF IInv, CompletedMeansDone, Done
<1>5. Future(job[j]) <= Future(job[j])
  BY <1>2, FutureType
<1> QED  BY <1>2, <1>3, <1>4, <1>5, JobStep

\* A tenant that is gone has no rows to miss.
LEMMA TenantSteps == IInv /\ (ToggleTenant \/ DeleteTenant) => IInv'
<1> SUFFICES ASSUME IInv, ToggleTenant \/ DeleteTenant
             PROVE  IInv'
  OBVIOUS
<1>1. UNCHANGED <<job, run, posts, effects, crashes>>
  BY DEF ToggleTenant, DeleteTenant
<1>2. /\ tenant # "gone" /\ tenant' \in {"active", "inactive", "gone"}
      /\ tenant' # "gone" => audits' = audits
      /\ audits' = audits \/ audits' = [j \in Jobs |-> 0]
  BY DEF ToggleTenant, DeleteTenant, IInv, TypeOK
<1>3. TypeOK'
  BY <1>1, <1>2 DEF IInv, TypeOK
<1>4. JobsOK'
  BY <1>1 DEF IInv, JobsOK
<1>5. RunsOK'
  BY <1>1, <1>2 DEF IInv, RunsOK, RunOK
<1>6. CompletedMeansDone'
  BY <1>1, <1>2 DEF IInv, CompletedMeansDone
<1>7. PostsCounted'
  BY <1>1 DEF IInv, PostsCounted
<1>8. AuditsCounted'
  <2> SUFFICES ASSUME NEW j \in Jobs
               PROVE  audits'[j] + Cardinality(Owing(run, j)) <= posts[j]
    BY <1>1 DEF AuditsCounted
  <2>1. /\ audits[j] + Cardinality(Owing(run, j)) <= posts[j]
        /\ audits[j] \in Nat /\ posts[j] \in Nat
    BY DEF IInv, AuditsCounted, TypeOK
  <2>2. Cardinality(Owing(run, j)) \in Nat
    BY CountsFinite
  <2>3. audits'[j] = audits[j] \/ audits'[j] = 0
    BY <1>2
  <2> QED  BY <2>1, <2>2, <2>3
<1> QED  BY <1>3, <1>4, <1>5, <1>6, <1>7, <1>8 DEF IInv

-----------------------------------------------------------------------------
(* The theorems                                                            *)

\* Nothing is queued, sent or owed at the start.
LEMMA InitInv == Init => IInv
<1> SUFFICES ASSUME Init
             PROVE  IInv
  OBVIOUS
<1>1. NewJob \in Job /\ JobOK(NewJob)
  BY JobsAssumption DEF JobsAssumption, NewJob, Job, JobState, JobOK, Final, Over
<1>2. TypeOK
  BY <1>1, FreeRunType, JobsAssumption DEF JobsAssumption, Init, TypeOK
<1>3. JobsOK
  BY <1>1 DEF Init, JobsOK
<1>4. RunsOK
  BY DEF Init, RunsOK, RunOK, FreeRun
<1>5. CompletedMeansDone
  BY DEF Init, CompletedMeansDone, NewJob
<1>6. ASSUME NEW j \in Jobs
      PROVE  PostsLeft(run, j) = {} /\ Owing(run, j) = {}
  BY DEF Init, PostsLeft, Owing, Owes, FreeRun
<1>7. Cardinality({}) = 0
  BY FS_EmptySet
<1>8. PostsCounted
  <2> SUFFICES ASSUME NEW j \in Jobs
               PROVE  posts[j] + Cardinality(PostsLeft(run, j)) + RetryAttempts * Future(job[j])
                        <= RetryAttempts * (QueueAttempts + MaxStalls)
    BY DEF PostsCounted
  <2>1. posts[j] = 0 /\ Cardinality(PostsLeft(run, j)) = 0
    BY <1>6, <1>7 DEF Init
  <2>2. Future(job[j]) = QueueAttempts + MaxStalls
    BY JobsAssumption DEF JobsAssumption, Init, NewJob, Future, Final, Over
  <2>3. RetryAttempts * (QueueAttempts + MaxStalls) \in Int
    BY JobsAssumption DEF JobsAssumption
  <2> QED  BY <2>1, <2>2, <2>3
<1>9. AuditsCounted
  BY <1>6, <1>7 DEF Init, AuditsCounted
<1> QED  BY <1>2, <1>3, <1>4, <1>5, <1>8, <1>9 DEF IInv

\* Every step keeps the invariant.
LEMMA NextInv == IInv /\ [Next]_jobsVars => IInv'
<1> SUFFICES ASSUME IInv, [Next]_jobsVars
             PROVE  IInv'
  OBVIOUS
<1>1. ASSUME NEW j \in Jobs,
             Enqueue(j) \/ Promote(j) \/ Recover(j) \/ LoseLock(j) \/ Forget(j)
      PROVE  IInv'
  BY <1>1, QueueSteps
<1>2. ASSUME NEW s \in Slots, NEW j \in Jobs, Pick(s, j)
      PROVE  IInv'
  BY <1>2, PickStep
<1>3. ASSUME NEW s \in Slots, Check(s) \/ Refuse(s) \/ PostFails(s)
      PROVE  IInv'
  BY <1>3, CheckRefuseFail
<1>4. ASSUME NEW s \in Slots, Send(s)
      PROVE  IInv'
  BY <1>4, SendStep
<1>5. ASSUME NEW s \in Slots, PostAnswered(s)
      PROVE  IInv'
  BY <1>5, PostAnsweredStep
<1>6. ASSUME NEW s \in Slots, Audit(s)
      PROVE  IInv'
  BY <1>6, AuditStep
<1>7. ASSUME NEW s \in Slots, Finish(s)
      PROVE  IInv'
  BY <1>7, FinishStep
<1>8. ASSUME Crash \/ ToggleTenant \/ DeleteTenant
      PROVE  IInv'
  BY <1>8, CrashStep, TenantSteps
<1>9. CASE UNCHANGED jobsVars
  BY <1>9 DEF jobsVars, IInv, TypeOK, JobsOK, RunsOK, RunOK, CompletedMeansDone,
              PostsCounted, AuditsCounted
<1> QED  BY <1>1, <1>2, <1>3, <1>4, <1>5, <1>6, <1>7, <1>8, <1>9 DEF Next

\* The inductive invariant of the queue, whatever stalls, crashes and fails.
THEOREM InvHolds == Spec => []IInv
BY InitInv, NextInv, PTL DEF Spec

\* The types: BullMQ never counts past its attempts and stalls, nor the client
\* past its retries.
THEOREM JobsTypeCorrect == Spec => []TypeOK
<1>1. IInv => TypeOK
  BY DEF IInv
<1> QED  BY InvHolds, <1>1, PTL

\* A job that GET /onus/jobs/:jobId reports as completed was posted, carried
\* out if it says so, and logged while there is a tenant to log it for.
THEOREM CompletedMeansDoneHolds == Spec => []CompletedMeansDone
<1>1. IInv => CompletedMeansDone
  BY DEF IInv
<1> QED  BY InvHolds, <1>1, PTL

\* An operation is posted at most RetryAttempts times in each of its attempts
\* and in each run that a stall gives it.
THEOREM PostsBoundedHolds == Spec => []PostsBounded
<1>1. IInv => PostsBounded
  <2> SUFFICES ASSUME IInv, NEW j \in Jobs
               PROVE  posts[j] <= RetryAttempts * (QueueAttempts + MaxStalls)
    BY DEF PostsBounded
  <2> DEFINE L == Cardinality(PostsLeft(run, j))
             F == Future(job[j])
             B == RetryAttempts * (QueueAttempts + MaxStalls)
  <2>1. posts[j] + L + RetryAttempts * F <= B /\ posts[j] \in Nat
    BY DEF IInv, PostsCounted, TypeOK
  <2>2. L \in Nat /\ F \in Nat /\ RetryAttempts \in Nat /\ B \in Int
    BY CountsFinite, FutureType, JobsAssumption DEF JobsAssumption, IInv, TypeOK, JobsOK
  <2> HIDE DEF L, F, B
  <2>3. RetryAttempts * F \in Nat
    BY <2>2
  <2>4. posts[j] <= B
    BY <2>1, <2>2, <2>3
  <2> QED  BY <2>4 DEF B
<1> QED  BY InvHolds, <1>1, PTL

\* The audit log has no row that no request stands behind, however often an
\* operation is run again.
THEOREM AuditsArePostedHolds == Spec => []AuditsArePosted
<1>1. IInv => AuditsArePosted
  <2> SUFFICES ASSUME IInv, NEW j \in Jobs
               PROVE  audits[j] <= posts[j]
    BY DEF AuditsArePosted
  <2>1. /\ audits[j] + Cardinality(Owing(run, j)) <= posts[j]
        /\ audits[j] \in Nat /\ posts[j] \in Nat
    BY DEF IInv, AuditsCounted, TypeOK
  <2>2. Cardinality(Owing(run, j)) \in Nat
    BY CountsFinite
  <2> QED  BY <2>1, <2>2
<1> QED  BY InvHolds, <1>1, PTL

-----------------------------------------------------------------------------
(* Refinement: each step of the queue is a step of AtLeastOnceJobs, or one *)
(* that a client does not see.  The invariant is needed for the ends: a    *)
(* job that a processor completes is still pending, and was tried.  That a *)
(* job which is not lost ends is a matter of fairness, which a run checks. *)

\* What the client sees of a job.
Seen(b) ==
  IF b.state \in Final \cup {"unknown", "lost"} THEN b.state ELSE "pending"

Outcome == [j \in Jobs |-> Seen(job[j])]
Tried   == [j \in Jobs |-> posts[j] > 0]

\* A step that changes nothing that a client sees.
LEMMA Unseen ==
  ASSUME \A j \in Jobs : Seen(job'[j]) = Seen(job[j]), UNCHANGED posts
  PROVE  UNCHANGED Abstract!vars
BY DEF Abstract!vars, Seen

\* A step that brings a job to an end that a client sees, begins it or loses it.
LEMMA SeenStep ==
  ASSUME NEW j \in Jobs, NEW c, job \in [Jobs -> Job], UNCHANGED posts,
         job' = [job EXCEPT ![j] = c],
         \/ Seen(job[j]) = "unknown" /\ Seen(c) = "pending"
         \/ Seen(job[j]) = "pending" /\ Seen(c) = "failed"
         \/ Seen(job[j]) = "pending" /\ Seen(c) = "completed" /\ posts[j] > 0
         \/ Seen(job[j]) \notin {"unknown", "lost"} /\ Seen(c) = "lost"
         \/ Seen(job[j]) = Seen(c)
  PROVE  [Abstract!Next]_(Abstract!vars)
<1>1. job'[j] = c /\ \A i \in Jobs : i # j => job'[i] = job[i]
  OBVIOUS
<1>2. Outcome' = [Outcome EXCEPT ![j] = Seen(c)] /\ Outcome[j] = Seen(job[j])
  BY <1>1 DEF Outcome
<1>3. UNCHANGED Tried /\ (posts[j] > 0 => Tried[j])
  BY DEF Tried
<1>4. CASE Seen(job[j]) = "unknown" /\ Seen(c) = "pending"
  <2>1. Abstract!Submit(j)
    BY <1>2, <1>3, <1>4 DEF Abstract!Submit, Outcome, Tried, Seen
  <2> QED  BY <2>1 DEF Abstract!Next
<1>5. CASE Seen(job[j]) = "pending" /\ Seen(c) = "failed"
  <2>1. Abstract!Fail(j)
    BY <1>2, <1>3, <1>5 DEF Abstract!Fail, Outcome, Tried, Seen
  <2> QED  BY <2>1 DEF Abstract!Next
<1>6. CASE Seen(job[j]) = "pending" /\ Seen(c) = "completed" /\ posts[j] > 0
  <2>1. Abstract!Complete(j)
    BY <1>2, <1>3, <1>6 DEF Abstract!Complete, Outcome, Tried, Seen
  <2> QED  BY <2>1 DEF Abstract!Next
<1>7. CASE Seen(job[j]) \notin {"unknown", "lost"} /\ Seen(c) = "lost"
  <2>1. Abstract!Lose(j)
    BY <1>2, <1>3, <1>7 DEF Abstract!Lose, Outcome, Tried, Seen
  <2> QED  BY <2>1 DEF Abstract!Next
<1>8. CASE Seen(job[j]) = Seen(c)
  BY <1>1, <1>8, Unseen
<1> QED  BY <1>4, <1>5, <1>6, <1>7, <1>8

\* Every step of the queue is one that AtLeastOnceJobs allows.
LEMMA JobsStepsAreAbstract ==
  IInv /\ [Next]_jobsVars => [Abstract!Next]_(Abstract!vars)
<1> SUFFICES ASSUME IInv, [Next]_jobsVars
             PROVE  [Abstract!Next]_(Abstract!vars)
  OBVIOUS
<1> USE DEF IInv
<1>1. job \in [Jobs -> Job] /\ run \in [Slots -> Run] /\ posts \in [Jobs -> Nat]
  BY DEF TypeOK
<1>2. ASSUME NEW j \in Jobs, Enqueue(j) \/ Promote(j)
      PROVE  [Abstract!Next]_(Abstract!vars)
  <2> DEFINE c == [job[j] EXCEPT !.state = "waiting"]
  <2>1. job' = [job EXCEPT ![j] = c] /\ UNCHANGED posts
    BY <1>2 DEF Enqueue, Promote
  <2>2. job[j].state \in {"unknown", "delayed"} /\ c.state = "waiting"
    BY <1>1, <1>2 DEF Enqueue, Promote, Job
  <2>3. Seen(job[j]) \in {"unknown", "pending"} /\ Seen(c) = "pending"
    BY <2>2 DEF Seen, Final
  <2> HIDE DEF c
  <2> QED  BY <1>1, <2>1, <2>3, SeenStep
<1>3. ASSUME NEW j \in Jobs, Recover(j) \/ LoseLock(j)
      PROVE  [Abstract!Next]_(Abstract!vars)
  <2> DEFINE c == Stalled(job[j])
  <2>1. job' = [job EXCEPT ![j] = c] /\ UNCHANGED posts
    BY <1>3 DEF Recover, LoseLock
  <2>2. job[j].state = "active" /\ JobOK(job[j]) /\ job[j] \in Job
    BY <1>1, <1>3 DEF Recover, LoseLock, Orphaned, JobsOK
  <2>3. c.state \in {"waiting", "failed"}
    BY <2>2, StalledOK
  <2>4. Seen(job[j]) = "pending" /\ Seen(c) \in {"pending", "failed"}
    BY <2>2, <2>3 DEF Seen, Final
  <2> HIDE DEF c
  <2> QED  BY <1>1, <2>1, <2>4, SeenStep
<1>a. ASSUME NEW j \in Jobs, Forget(j)
      PROVE  [Abstract!Next]_(Abstract!vars)
  <2> DEFINE c == [job[j] EXCEPT !.state = "lost", !.owner = Nobody]
  <2>1. job' = [job EXCEPT ![j] = c] /\ UNCHANGED posts
    BY <1>a DEF Forget
  <2>2. job[j].state \notin {"unknown", "lost"} /\ c.state = "lost"
    BY <1>1, <1>a DEF Forget, Job
  <2>3. Seen(job[j]) \notin {"unknown", "lost"} /\ Seen(c) = "lost"
    BY <2>2 DEF Seen, Final
  <2> HIDE DEF c
  <2> QED  BY <1>1, <2>1, <2>3, SeenStep
<1>4. ASSUME NEW s \in Slots, NEW j \in Jobs, Pick(s, j)
      PROVE  [Abstract!Next]_(Abstract!vars)
  <2> DEFINE c == [job[j] EXCEPT !.state = "active", !.owner = s]
  <2>1. job' = [job EXCEPT ![j] = c] /\ UNCHANGED posts
    BY <1>4 DEF Pick
  <2>2. job[j].state = "waiting" /\ c.state = "active"
    BY <1>1, <1>4 DEF Pick, Job
  <2>3. Seen(job[j]) = "pending" /\ Seen(c) = "pending"
    BY <2>2 DEF Seen, Final
  <2> HIDE DEF c
  <2> QED  BY <1>1, <2>1, <2>3, SeenStep
<1>5. ASSUME NEW s \in Slots, Send(s)
      PROVE  [Abstract!Next]_(Abstract!vars)
  <2>1. PICK j \in Jobs : j = run[s].job /\ job[j].state # "unknown"
    BY <1>1, <1>5 DEF Send, RunsOK, RunOK, Run
  <2>2. job' = job /\ posts' = [posts EXCEPT ![j] = @ + 1]
    BY <1>5, <2>1 DEF Send
  <2>3. Outcome[j] # "unknown" /\ UNCHANGED Outcome
    BY <2>1, <2>2 DEF Outcome, Seen, Final
  <2>4. ASSUME NEW i \in Jobs
        PROVE  (posts'[i] > 0) = (IF i = j THEN TRUE ELSE posts[i] > 0)
    <3>1. (i = j => posts'[i] > 0) /\ (i # j => posts'[i] = posts[i])
      BY <1>1, <2>1, <2>2
    <3> QED  BY <3>1, Zenon
  <2>5. Tried' = [i \in Jobs |-> IF i = j THEN TRUE ELSE posts[i] > 0]
    BY <2>4, Zenon DEF Tried
  <2>6. \A i \in Jobs : Tried[i] = (posts[i] > 0)
    BY Zenon DEF Tried
  <2>7. Tried' = [Tried EXCEPT ![j] = TRUE]
    BY <2>5, <2>6, Zenon DEF Tried
  <2>8. Abstract!Try(j)
    BY <2>3, <2>7, Zenon DEF Abstract!Try, Outcome, Tried, Seen
  <2> QED  BY <2>8, Zenon DEF Abstract!Next
<1>6. ASSUME NEW s \in Slots, Finish(s)
      PROVE  [Abstract!Next]_(Abstract!vars)
  <2> DEFINE j == run[s].job
             b == job[j]
  <2>1. j \in Jobs /\ b \in Job /\ JobOK(b) /\ RunOK(s) /\ UNCHANGED posts
    BY <1>1, <1>6 DEF Finish, JobsOK, RunsOK, Run
  <2>2. run[s].phase \in {"return", "throw"}
    BY <1>6 DEF Finish
  <2>3. CASE b.owner # s
    <3>1. job' = job
      BY <1>6, <2>3 DEF Finish
    <3> QED  BY <2>1, <3>1, Unseen
  <2>4. CASE b.owner = s
    <3>1. b.state = "active"
      BY <2>1, <2>4, JobsAssumption DEF JobsAssumption, JobOK
    <3>2. Seen(b) = "pending"
      BY <3>1 DEF Seen, Final
    <3>3. CASE run[s].phase = "throw"
      <4> DEFINE c == Thrown(b)
      <4>1. job' = [job EXCEPT ![j] = c]
        BY <1>6, <2>4, <3>3 DEF Finish
      <4>2. c.state \in {"delayed", "failed"}
        BY <2>1, <3>1, ThrownOK
      <4>3. Seen(c) \in {"pending", "failed"}
        BY <4>2 DEF Seen, Final
      <4> HIDE DEF c
      <4> QED  BY <1>1, <2>1, <3>2, <4>1, <4>3, SeenStep
    <3>4. CASE run[s].phase = "return"
      <4> DEFINE c == [b EXCEPT !.state = "completed", !.owner = Nobody,
                                !.success = run[s].success]
      <4>1. job' = [job EXCEPT ![j] = c]
        BY <1>6, <2>4, <3>4 DEF Finish
      <4>2. c.state = "completed"
        BY <2>1 DEF Job
      <4>3. Seen(c) = "completed"
        BY <4>2 DEF Seen, Final
      <4>4. posts[j] > 0
        BY <1>1, <2>1, <3>4 DEF RunOK
      <4> HIDE DEF c
      <4> QED  BY <1>1, <2>1, <3>2, <4>1, <4>3, <4>4, SeenStep
    <3> QED  BY <2>2, <3>3, <3>4
  <2> QED  BY <2>3, <2>4
<1>7. CASE job' = job /\ posts' = posts
  BY <1>7, Unseen
<1>8. ASSUME NEW s \in Slots,
             Check(s) \/ Refuse(s) \/ PostAnswered(s) \/ PostFails(s) \/ Audit(s)
      PROVE  [Abstract!Next]_(Abstract!vars)
  BY <1>7, <1>8 DEF Check, Refuse, PostAnswered, PostFails, Audit
<1>9. CASE Crash \/ ToggleTenant \/ DeleteTenant \/ UNCHANGED jobsVars
  BY <1>7, <1>9 DEF Crash, ToggleTenant, DeleteTenant, jobsVars
<1> QED  BY <1>2, <1>3, <1>a, <1>4, <1>5, <1>6, <1>8, <1>9 DEF Next

\* The safety part of ImplementsAtLeastOnce: an outcome is final, follows on
\* an accepted job, and is "completed" only if the operation was tried.
THEOREM QueueImplementsAtLeastOnce ==
  Spec => Abstract!Init /\ [][Abstract!Next]_(Abstract!vars)
<1>1. Init => Abstract!Init
  <2> SUFFICES ASSUME Init
               PROVE  Abstract!Init
    OBVIOUS
  <2>1. \A j \in Jobs : Seen(job[j]) = "unknown" /\ ~(posts[j] > 0)
    BY DEF Init, NewJob, Seen
  <2>2. Outcome = [j \in Jobs |-> "unknown"]
    BY <2>1 DEF Outcome
  <2>3. \A j \in Jobs : (posts[j] > 0) = FALSE
    BY <2>1
  <2>4. Tried = [j \in Jobs |-> FALSE]
    BY <2>3, Zenon DEF Tried
  <2> QED  BY <2>2, <2>4, Zenon DEF Abstract!Init, Outcome, Tried, Seen
<1> QED  BY <1>1, InvHolds, JobsStepsAreAbstract, PTL DEF Spec
=============================================================================
