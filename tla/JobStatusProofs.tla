--------------------------- MODULE JobStatusProofs ---------------------------
(***************************************************************************)
(* Theorems of JobStatus, for every finite set of jobs, every set of calls *)
(* in progress and every number of attempts.                               *)
(*                                                                         *)
(* What clients are told of a job's end is AnswersOK: a job has one end,   *)
(* which the lists keep until it is removed, and a call that began after   *)
(* somebody was told has read the result of that end.  The queue counts    *)
(* are TallyOK: what has been counted together with the jobs in the lists  *)
(* that are still to be counted is off by the moves, at every point of the *)
(* call; only at its end nothing is left to be counted.                    *)
(***************************************************************************)
EXTENDS JobStatus, FiniteSetTheorems, TLAPS

State    == {"none"} \cup Pending \cup Final
Record   == [state : State, made : Nat, kept : BOOLEAN,
             result : BOOLEAN, error : BOOLEAN, added : BOOLEAN]

\* A job has a result exactly if it is completed, and an error if it failed.
RecordOK(b) ==
  /\ b.state \in Pending => ~b.result
  /\ b.state = "completed" => b.result
  /\ b.state = "failed" => ~b.result /\ b.error
  /\ b.state # "none" => b.added

\* A client that is told of a job's end is told of the one it has, and a job
\* that is in no list any more does not come back.
JobOK(j) ==
  /\ RecordOK(job[j])
  /\ told[j] # {} => /\ job[j].added
                     /\ job[j].state = "none" \/ told[j] = {job[j].state}

\* Between its reads a call holds what it has to answer.
PollOK(p) ==
  poll[p].phase = "read" =>
    /\ poll[p].job \in Jobs
    /\ poll[p].before \subseteq Final
    /\ poll[p].before # {} =>
         LET b == job[poll[p].job] IN
         /\ b.added
         /\ \/ b.state = "none"
            \/ /\ b.state \in poll[p].before
               /\ poll[p].result <=> b.state = "completed"
               /\ b.state = "failed" => poll[p].error

AnswersOK ==
  /\ job \in [Jobs -> Record]
  /\ told \in [Jobs -> SUBSET Final]
  /\ poll = [p \in Pollers |-> poll[p]]
  /\ \A j \in Jobs : JobOK(j)
  /\ \A p \in Pollers : PollOK(p)

\* The lists that a getQueueMetrics() call reads with its n-th count and later.
Uncounted(n) == {Counted[i] : i \in n..5}

\* How many jobs are in these lists.
Left(n) == Cardinality(InState(Uncounted(n)))

TallyOK ==
  /\ tally \in [next : 0..6, total : Nat, present : Nat, moves : 0..MaxMoves]
  /\ tally.next # 0 =>
       /\ tally.present <= Cardinality(Jobs)
       /\ tally.total <= (tally.next - 1) * Cardinality(Jobs)
       /\ tally.total + Left(tally.next) <= tally.present + tally.moves
       /\ tally.present <= tally.total + Left(tally.next) + tally.moves

IInv == AnswersOK /\ TallyOK

-----------------------------------------------------------------------------
(* The jobs' moves                                                         *)

\* What becomes of a job, b, that was a: it is in another list, from which it
\* does not come back when it has ended, or in none.
Follows(b, a) ==
  /\ b \in Record /\ RecordOK(b)
  /\ a.added => b.added
  /\ a.state \in Final => b.state = "none"
  /\ a.state = "none" /\ a.added => b.state = "none"

\* Job j moves.
JobStep(j) ==
  \/ Add(j) \/ Take(j) \/ Return(j) \/ Throw(j) \/ Stall(j) \/ Promote(j) \/ Remove(j)

\* Each of the queue's steps is such a move.
LEMMA MovesOf ==
  ASSUME AnswersOK, NEW j \in Jobs, JobStep(j)
  PROVE  \E b \in Record : Move(j, b) /\ Follows(b, job[j])
<1> USE DEF Follows, Record, RecordOK, State, Pending, Final, NewJob
<1>1. job[j] \in Record /\ RecordOK(job[j])
  BY DEF AnswersOK, JobOK
<1>2. CASE Add(j)
  <2> DEFINE b == [NewJob EXCEPT !.state = "waiting", !.kept = TRUE, !.added = TRUE]
  <2>1. Move(j, b)
    BY <1>2 DEF Add
  <2>2. b \in Record /\ Follows(b, job[j])
    BY <1>1, <1>2 DEF Add
  <2>3. QED
    BY <2>1, <2>2
<1>3. CASE Take(j)
  <2> DEFINE b == [job[j] EXCEPT !.state = "active"]
  <2>1. Move(j, b)
    BY <1>3 DEF Take
  <2>2. b \in Record /\ Follows(b, job[j])
    BY <1>1, <1>3 DEF Take
  <2>3. QED
    BY <2>1, <2>2
<1>4. CASE Return(j)
  <2> DEFINE b == [job[j] EXCEPT !.state = "completed", !.result = TRUE]
  <2>1. Move(j, b)
    BY <1>4 DEF Return
  <2>2. b \in Record /\ Follows(b, job[j])
    BY <1>1, <1>4 DEF Return
  <2>3. QED
    BY <2>1, <2>2
<1>5. CASE Throw(j)
  <2> DEFINE made == job[j].made + 1
             b == [job[j] EXCEPT !.made = made, !.error = TRUE,
                     !.state = IF made < QueueAttempts THEN "delayed" ELSE "failed"]
  <2>1. Move(j, b)
    BY <1>5 DEF Throw
  <2>2. made \in Nat
    BY <1>1
  <2> HIDE DEF made
  <2>3. b \in Record /\ Follows(b, job[j])
    BY <1>1, <1>5, <2>2 DEF Throw
  <2>4. QED
    BY <2>1, <2>3
<1>6. CASE Stall(j)
  <2> DEFINE b == [job[j] EXCEPT !.state = "waiting"]
             c == [job[j] EXCEPT !.state = "failed", !.error = TRUE]
  <2>1. Move(j, b) \/ Move(j, c)
    BY <1>6 DEF Stall
  <2>2. b \in Record /\ Follows(b, job[j]) /\ c \in Record /\ Follows(c, job[j])
    BY <1>1, <1>6 DEF Stall
  <2>3. QED
    BY <2>1, <2>2
<1>7. CASE Promote(j)
  <2> DEFINE b == [job[j] EXCEPT !.state = "waiting"]
  <2>1. Move(j, b)
    BY <1>7 DEF Promote
  <2>2. b \in Record /\ Follows(b, job[j])
    BY <1>1, <1>7 DEF Promote
  <2>3. QED
    BY <2>1, <2>2
<1>8. CASE Remove(j)
  <2> DEFINE b == [NewJob EXCEPT !.added = TRUE]
  <2>1. Move(j, b)
    BY <1>8 DEF Remove
  <2>2. b \in Record /\ Follows(b, job[j])
    BY <1>1, <1>8 DEF Remove
  <2>3. QED
    BY <2>1, <2>2
<1>9. QED
  BY <1>2, <1>3, <1>4, <1>5, <1>6, <1>7, <1>8 DEF JobStep

\* The answers that calls have given and will give outlive every move of jobs.
LEMMA MovesKeepAnswers ==
  ASSUME AnswersOK, job' = [j \in Jobs |-> job'[j]],
         \A j \in Jobs : job'[j] = job[j] \/ Follows(job'[j], job[j]),
         UNCHANGED <<poll, told>>
  PROVE  AnswersOK'
<1>1. job' \in [Jobs -> Record]
  BY DEF AnswersOK, Follows
<1>2. ASSUME NEW i \in Jobs PROVE JobOK(i)'
  <2>1. JobOK(i) /\ told'[i] = told[i] /\ told[i] \subseteq Final
    BY DEF AnswersOK
  <2>2. CASE job'[i] = job[i]
    BY <2>1, <2>2 DEF JobOK
  <2>3. CASE Follows(job'[i], job[i])
    BY <2>1, <2>3 DEF JobOK, Follows, Final
  <2>4. QED
    BY <2>2, <2>3
<1>3. ASSUME NEW p \in Pollers PROVE PollOK(p)'
  <2>1. PollOK(p) /\ poll'[p] = poll[p]
    BY DEF AnswersOK
  <2>2. QED
    BY <2>1 DEF PollOK, Follows
<1>4. QED
  BY <1>1, <1>2, <1>3 DEF AnswersOK

\* One job's move is one.
LEMMA MoveKeepsAnswers ==
  ASSUME AnswersOK, NEW j \in Jobs, NEW b, Follows(b, job[j]), Move(j, b)
  PROVE  AnswersOK'
<1>1. /\ job' = [i \in Jobs |-> job'[i]]
      /\ job'[j] = b
      /\ \A i \in Jobs : i # j => job'[i] = job[i]
      /\ UNCHANGED <<poll, told>>
  BY DEF AnswersOK, Move, Moved
<1>2. QED
  BY <1>1, MovesKeepAnswers

\* So is the end of a list.
LEMMA EvictListKeepsAnswers ==
  ASSUME AnswersOK, NEW state \in Pending \cup Final, EvictList(state)
  PROVE  AnswersOK'
<1>1. /\ job' = [j \in Jobs |-> job'[j]]
      /\ UNCHANGED <<poll, told>>
  BY DEF EvictList, Moved
<1>2. ASSUME NEW j \in Jobs, j \in InState({state})
      PROVE  Follows(job'[j], job[j])
  <2> DEFINE b == [job[j] EXCEPT !.state = "none"]
  <2>1. job'[j] = b
    BY <1>2 DEF EvictList
  <2>2. job[j] \in Record /\ RecordOK(job[j]) /\ job[j].state # "none"
    BY <1>2 DEF AnswersOK, JobOK, InState, Pending, Final
  <2>3. b \in Record /\ RecordOK(b) /\ b.added /\ b.state = "none"
    BY <2>2 DEF Record, RecordOK, State, Pending, Final
  <2> HIDE DEF b
  <2>4. QED
    BY <2>1, <2>3 DEF Follows
<1>3. \A j \in Jobs : j \notin InState({state}) => job'[j] = job[j]
  BY DEF EvictList
<1>4. QED
  BY <1>1, <1>2, <1>3, MovesKeepAnswers

\* A record that is evicted says nothing about the job's list.
LEMMA EvictKeeps ==
  ASSUME IInv, NEW j \in Jobs, Evict(j)
  PROVE  IInv'
<1> DEFINE b == [job[j] EXCEPT !.kept = FALSE]
<1>1. job' = [job EXCEPT ![j] = b] /\ UNCHANGED <<poll, told, tally>>
  BY DEF Evict
<1>2. job[j] \in Record
  BY DEF IInv, AnswersOK
<1>3. /\ b \in Record /\ b.state = job[j].state
      /\ b.result = job[j].result /\ b.error = job[j].error
      /\ b.added = job[j].added
  BY <1>2 DEF Record
<1> HIDE DEF b
<1>4. /\ job' \in [Jobs -> Record]
      /\ \A i \in Jobs : /\ job'[i].state = job[i].state
                         /\ job'[i].result = job[i].result
                         /\ job'[i].error = job[i].error
                         /\ job'[i].added = job[i].added
  BY <1>1, <1>3 DEF IInv, AnswersOK
<1>5. AnswersOK'
  BY <1>1, <1>4 DEF IInv, AnswersOK, JobOK, RecordOK, PollOK
<1>6. \A states : InState(states)' = InState(states)
  BY <1>4 DEF InState
<1>7. \A n : Left(n)' = Left(n)
  BY <1>6 DEF Left
<1>8. TallyOK'
  BY <1>1, <1>7 DEF IInv, TallyOK
<1>9. QED
  BY <1>5, <1>8 DEF IInv

-----------------------------------------------------------------------------
(* The calls                                                               *)

\* A call that begins after somebody was told of the job's end has read the
\* result or error of that end.
LEMMA GetJobKeeps ==
  ASSUME AnswersOK, NEW p \in Pollers, NEW j \in Jobs, GetJob(p, j)
  PROVE  AnswersOK'
<1> DEFINE q == [phase |-> "read", job |-> j, before |-> told[j],
                 result |-> job[j].result, error |-> job[j].error]
<1>1. poll' = [poll EXCEPT ![p] = q] /\ UNCHANGED <<job, told>>
  BY DEF GetJob
<1>2. poll' = [r \in Pollers |-> poll'[r]] /\ poll'[p] = q
  BY <1>1 DEF AnswersOK
<1>3. JobOK(j) /\ told[j] \subseteq Final
  BY DEF AnswersOK
<1>4. PollOK(p)'
  BY <1>1, <1>2, <1>3 DEF PollOK, JobOK, RecordOK, Final
<1>5. ASSUME NEW r \in Pollers, r # p PROVE PollOK(r)'
  <2>1. poll'[r] = poll[r] /\ PollOK(r)
    BY <1>1, <1>5 DEF AnswersOK
  <2>2. QED
    BY <1>1, <2>1 DEF PollOK
<1>6. \A i \in Jobs : JobOK(i)'
  BY <1>1 DEF AnswersOK, JobOK, RecordOK
<1>7. QED
  BY <1>1, <1>2, <1>4, <1>5, <1>6 DEF AnswersOK

\* A call that ends holds nothing.
LEMMA PollEnds ==
  ASSUME AnswersOK, NEW p \in Pollers, poll' = [poll EXCEPT ![p] = NoPoll], UNCHANGED job
  PROVE  poll' = [r \in Pollers |-> poll'[r]] /\ \A r \in Pollers : PollOK(r)'
<1>1. poll' = [r \in Pollers |-> poll'[r]] /\ poll'[p].phase = "idle"
  BY DEF AnswersOK, NoPoll
<1>2. ASSUME NEW r \in Pollers, r # p PROVE PollOK(r)'
  <2>1. poll'[r] = poll[r] /\ PollOK(r)
    BY <1>2 DEF AnswersOK
  <2>2. QED
    BY <2>1 DEF PollOK
<1>3. PollOK(p)'
  BY <1>1 DEF PollOK
<1>4. QED
  BY <1>1, <1>2, <1>3

\* An answer tells of the state that the job is in, and of no other end than
\* those that were told before.
LEMMA GetStateKeeps ==
  ASSUME AnswersOK, NEW p \in Pollers, GetState(p)
  PROVE  AnswersOK'
<1> PICK j \in Jobs : j = poll[p].job
  BY DEF GetState, AnswersOK, PollOK
<1>1. /\ told' = [told EXCEPT ![j] = told[j] \cup (Final \cap {job[j].state})]
      /\ poll' = [poll EXCEPT ![p] = NoPoll] /\ UNCHANGED job
  BY DEF GetState
<1>2. /\ told' \in [Jobs -> SUBSET Final]
      /\ told'[j] = told[j] \cup (Final \cap {job[j].state})
      /\ \A i \in Jobs : i # j => told'[i] = told[i]
  BY <1>1 DEF AnswersOK
<1>3. /\ JobOK(j)
      /\ "none" \notin Final
  BY <1>1 DEF AnswersOK, Final
<1>4. JobOK(j)'
  <2>1. CASE job[j].state \in Final
    <3>1. told'[j] = {job[j].state}
      BY <1>2, <1>3, <2>1 DEF JobOK
    <3>2. QED
      BY <1>1, <1>3, <2>1, <3>1 DEF JobOK, RecordOK
  <2>2. CASE job[j].state \notin Final
    <3>1. told'[j] = told[j]
      BY <1>2, <2>2
    <3>2. QED
      BY <1>1, <1>3, <3>1 DEF JobOK, RecordOK
  <2>3. QED
    BY <2>1, <2>2
<1>5. ASSUME NEW i \in Jobs, i # j PROVE JobOK(i)'
  BY <1>1, <1>2, <1>5 DEF AnswersOK, JobOK, RecordOK
<1>6. QED
  BY <1>1, <1>2, <1>4, <1>5, PollEnds DEF AnswersOK

\* A call that fails tells nothing.
LEMMA PollFailsKeeps ==
  ASSUME AnswersOK, NEW p \in Pollers, PollFails(p)
  PROVE  AnswersOK'
<1>1. poll' = [poll EXCEPT ![p] = NoPoll] /\ UNCHANGED <<job, told>>
  BY DEF PollFails
<1>2. \A i \in Jobs : JobOK(i)'
  BY <1>1 DEF AnswersOK, JobOK, RecordOK
<1>3. QED
  BY <1>1, <1>2, PollEnds DEF AnswersOK

-----------------------------------------------------------------------------
(* The counts                                                              *)

\* The jobs of the queue in some states can be counted, there are no more than
\* all jobs.
LEMMA InStateFinite ==
  ASSUME NEW states
  PROVE  /\ InState(states) \subseteq Jobs /\ IsFiniteSet(InState(states))
         /\ Cardinality(InState(states)) \in Nat
         /\ Cardinality(Jobs) \in Nat
         /\ Cardinality(InState(states)) <= Cardinality(Jobs)
<1>1. InState(states) \subseteq Jobs
  BY DEF InState
<1>2. QED
  BY <1>1, FS_Subset, FS_CardinalityType, StatusAssumption

\* Two sets that differ in elements of D only differ by no more in size.
LEMMA Apart ==
  ASSUME NEW S, NEW T, NEW D, IsFiniteSet(S), IsFiniteSet(T), IsFiniteSet(D),
         S \ D = T \ D
  PROVE  Cardinality(S) <= Cardinality(T) + Cardinality(D)
<1>1. /\ Cardinality(S \ D) = Cardinality(S) - Cardinality(S \cap D)
      /\ Cardinality(T \ D) = Cardinality(T) - Cardinality(T \cap D)
  BY FS_Difference
<1>2. /\ Cardinality(S \cap D) <= Cardinality(D)
      /\ IsFiniteSet(S \cap D) /\ IsFiniteSet(T \cap D)
  BY FS_Intersection
<1>3. /\ Cardinality(S) \in Nat /\ Cardinality(T) \in Nat /\ Cardinality(D) \in Nat
      /\ Cardinality(S \cap D) \in Nat /\ Cardinality(T \cap D) \in Nat
  BY <1>2, FS_CardinalityType
<1>4. QED
  BY <1>1, <1>2, <1>3

\* When the jobs of D move, the number of jobs in some lists changes by no more.
LEMMA MoveShifts ==
  ASSUME NEW D \in SUBSET Jobs, \A i \in Jobs \ D : job'[i] = job[i], NEW n
  PROVE  /\ Left(n) \in Nat /\ Left(n)' \in Nat /\ Cardinality(D) \in Nat
         /\ Left(n)' <= Left(n) + Cardinality(D)
         /\ Left(n) <= Left(n)' + Cardinality(D)
         /\ Left(n)' <= Cardinality(Jobs)
         /\ n = 6 => Left(n)' = 0
<1> DEFINE S == InState(Uncounted(n))
           T == {i \in Jobs : job'[i].state \in Uncounted(n)}
<1>1. Left(n) = Cardinality(S) /\ Left(n)' = Cardinality(T)
  BY DEF Left, InState, Uncounted
<1>2. /\ IsFiniteSet(T) /\ Cardinality(T) \in Nat
      /\ Cardinality(T) <= Cardinality(Jobs)
      /\ IsFiniteSet(D) /\ Cardinality(D) \in Nat
  <2>1. T \subseteq Jobs
    OBVIOUS
  <2>2. QED
    BY <2>1, FS_Subset, FS_CardinalityType, StatusAssumption
<1>3. IsFiniteSet(S) /\ Cardinality(S) \in Nat
  BY InStateFinite
<1>4. S \ D = T \ D
  BY DEF InState
<1>5. n = 6 => Cardinality(T) = 0
  <2>1. n = 6 => T = {}
    BY DEF Uncounted
  <2>2. QED
    BY <2>1, FS_EmptySet
<1> HIDE DEF S, T
<1>6. QED
  BY <1>1, <1>2, <1>3, <1>4, <1>5, Apart

\* After the last count nothing is left, and of the lists that are left before
\* it one is read next.
LEMMA LeftSplits ==
  /\ Left(6) = 0
  /\ \A n \in 1..5 : Left(n) = Cardinality(InState({Counted[n]})) + Left(n + 1)
<1>1. Left(6) = 0
  <2>1. InState(Uncounted(6)) = {}
    BY DEF Uncounted, InState
  <2>2. QED
    BY <2>1, FS_EmptySet DEF Left
<1>2. ASSUME NEW n \in 1..5
      PROVE  Left(n) = Cardinality(InState({Counted[n]})) + Left(n + 1)
  <2> DEFINE A == InState({Counted[n]})
             B == InState(Uncounted(n + 1))
  <2>1. Uncounted(n) = {Counted[n]} \cup Uncounted(n + 1)
    BY DEF Uncounted
  <2>2. Counted[n] \notin Uncounted(n + 1)
    BY DEF Uncounted, Counted
  <2>3. InState(Uncounted(n)) = A \cup B /\ A \cap B = {}
    BY <2>1, <2>2 DEF InState
  <2>4. /\ IsFiniteSet(A) /\ IsFiniteSet(B)
        /\ Cardinality(A) \in Nat /\ Cardinality(B) \in Nat
    BY InStateFinite
  <2> HIDE DEF A, B
  <2>5. Cardinality(A \cup B) = Cardinality(A) + Cardinality(B) - Cardinality(A \cap B)
    BY <2>4, FS_Union
  <2>6. Cardinality(A \cap B) = 0
    BY <2>3, FS_EmptySet
  <2>7. Left(n) = Cardinality(A \cup B) /\ Left(n + 1) = Cardinality(B)
    BY <2>3 DEF Left, B
  <2>8. QED
    BY <2>4, <2>5, <2>6, <2>7 DEF A
<1>3. QED
  BY <1>1, <1>2

\* Moves during the call are counted, unless so many were counted that the
\* counts cannot be off by more.
LEMMA MovesKeepCounts ==
  ASSUME IInv, NEW D \in SUBSET Jobs, Moved(Cardinality(D)),
         \A i \in Jobs \ D : job'[i] = job[i]
  PROVE  TallyOK'
<1>1. tally \in [next : 0..6, total : Nat, present : Nat, moves : 0..MaxMoves]
  BY DEF IInv, TallyOK
<1>2. CASE tally.next = 0
  <2>1. tally' = tally
    BY <1>2 DEF Moved
  <2>2. QED
    BY <1>1, <1>2, <2>1 DEF TallyOK, MaxMoves
<1>3. CASE tally.next # 0
  <2>1. PICK n \in 1..6 : n = tally.next
    BY <1>1, <1>3
  <2>2. PICK N \in Nat : N = Cardinality(Jobs) /\ MaxMoves = 5 * N
    BY InStateFinite DEF MaxMoves
  <2> DEFINE d == Cardinality(D)
  <2> d \in Nat
    BY MoveShifts
  <2> HIDE DEF d
  <2>3. /\ tally.present <= N /\ tally.total <= (n - 1) * N
        /\ tally.total + Left(n) <= tally.present + tally.moves
        /\ tally.present <= tally.total + Left(n) + tally.moves
    BY <1>3, <2>1, <2>2 DEF IInv, TallyOK
  <2>4. /\ Left(n) \in Nat /\ Left(n)' \in Nat
        /\ Left(n)' <= Left(n) + d /\ Left(n) <= Left(n)' + d
        /\ Left(n)' <= N /\ (n = 6 => Left(n)' = 0)
    BY <2>2, MoveShifts DEF d
  <2>5. /\ tally' \in [next : 0..6, total : Nat, present : Nat, moves : 0..MaxMoves]
        /\ tally'.next = n /\ tally'.total = tally.total /\ tally'.present = tally.present
        /\ IF tally.moves + d > MaxMoves THEN tally'.moves = MaxMoves
                                         ELSE tally'.moves = tally.moves + d
    <3>1. PICK m : m = IF tally.moves + d > MaxMoves THEN MaxMoves ELSE tally.moves + d
      OBVIOUS
    <3>2. tally' = [tally EXCEPT !.moves = m]
      BY <1>3, <3>1 DEF Moved, d
    <3>3. m \in 0..MaxMoves
      BY <1>1, <2>2, <3>1
    <3>4. QED
      BY <1>1, <2>1, <3>1, <3>2, <3>3
  <2>6. /\ tally.total + Left(n)' <= tally.present + tally'.moves
        /\ tally.present <= tally.total + Left(n)' + tally'.moves
    <3>1. CASE tally.moves + d > MaxMoves
      <4>1. tally.total <= 5 * N /\ (n # 6 => tally.total <= 4 * N)
        BY <1>1, <2>1, <2>2, <2>3
      <4>2. tally.total + Left(n)' <= 5 * N
        BY <1>1, <2>2, <2>4, <4>1
      <4>3. QED
        BY <1>1, <2>2, <2>3, <2>4, <2>5, <3>1, <4>2
    <3>2. CASE ~(tally.moves + d > MaxMoves)
      BY <1>1, <2>2, <2>3, <2>4, <2>5, <3>2
    <3>3. QED
      BY <3>1, <3>2
  <2>7. QED
    BY <2>1, <2>2, <2>3, <2>5, <2>6 DEF TallyOK, MaxMoves
<1>4. QED
  BY <1>2, <1>3

\* A call starts with everything left, counts one list at a time, and ends.
LEMMA CountingKeepsCounts ==
  ASSUME TallyOK, TallyStart \/ TallyNext \/ TallyEnd
  PROVE  TallyOK'
<1>1. PICK N \in Nat : N = Cardinality(Jobs) /\ MaxMoves = 5 * N
  BY InStateFinite DEF MaxMoves
<1>2. UNCHANGED job
  BY DEF TallyStart, TallyNext, TallyEnd
<1>3. \A states : InState(states)' = InState(states)
  BY <1>2 DEF InState
<1>4. \A n : Left(n)' = Left(n)
  BY <1>3 DEF Left
<1>5. tally \in [next : 0..6, total : Nat, present : Nat, moves : 0..MaxMoves]
  BY DEF TallyOK
<1>6. CASE TallyStart
  <2>1. InState(Uncounted(1)) = InState(Pending \cup Final)
    BY DEF Uncounted, Counted, Pending, Final, InState
  <2>2. PICK k \in Nat : /\ k = Cardinality(InState(Pending \cup Final)) /\ k <= N
                         /\ Left(1) = k
    BY <1>1, <2>1, InStateFinite DEF Left
  <2>3. tally' = [next |-> 1, total |-> 0, present |-> k, moves |-> 0]
    BY <1>6, <2>2 DEF TallyStart, NoTally
  <2>4. QED
    BY <1>1, <1>4, <2>2, <2>3 DEF TallyOK, MaxMoves
<1>7. CASE TallyNext
  <2>1. PICK n \in 1..5 : n = tally.next
    BY <1>7 DEF TallyNext
  <2>2. PICK k \in Nat : /\ k = Cardinality(InState({Counted[n]})) /\ k <= N
                         /\ Left(n) = k + Left(n + 1)
    BY <1>1, InStateFinite, LeftSplits
  <2>3. /\ tally.present <= N /\ tally.total <= (n - 1) * N
        /\ tally.total + Left(n) <= tally.present + tally.moves
        /\ tally.present <= tally.total + Left(n) + tally.moves
    BY <1>1, <2>1 DEF TallyOK
  <2>4. Left(n + 1) \in Nat
    BY InStateFinite DEF Left
  <2>5. /\ tally' \in [next : 0..6, total : Nat, present : Nat, moves : 0..MaxMoves]
        /\ tally'.next = n + 1 /\ tally'.total = tally.total + k
        /\ tally'.present = tally.present /\ tally'.moves = tally.moves
    <3>1. tally' = [tally EXCEPT !.next = n + 1, !.total = tally.total + k]
      BY <1>7, <2>1, <2>2 DEF TallyNext
    <3>2. n + 1 \in 0..6 /\ tally.total + k \in Nat
      BY <1>5, <2>1, <2>2
    <3>3. PICK t : t = tally.total + k
      OBVIOUS
    <3>4. PICK m : m = n + 1
      OBVIOUS
    <3>5. tally' = [tally EXCEPT !.next = m, !.total = t] /\ m \in 0..6 /\ t \in Nat
      BY <3>1, <3>2, <3>3, <3>4
    <3>6. QED
      BY <1>5, <3>3, <3>4, <3>5
  <2>6. tally'.total <= n * N
    <3>1. tally.total \in Nat /\ tally.total <= (n - 1) * N /\ tally'.total = tally.total + k
      BY <1>5, <2>3, <2>5
    <3>2. n \in {1, 2, 3, 4, 5}
      OBVIOUS
    <3>3. QED
      BY <2>2, <3>1, <3>2
  <2>7. /\ tally'.total + Left(n + 1) <= tally'.present + tally'.moves
        /\ tally'.present <= tally'.total + Left(n + 1) + tally'.moves
    BY <1>5, <2>2, <2>3, <2>4, <2>5
  <2>8. QED
    BY <1>1, <1>4, <2>1, <2>3, <2>5, <2>6, <2>7 DEF TallyOK, MaxMoves
<1>8. CASE TallyEnd
  <2>1. tally' = [next |-> 0, total |-> 0, present |-> 0, moves |-> 0]
    BY <1>8 DEF TallyEnd, NoTally
  <2>2. QED
    BY <1>1, <2>1 DEF TallyOK, MaxMoves
<1>9. QED
  BY <1>6, <1>7, <1>8

-----------------------------------------------------------------------------
(* Theorems                                                                *)

\* A step that leaves the jobs alone leaves the counts alone too.
LEMMA CallKeepsCounts ==
  ASSUME TallyOK, UNCHANGED <<job, tally>>
  PROVE  TallyOK'
<1>1. \A states : InState(states)' = InState(states)
  BY DEF InState
<1>2. \A n : Left(n)' = Left(n)
  BY <1>1 DEF Left
<1>3. QED
  BY <1>2 DEF TallyOK

\* Every step keeps the invariant.
LEMMA InvPreserved == IInv /\ [Next]_statusVars => IInv'
<1> SUFFICES ASSUME IInv, [Next]_statusVars PROVE IInv'
  OBVIOUS
<1>1. AnswersOK /\ TallyOK
  BY DEF IInv
<1>2. ASSUME NEW j \in Jobs, JobStep(j) PROVE IInv'
  <2>1. PICK b \in Record : Move(j, b) /\ Follows(b, job[j])
    BY <1>1, <1>2, MovesOf
  <2>2. AnswersOK'
    BY <1>1, <2>1, MoveKeepsAnswers
  <2>3. TallyOK'
    <3>1. {j} \in SUBSET Jobs /\ Cardinality({j}) = 1
      BY FS_Singleton
    <3>2. Moved(1) /\ \A i \in Jobs \ {j} : job'[i] = job[i]
      BY <1>1, <2>1 DEF Move, AnswersOK
    <3>3. QED
      BY <3>1, <3>2, MovesKeepCounts
  <2>4. QED
    BY <2>2, <2>3 DEF IInv
<1>3. ASSUME NEW j \in Jobs, Evict(j) PROVE IInv'
  BY <1>3, EvictKeeps
<1>4. ASSUME NEW j \in Jobs, NEW p \in Pollers, GetJob(p, j) PROVE IInv'
  BY <1>1, <1>4, GetJobKeeps, CallKeepsCounts DEF IInv, GetJob
<1>5. ASSUME NEW p \in Pollers, GetState(p) PROVE IInv'
  BY <1>1, <1>5, GetStateKeeps, CallKeepsCounts DEF IInv, GetState
<1>6. ASSUME NEW p \in Pollers, PollFails(p) PROVE IInv'
  BY <1>1, <1>6, PollFailsKeeps, CallKeepsCounts DEF IInv, PollFails
<1>7. ASSUME UNCHANGED <<job, poll, told>> PROVE AnswersOK'
  BY <1>1, <1>7 DEF AnswersOK, JobOK, RecordOK, PollOK
<1>8. CASE TallyStart \/ TallyNext \/ TallyEnd
  BY <1>1, <1>7, <1>8, CountingKeepsCounts DEF IInv, TallyStart, TallyNext, TallyEnd
<1>9. CASE UNCHANGED statusVars
  BY <1>1, <1>7, <1>9, CallKeepsCounts DEF IInv, statusVars
<1>10. ASSUME NEW state \in Pending \cup Final, EvictList(state) PROVE IInv'
  <2>1. AnswersOK'
    BY <1>1, <1>10, EvictListKeepsAnswers
  <2>2. TallyOK'
    <3>1. InState({state}) \in SUBSET Jobs
      BY DEF InState
    <3>2. /\ Moved(Cardinality(InState({state})))
          /\ \A i \in Jobs \ InState({state}) : job'[i] = job[i]
      BY <1>10 DEF EvictList
    <3>3. QED
      BY <3>1, <3>2, MovesKeepCounts
  <2>3. QED
    BY <2>1, <2>2 DEF IInv
<1>11. QED
  BY <1>2, <1>3, <1>4, <1>5, <1>6, <1>8, <1>9, <1>10 DEF Next, JobStep

\* At the start nothing was added, asked or told.
LEMMA InitOK == Init => IInv
<1> SUFFICES ASSUME Init PROVE IInv
  OBVIOUS
<1>1. AnswersOK
  BY DEF Init, AnswersOK, JobOK, RecordOK, PollOK, Record, State, NewJob, NoPoll, Pending, Final
<1>2. MaxMoves \in Nat
  BY InStateFinite DEF MaxMoves
<1>3. TallyOK
  BY <1>2 DEF Init, TallyOK, NoTally
<1>4. QED
  BY <1>1, <1>3 DEF IInv

\* The inductive invariant.
THEOREM InvHolds == Spec => []IInv
BY InitOK, InvPreserved, PTL DEF Spec

\* Whoever asks once more after somebody was told of a job's end is told of the
\* same end with its result or error, or that the job is gone: for any jobs and calls,
\* however the reads of a call and the moves of its job interleave.
THEOREM SecondAnswerIsWholeHolds == Spec => []SecondAnswerIsWhole
<1>1. IInv => SecondAnswerIsWhole
  BY DEF IInv, AnswersOK, PollOK, SecondAnswerIsWhole, Answer, Final
<1>2. QED
  BY InvHolds, <1>1, PTL

\* However many jobs move while the five lists are counted, the sum is off by
\* no more than their moves.
THEOREM TallyOffByMovesHolds == Spec => []TallyOffByMoves
<1>1. IInv => TallyOffByMoves
  BY LeftSplits DEF IInv, TallyOK, TallyOffByMoves
<1>2. QED
  BY InvHolds, <1>1, PTL
=============================================================================
