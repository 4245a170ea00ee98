------------------------------ MODULE OnuProofs -----------------------------
(***************************************************************************)
(* Theorems of the two modules about one ONU, OnuView (what the reads show *)
(* of it) and OnuOrder (in which order its operations take effect).  They  *)
(* share no variable and have no step in common: each specification is     *)
(* proved about on its own.                                                *)
(*                                                                         *)
(* OnuView, for any keys, any bundle of them, any number of reads in       *)
(* progress and of changes: the invariant says of a read that is about to  *)
(* store what it has, and that no invalidation has met, that what it shows *)
(* is not from before the latest one (ReadersShow).                        *)
(*                                                                         *)
(* OnuOrder, for any number of operations, of slots and of mishaps: the    *)
(* operations that have not been begun are in the list of waiting jobs in  *)
(* the order they were accepted in, among others that something has gone   *)
(* wrong with (ListOK); and whatever may not overtake an operation has not *)
(* been begun before that one has ended (LaterFresh).                      *)
(*                                                                         *)
(* Last, what a client may conclude from a job's end (EndIsQuiet).         *)
(***************************************************************************)
EXTENDS OnuView, OnuOrder, SequenceTheorems, TLAPS

-----------------------------------------------------------------------------
(* What the reads show of an ONU                                           *)

\* Invalidations are not ahead of the changes.
FloorsReached == \A k \in Keys : floor[k] <= version

\* What a read is about to store, unless it is late.
ReadersShow ==
  \A r \in Readers :
    reader[r].phase = "store" /\ ~reader[r].late => reader[r].shows >= floor[reader[r].key]

IInv == TypeOK /\ FloorsReached /\ ReadersShow /\ StaleOnlyByRace

\* Readers at rest, and readers that begin, are readers.
LEMMA ReaderTypes ==
  /\ AtRest \in Reader /\ AtRest.phase = "idle"
  /\ \A k \in Keys : Fetching(k) \in Reader /\ Fetching(k).phase = "fetch"
<1>1. ASSUME NEW k \in Keys
      PROVE  Fetching(k) \in Reader /\ Fetching(k).phase = "fetch"
  <2>1. 0 \in Versions
    BY ViewAssumption DEF ViewAssumption, Versions
  <2> QED  BY <2>1 DEF Fetching, Reader
<1> DEFINE k == CHOOSE i \in Keys : TRUE
<1>2. k \in Keys
  BY ViewAssumption DEF ViewAssumption
<1>3. AtRest = [Fetching(k) EXCEPT !.phase = "idle"]
  BY DEF AtRest
<1> HIDE DEF k
<1>4. AtRest \in Reader /\ AtRest.phase = "idle"
  BY <1>1, <1>2, <1>3 DEF Reader
<1> QED  BY <1>1, <1>4

\* Nothing is cached, read or invalidated at the start.
LEMMA InitInv == Init => IInv
<1> SUFFICES ASSUME Init
             PROVE  IInv
  OBVIOUS
<1>1. TypeOK
  BY ReaderTypes, ViewAssumption DEF ViewAssumption, Init, TypeOK, Versions
<1>2. FloorsReached /\ ReadersShow /\ StaleOnlyByRace
  BY ReaderTypes DEF Init, FloorsReached, ReadersShow, StaleOnlyByRace, Nothing
<1> QED  BY <1>1, <1>2 DEF IInv

\* A slot whose read begins or ends without having stored anything.
LEMMA ReaderStep ==
  ASSUME IInv, NEW r \in Readers, NEW q \in Reader, q.phase # "store",
         reader' = [reader EXCEPT ![r] = q], UNCHANGED <<version, entry, floor, raced>>
  PROVE  IInv'
<1>1. reader'[r] = q /\ \A t \in Readers : t # r => reader'[t] = reader[t]
  BY DEF IInv, TypeOK
<1>2. TypeOK'
  BY DEF IInv, TypeOK
<1>3. ReadersShow'
  BY <1>1 DEF IInv, ReadersShow
<1> QED  BY <1>2, <1>3 DEF IInv, FloorsReached, StaleOnlyByRace

\* The upstream shows the changes that it has made until then.
LEMMA FetchStep ==
  ASSUME IInv, NEW r \in Readers, Fetch(r)
  PROVE  IInv'
<1> DEFINE q1 == [reader[r] EXCEPT !.phase = "store"]
           q  == [q1 EXCEPT !.shows = version]
<1>1. reader[r] \in Reader /\ reader \in [Readers -> Reader] /\ version \in Versions
  BY DEF IInv, TypeOK
<1>2. reader' = [reader EXCEPT ![r] = q] /\ UNCHANGED <<version, entry, floor, raced>>
  BY <1>1 DEF Fetch
<1>3. q1 \in Reader /\ q1.phase = "store" /\ q1.key = reader[r].key
  BY <1>1 DEF Reader
<1> HIDE DEF q1
<1>4. q \in Reader /\ q.shows = version /\ q.key \in Keys
  BY <1>1, <1>3 DEF Reader
<1> HIDE DEF q
<1>5. reader'[r] = q /\ \A t \in Readers : t # r => reader'[t] = reader[t]
  BY <1>1, <1>2
<1>6. TypeOK'
  BY <1>2, <1>4 DEF IInv, TypeOK
<1>7. q.shows >= floor[q.key]
  BY <1>1, <1>4 DEF IInv, TypeOK, FloorsReached, Versions
<1>8. ReadersShow'
  BY <1>2, <1>5, <1>7 DEF IInv, ReadersShow
<1> QED  BY <1>2, <1>6, <1>8 DEF IInv, FloorsReached, StaleOnlyByRace

\* A read that no invalidation has met stores what is not older than the
\* latest one; any other is counted as a race.
LEMMA StoreStep ==
  ASSUME IInv, NEW r \in Readers, Store(r)
  PROVE  IInv'
<1> DEFINE k == reader[r].key
           v == reader[r].shows
<1>1. /\ reader[r] \in Reader /\ k \in Keys /\ v \in Versions
      /\ entry \in [Keys -> Versions \cup {Nothing}] /\ reader \in [Readers -> Reader]
  BY DEF IInv, TypeOK, Reader
<1>2. /\ entry' = [entry EXCEPT ![k] = v]
      /\ raced' = IF reader[r].late THEN raced \cup {k} ELSE raced \ {k}
      /\ reader' = [reader EXCEPT ![r] = AtRest]
      /\ UNCHANGED <<version, floor>>
  BY DEF Store
<1>3. ~reader[r].late => v >= floor[k]
  BY DEF IInv, ReadersShow, Store
<1>4. floor[k] \in Int /\ v \in Int
  BY <1>1, ViewAssumption DEF ViewAssumption, IInv, TypeOK, Versions
<1> HIDE DEF k, v
<1>5. entry'[k] = v /\ \A i \in Keys : i # k => entry'[i] = entry[i]
  BY <1>1, <1>2
<1>6. TypeOK'
  BY <1>1, <1>2, ReaderTypes DEF IInv, TypeOK
<1>7. ReadersShow'
  BY <1>1, <1>2, ReaderTypes DEF IInv, ReadersShow
<1>8. StaleOnlyByRace'
  <2> SUFFICES ASSUME NEW i \in Keys, entry'[i] # Nothing, entry'[i] < floor[i]
               PROVE  i \in raced'
    BY <1>2 DEF StaleOnlyByRace
  <2>1. CASE i = k
    BY <1>2, <1>3, <1>4, <1>5, <2>1
  <2>2. CASE i # k
    BY <1>2, <1>5, <2>2 DEF IInv, StaleOnlyByRace
  <2> QED  BY <2>1, <2>2
<1> QED  BY <1>2, <1>6, <1>7, <1>8 DEF IInv, FloorsReached

\* An invalidation raises the floor of the bundle's keys; what it leaves in
\* the cache of them is counted as a race, and so is what a read brings later.
LEMMA InvalidateStep ==
  ASSUME IInv, Invalidate
  PROVE  IInv'
<1>1. PICK lost \in SUBSET DeletedKeys :
        /\ entry' = [k \in Keys |-> IF k \in DeletedKeys \ lost THEN Nothing ELSE entry[k]]
        /\ raced' = (raced \ (DeletedKeys \ lost)) \cup {k \in lost : entry[k] # Nothing}
        /\ floor' = [k \in Keys |-> IF k \in Bundle THEN version ELSE floor[k]]
        /\ reader' = [r \in Readers |->
             IF reader[r].phase # "idle" /\ reader[r].key \in Bundle
             THEN [reader[r] EXCEPT !.late = TRUE] ELSE reader[r]]
        /\ UNCHANGED version
  BY DEF Invalidate
<1>2. lost \subseteq Bundle /\ Bundle \subseteq Keys
  BY ViewAssumption DEF ViewAssumption, DeletedKeys
<1>3. ASSUME NEW r \in Readers
      PROVE  /\ reader'[r] \in Reader
             /\ reader'[r] = reader[r]
                  \/ (reader'[r].late /\ reader[r].key \in Bundle)
             /\ reader[r].phase # "idle" /\ reader[r].key \in Bundle => reader'[r].late
  BY <1>1 DEF IInv, TypeOK, Reader
<1>4. TypeOK'
  <2>1. reader' \in [Readers -> Reader]
    BY <1>1, <1>3
  <2>2. /\ entry' \in [Keys -> Versions \cup {Nothing}] /\ floor' \in [Keys -> Versions]
        /\ raced' \subseteq Keys /\ version' \in Versions
    BY <1>1, <1>2 DEF IInv, TypeOK
  <2> QED  BY <2>1, <2>2 DEF TypeOK
<1>5. FloorsReached'
  BY <1>1, ViewAssumption DEF ViewAssumption, IInv, TypeOK, FloorsReached, Versions
<1>6. ReadersShow'
  <2> SUFFICES ASSUME NEW r \in Readers, reader'[r].phase = "store", ~reader'[r].late
               PROVE  reader'[r].shows >= floor'[reader'[r].key]
    BY DEF ReadersShow
  <2>1. reader'[r] = reader[r] /\ reader[r].key \in Keys
    BY <1>3 DEF IInv, TypeOK, Reader
  <2>2. reader[r].key \notin Bundle
    BY <1>3, <2>1
  <2>3. floor'[reader[r].key] = floor[reader[r].key]
    BY <1>1, <2>1, <2>2
  <2> QED  BY <2>1, <2>3 DEF IInv, ReadersShow
<1>7. StaleOnlyByRace'
  <2> SUFFICES ASSUME NEW k \in Keys, entry'[k] # Nothing, entry'[k] < floor'[k]
               PROVE  k \in raced'
    BY DEF StaleOnlyByRace
  <2>1. k \notin DeletedKeys \ lost /\ entry'[k] = entry[k]
    BY <1>1
  <2>2. CASE k \in Bundle
    BY <1>1, <2>1, <2>2 DEF DeletedKeys
  <2>3. CASE k \notin Bundle
    BY <1>1, <2>1, <2>3 DEF IInv, StaleOnlyByRace
  <2> QED  BY <2>2, <2>3
<1> QED  BY <1>4, <1>5, <1>6, <1>7 DEF IInv

\* Every step keeps the invariant.
LEMMA NextInv == IInv /\ [Next]_viewVars => IInv'
<1> SUFFICES ASSUME IInv, [Next]_viewVars
             PROVE  IInv'
  OBVIOUS
<1>1. ASSUME NEW r \in Readers, NEW k \in Keys, Get(r, k)
      PROVE  IInv'
  BY <1>1, ReaderTypes, ReaderStep DEF Get
<1>2. ASSUME NEW r \in Readers, NotStored(r)
      PROVE  IInv'
  BY <1>2, ReaderTypes, ReaderStep DEF NotStored
<1>3. ASSUME NEW r \in Readers, Fetch(r)
      PROVE  IInv'
  BY <1>3, FetchStep
<1>4. ASSUME NEW r \in Readers, Store(r)
      PROVE  IInv'
  BY <1>4, StoreStep
<1>5. ASSUME NEW k \in Keys, Expire(k)
      PROVE  IInv'
  BY <1>5 DEF Expire, IInv, TypeOK, FloorsReached, ReadersShow, StaleOnlyByRace
<1>6. CASE Change
  <2>1. version' \in Versions /\ version' = version + 1 /\ version \in Int
    BY <1>6, ViewAssumption DEF ViewAssumption, Change, IInv, TypeOK, Versions
  <2>2. FloorsReached'
    BY <1>6, <2>1, ViewAssumption
       DEF ViewAssumption, Change, IInv, TypeOK, FloorsReached, Versions
  <2> QED  BY <1>6, <2>1, <2>2 DEF Change, IInv, TypeOK, ReadersShow, StaleOnlyByRace
<1>7. CASE Invalidate
  BY <1>7, InvalidateStep
<1>8. CASE UNCHANGED viewVars
  BY <1>8 DEF viewVars, IInv, TypeOK, FloorsReached, ReadersShow, StaleOnlyByRace
<1> QED  BY <1>1, <1>2, <1>3, <1>4, <1>5, <1>6, <1>7, <1>8 DEF Next

\* The inductive invariant of the reads of one ONU.
THEOREM ViewInvHolds == Spec => []IInv
BY InitInv, NextInv, PTL DEF Spec

\* Versions, reads and floors stay within their types.
THEOREM ViewTypeCorrect == Spec => []TypeOK
<1>1. IInv => TypeOK
  BY DEF IInv
<1> QED  BY ViewInvHolds, <1>1, PTL

\* Data from before an invalidation of its key is served afterwards only if a
\* DEL of invalidateONUCache() failed or a read was under way meanwhile.
THEOREM StaleOnlyByRaceHolds == Spec => []StaleOnlyByRace
<1>1. IInv => StaleOnlyByRace
  BY DEF IInv
<1> QED  BY ViewInvHolds, <1>1, PTL

-----------------------------------------------------------------------------
(* The order of the operations on an ONU                                   *)

\* Operation j has not been begun, and so nothing has gone wrong with it.
Fresh(j) == job[j].state \in {"unknown", "waiting"} /\ excused[j] = {}

OrderState == {"unknown", "waiting", "active", "delayed", "completed", "failed"}
OrderJob   == [state : OrderState, owner : SUBSET Slots]
OrderRun   == [phase : {"free", "start", "sent", "applied", "pause", "answered"}, job : Jobs]

OrderTypeOK ==
  /\ accepted \in 0..MaxJobs
  /\ wait \in Seq(Jobs)
  /\ job \in [Jobs -> OrderJob]
  /\ run \in [Slots -> OrderRun]
  /\ stray \in SUBSET Jobs
  /\ applied \in SUBSET Jobs
  /\ excused \in [Jobs -> SUBSET Jobs]

\* What is known of one operation.
OperationOK(j) ==
  /\ job[j].state = "unknown" <=> j > accepted
  /\ job[j].state = "unknown" => Fresh(j)
  /\ Fresh(j) => ~Running(j) /\ j \notin applied
  /\ job[j].state = "delayed" => excused[j] = Jobs
  /\ j \in stray => excused[j] = Jobs

FreshOnes == {j \in Jobs : Fresh(j)}
Spoiled   == {j \in Jobs : excused[j] = Jobs}

\* The list w has all those of the first n operations that are fresh, in their
\* order, among others that are spoiled: something has gone wrong with them.
ListFits(w, fresh, spoiled, n) ==
  /\ \A p \in 1..Len(w) : w[p] <= n /\ w[p] \in fresh \cup spoiled
  /\ \A j \in 1..n : j \in fresh => \E p \in 1..Len(w) : w[p] = j
  /\ \A p, q \in 1..Len(w) : p < q /\ w[p] \in fresh /\ w[q] \in fresh => w[p] < w[q]

ListOK == ListFits(wait, FreshOnes, Spoiled, accepted)

\* Until an operation has ended, those accepted later that it does not excuse
\* are not begun.
LaterFresh ==
  \A i, j \in Jobs : i < j /\ (Fresh(i) \/ Running(i)) /\ j \notin excused[i] => Fresh(j)

OrderInv == OrderTypeOK /\ (\A j \in Jobs : OperationOK(j)) /\ ListOK /\ LaterFresh

\* What the list becomes when a job is added at its end, put at its head, or
\* taken from it.
LEMMA ListShapes ==
  ASSUME NEW w \in Seq(Jobs), NEW j \in Jobs
  PROVE  /\ Len(w) \in Nat
         /\ Append(w, j) \in Seq(Jobs) /\ Len(Append(w, j)) = Len(w) + 1
         /\ \A p \in 1..(Len(w) + 1) :
              Append(w, j)[p] = IF p = Len(w) + 1 THEN j ELSE w[p]
         /\ (<<j>> \o w) \in Seq(Jobs) /\ Len(<<j>> \o w) = Len(w) + 1
         /\ \A p \in 1..(Len(w) + 1) :
              (<<j>> \o w)[p] = IF p = 1 THEN j ELSE w[p - 1]
         /\ w # <<>> => /\ Head(w) = w[1] /\ Len(w) >= 1 /\ Tail(w) \in Seq(Jobs)
                        /\ Len(Tail(w)) = Len(w) - 1
                        /\ \A p \in 1..(Len(w) - 1) : Tail(w)[p] = w[p + 1]
<1>1. Len(w) \in Nat
  OBVIOUS
<1>2. /\ Append(w, j) \in Seq(Jobs) /\ Len(Append(w, j)) = Len(w) + 1
      /\ \A p \in 1..(Len(w) + 1) :
              Append(w, j)[p] = IF p = Len(w) + 1 THEN j ELSE w[p]
  OBVIOUS
<1>3. <<j>> \in Seq(Jobs) /\ Len(<<j>>) = 1 /\ <<j>>[1] = j
  OBVIOUS
<1>4. /\ (<<j>> \o w) \in Seq(Jobs) /\ Len(<<j>> \o w) = Len(w) + 1
      /\ \A p \in 1..(Len(w) + 1) :
              (<<j>> \o w)[p] = IF p = 1 THEN j ELSE w[p - 1]
  <2>1. /\ (<<j>> \o w) \in Seq(Jobs) /\ Len(<<j>> \o w) = 1 + Len(w)
        /\ \A i \in 1..(1 + Len(w)) :
             (<<j>> \o w)[i] = IF i <= 1 THEN <<j>>[i] ELSE w[i - 1]
    BY <1>3, ConcatProperties
  <2>2. QED
    BY <1>1, <1>3, <2>1
<1>5. w # <<>> => /\ Head(w) = w[1] /\ Len(w) >= 1 /\ Tail(w) \in Seq(Jobs)
                  /\ Len(Tail(w)) = Len(w) - 1
                  /\ \A p \in 1..(Len(w) - 1) : Tail(w)[p] = w[p + 1]
  BY <1>1, HeadTailProperties, EmptySeq
<1>6. QED
  BY <1>1, <1>2, <1>4, <1>5

\* What a step that begins nothing does to operation j: unless it goes wrong, it
\* stays what it was.
CalmFor(j) ==
  /\ Fresh(j)' <=> Fresh(j)
  /\ Running(j)' => Running(j)
  /\ excused'[j] \in {excused[j], Jobs}
  /\ job'[j].state = "unknown" <=> job[j].state = "unknown"
  /\ job'[j].state = "delayed" => job[j].state = "delayed" \/ excused'[j] = Jobs
  /\ j \in stray' => j \in stray \/ excused'[j] = Jobs
  /\ j \in applied' => j \in applied \/ ~Fresh(j)

\* Such a step keeps the invariant, but for the list.
LEMMA CalmKeeps ==
  ASSUME OrderInv, UNCHANGED accepted, \A j \in Jobs : CalmFor(j)
  PROVE  (\A j \in Jobs : OperationOK(j)') /\ LaterFresh'
<1>1. \A j \in Jobs : OperationOK(j) /\ excused[j] \in SUBSET Jobs
  BY DEF OrderInv, OrderTypeOK
<1>2. ASSUME NEW j \in Jobs PROVE OperationOK(j)'
  <2>1. CalmFor(j) /\ OperationOK(j) /\ excused[j] \in SUBSET Jobs
    BY <1>1
  <2>2. (job'[j].state = "unknown" <=> j > accepted') /\ (job'[j].state = "unknown" => Fresh(j)')
    BY <2>1 DEF CalmFor, OperationOK
  <2>3. Fresh(j)' => ~Running(j)' /\ j \notin applied'
    BY <2>1 DEF CalmFor, OperationOK
  <2>4. (job'[j].state = "delayed" => excused'[j] = Jobs) /\ (j \in stray' => excused'[j] = Jobs)
    BY <2>1 DEF CalmFor, OperationOK
  <2>5. QED
    BY <2>2, <2>3, <2>4 DEF OperationOK
<1>3. ASSUME NEW i \in Jobs, NEW j \in Jobs, i < j, Fresh(i)' \/ Running(i)',
             j \notin excused'[i]
      PROVE  Fresh(j)'
  <2>1. CalmFor(i) /\ CalmFor(j)
    OBVIOUS
  <2>2. excused'[i] = excused[i] /\ (Fresh(i) \/ Running(i))
    BY <1>3, <2>1 DEF CalmFor
  <2>3. Fresh(j)
    BY <1>3, <2>2 DEF OrderInv, LaterFresh
  <2>4. QED
    BY <2>1, <2>3 DEF CalmFor
<1>4. QED
  BY <1>2, <1>3 DEF LaterFresh

\* The list takes a spoiled job, at its end or at its head.
LEMMA ListTakesSpoiled ==
  ASSUME NEW w \in Seq(Jobs), NEW fresh, NEW spoiled, NEW n \in Nat,
         ListFits(w, fresh, spoiled, n),
         NEW j \in Jobs, j <= n, j \notin fresh, NEW more, spoiled \cup {j} \subseteq more
  PROVE  /\ ListFits(Append(w, j), fresh, more, n)
         /\ ListFits(<<j>> \o w, fresh, more, n)
<1>1. Len(w) \in Nat /\ \A p \in 1..Len(w) : w[p] \in Jobs
  BY ListShapes, ElementOfSeq
<1>2. ListFits(Append(w, j), fresh, more, n)
  <2> DEFINE v == Append(w, j)
  <2>1. /\ Len(v) = Len(w) + 1
        /\ \A p \in 1..Len(v) : v[p] = IF p = Len(w) + 1 THEN j ELSE w[p]
    BY ListShapes
  <2> HIDE DEF v
  <2>2. \A p \in 1..Len(v) : v[p] <= n /\ v[p] \in fresh \cup more
    BY <1>1, <2>1 DEF ListFits
  <2>3. \A i \in 1..n : i \in fresh => \E p \in 1..Len(v) : v[p] = i
    BY <1>1, <2>1 DEF ListFits
  <2>4. ASSUME NEW p \in 1..Len(v), NEW q \in 1..Len(v), p < q, v[p] \in fresh, v[q] \in fresh
        PROVE  v[p] < v[q]
    <3>1. v[p] = w[p] /\ v[q] = w[q] /\ p \in 1..Len(w) /\ q \in 1..Len(w)
      BY <1>1, <2>1, <2>4
    <3>2. QED
      BY <2>4, <3>1 DEF ListFits
  <2>5. QED
    BY <2>2, <2>3, <2>4 DEF ListFits, v
<1>3. ListFits(<<j>> \o w, fresh, more, n)
  <2> DEFINE v == <<j>> \o w
  <2>1. /\ Len(v) = Len(w) + 1
        /\ \A p \in 1..Len(v) : v[p] = IF p = 1 THEN j ELSE w[p - 1]
    BY ListShapes
  <2> HIDE DEF v
  <2>2. \A p \in 1..Len(v) : v[p] <= n /\ v[p] \in fresh \cup more
    BY <1>1, <2>1 DEF ListFits
  <2>3. ASSUME NEW i \in 1..n, i \in fresh
        PROVE  \E p \in 1..Len(v) : v[p] = i
    <3>1. PICK p \in 1..Len(w) : w[p] = i
      BY <2>3 DEF ListFits
    <3>2. p + 1 \in 1..Len(v) /\ v[p + 1] = i
      BY <1>1, <2>1, <3>1
    <3>3. QED
      BY <3>2
  <2>4. ASSUME NEW p \in 1..Len(v), NEW q \in 1..Len(v), p < q, v[p] \in fresh, v[q] \in fresh
        PROVE  v[p] < v[q]
    <3>1. /\ v[p] = w[p - 1] /\ v[q] = w[q - 1]
          /\ p - 1 \in 1..Len(w) /\ q - 1 \in 1..Len(w) /\ p - 1 < q - 1
      BY <1>1, <2>1, <2>4
    <3>2. QED
      BY <2>4, <3>1 DEF ListFits
  <2>5. QED
    BY <2>2, <2>3, <2>4 DEF ListFits, v
<1>4. QED
  BY <1>2, <1>3

\* The list takes the operation that is accepted next.
LEMMA ListTakesFresh ==
  ASSUME NEW w \in Seq(Jobs), NEW fresh, NEW spoiled, NEW n \in Nat,
         ListFits(w, fresh, spoiled, n), n + 1 \in Jobs, n + 1 \in fresh
  PROVE  ListFits(Append(w, n + 1), fresh, spoiled, n + 1)
<1> DEFINE v == Append(w, n + 1)
<1>1. /\ Len(w) \in Nat /\ \A p \in 1..Len(w) : w[p] \in Nat
  BY ListShapes, ElementOfSeq, OrderAssumption DEF Jobs
<1>2. /\ Len(v) = Len(w) + 1
      /\ \A p \in 1..Len(v) : v[p] = IF p = Len(w) + 1 THEN n + 1 ELSE w[p]
  BY ListShapes
<1> HIDE DEF v
<1>3. \A p \in 1..Len(v) : v[p] <= n + 1 /\ v[p] \in fresh \cup spoiled
  BY <1>1, <1>2 DEF ListFits
<1>4. ASSUME NEW i \in 1..(n + 1), i \in fresh
      PROVE  \E p \in 1..Len(v) : v[p] = i
  <2>1. CASE i = n + 1
    BY <1>1, <1>2, <2>1
  <2>2. CASE i \in 1..n
    <3>1. PICK p \in 1..Len(w) : w[p] = i
      BY <1>4, <2>2 DEF ListFits
    <3>2. QED
      BY <1>1, <1>2, <3>1
  <2>3. QED
    BY <2>1, <2>2
<1>5. ASSUME NEW p \in 1..Len(v), NEW q \in 1..Len(v), p < q, v[p] \in fresh, v[q] \in fresh
      PROVE  v[p] < v[q]
  <2>1. p \in 1..Len(w) /\ v[p] = w[p] /\ w[p] <= n
    BY <1>1, <1>2, <1>5 DEF ListFits
  <2>2. CASE q = Len(w) + 1
    BY <1>1, <1>2, <2>1, <2>2
  <2>3. CASE q \in 1..Len(w)
    BY <1>1, <1>2, <1>5, <2>1, <2>3 DEF ListFits
  <2>4. QED
    BY <1>1, <1>2, <2>2, <2>3
<1>6. QED
  BY <1>3, <1>4, <1>5 DEF ListFits, v

\* The job at the head comes before every fresh one.
LEMMA ListHead ==
  ASSUME NEW w \in Seq(Jobs), NEW fresh, NEW spoiled, NEW n \in Nat,
         ListFits(w, fresh, spoiled, n), Len(w) >= 1
  PROVE  /\ w[1] <= n /\ w[1] \in fresh \cup spoiled
         /\ w[1] \in fresh => \A i \in 1..n : i \in fresh => w[1] <= i
<1>1. \A p \in 1..Len(w) : w[p] \in Jobs
  BY ElementOfSeq
<1>2. Len(w) \in Nat /\ 1 \in 1..Len(w) /\ \A p \in 1..Len(w) : w[p] \in Nat
  BY <1>1, OrderAssumption DEF Jobs
<1>3. w[1] <= n /\ w[1] \in fresh \cup spoiled
  BY <1>2 DEF ListFits
<1>4. ASSUME w[1] \in fresh, NEW i \in 1..n, i \in fresh
      PROVE  w[1] <= i
  <2>1. PICK p \in 1..Len(w) : w[p] = i
    BY <1>4 DEF ListFits
  <2>2. CASE p = 1
    BY <1>2, <2>1, <2>2
  <2>3. CASE p # 1
    BY <1>2, <1>4, <2>1, <2>3 DEF ListFits
  <2>4. QED
    BY <2>2, <2>3
<1>5. QED
  BY <1>3, <1>4

\* When it is taken, what is left fits the operations without it.
LEMMA ListTail ==
  ASSUME NEW w \in Seq(Jobs), NEW fresh, NEW spoiled, NEW n \in Nat,
         ListFits(w, fresh, spoiled, n), Len(w) >= 1
  PROVE  \A v \in Seq(Jobs) : \A more, rest :
           /\ Len(v) = Len(w) - 1 /\ \A p \in 1..Len(v) : v[p] = w[p + 1]
           /\ \A i : i \in spoiled => i \in more
           /\ \A i : i \in rest <=> i \in fresh /\ i # w[1]
           => ListFits(v, rest, more, n)
<1> SUFFICES ASSUME NEW v \in Seq(Jobs), NEW more, NEW rest,
                    Len(v) = Len(w) - 1, \A p \in 1..Len(v) : v[p] = w[p + 1],
                    \A i : i \in spoiled => i \in more,
                    \A i : i \in rest <=> i \in fresh /\ i # w[1]
             PROVE  ListFits(v, rest, more, n)
  OBVIOUS
<1>1. \A p \in 1..Len(w) : w[p] \in Jobs
  BY ElementOfSeq
<1>2. Len(w) \in Nat /\ 1 \in 1..Len(w) /\ \A p \in 1..Len(w) : w[p] \in Nat
  BY <1>1, OrderAssumption DEF Jobs
<1>3. ASSUME NEW p \in 1..Len(v)
      PROVE  v[p] <= n /\ v[p] \in rest \cup more
  <2>1. v[p] = w[p + 1] /\ p + 1 \in 1..Len(w) /\ 1 < p + 1
    BY <1>2
  <2>2. w[p + 1] <= n /\ w[p + 1] \in fresh \cup spoiled
    BY <2>1 DEF ListFits
  <2>3. w[p + 1] = w[1] /\ w[1] \in fresh => w[1] < w[p + 1]
    BY <1>2, <2>1 DEF ListFits
  <2>4. ~(w[p + 1] = w[1] /\ w[1] \in fresh)
    BY <1>2, <2>1, <2>3
  <2>5. QED
    BY <2>1, <2>2, <2>4
<1>4. ASSUME NEW i \in 1..n, i \in rest
      PROVE  \E p \in 1..Len(v) : v[p] = i
  <2>1. PICK p \in 1..Len(w) : w[p] = i
    BY <1>4 DEF ListFits
  <2>2. p - 1 \in 1..Len(v) /\ v[p - 1] = i
    BY <1>2, <1>4, <2>1
  <2>3. QED
    BY <2>2
<1>5. ASSUME NEW p \in 1..Len(v), NEW q \in 1..Len(v), p < q, v[p] \in rest, v[q] \in rest
      PROVE  v[p] < v[q]
  <2>1. /\ v[p] = w[p + 1] /\ v[q] = w[q + 1]
        /\ p + 1 \in 1..Len(w) /\ q + 1 \in 1..Len(w) /\ p + 1 < q + 1
    BY <1>2, <1>5
  <2>2. QED
    BY <1>5, <2>1 DEF ListFits
<1>6. QED
  BY <1>3, <1>4, <1>5 DEF ListFits

-----------------------------------------------------------------------------

\* A job's record with a new state, or a new state and owner.
LEMMA JobUpdates ==
  ASSUME job \in [Jobs -> OrderJob], NEW j \in Jobs, NEW st \in OrderState
  PROVE  /\ [job EXCEPT ![j].state = st] =
              [job EXCEPT ![j] = [state |-> st, owner |-> job[j].owner]]
         /\ \A ow \in SUBSET Slots :
              [job EXCEPT ![j].state = st, ![j].owner = ow] =
                [job EXCEPT ![j] = [state |-> st, owner |-> ow]]
<1>1. job[j] \in OrderJob
  OBVIOUS
<1>2. [job[j] EXCEPT !.state = st] = [state |-> st, owner |-> job[j].owner]
  BY <1>1 DEF OrderJob
<1>3. [job EXCEPT ![j].state = st] = [job EXCEPT ![j] = [job[j] EXCEPT !.state = st]]
  OBVIOUS
<1>4. PICK k : k = [job EXCEPT ![j].state = st]
  OBVIOUS
<1>5. k[j] = [state |-> st, owner |-> job[j].owner] /\ k = [i \in Jobs |-> k[i]]
      /\ \A i \in Jobs : i # j => k[i] = job[i]
  BY <1>2, <1>3, <1>4
<1>6. ASSUME NEW ow \in SUBSET Slots
      PROVE  [job EXCEPT ![j].state = st, ![j].owner = ow] =
               [job EXCEPT ![j] = [state |-> st, owner |-> ow]]
  <2>1. [job EXCEPT ![j].state = st, ![j].owner = ow] = [k EXCEPT ![j].owner = ow]
    BY <1>4
  <2>2. [k EXCEPT ![j].owner = ow] = [k EXCEPT ![j] = [k[j] EXCEPT !.owner = ow]]
    OBVIOUS
  <2>3. [k[j] EXCEPT !.owner = ow] = [state |-> st, owner |-> ow]
    BY <1>5
  <2>4. [k EXCEPT ![j] = [state |-> st, owner |-> ow]] =
          [job EXCEPT ![j] = [state |-> st, owner |-> ow]]
    BY <1>5
  <2>5. QED
    BY <2>1, <2>2, <2>3, <2>4
<1>7. QED
  BY <1>2, <1>3, <1>6

\* Such a record is one of a job.
LEMMA UpdatesType ==
  ASSUME job \in [Jobs -> OrderJob], NEW j \in Jobs, NEW st \in OrderState
  PROVE  /\ [job EXCEPT ![j].state = st] \in [Jobs -> OrderJob]
         /\ \A ow \in SUBSET Slots :
              [job EXCEPT ![j].state = st, ![j].owner = ow] \in [Jobs -> OrderJob]
<1>1. \A r \in OrderJob : [job EXCEPT ![j] = r] \in [Jobs -> OrderJob]
  OBVIOUS
<1>2. job[j].owner \in SUBSET Slots
  BY DEF OrderJob
<1>3. \A ow \in SUBSET Slots : [state |-> st, owner |-> ow] \in OrderJob
  BY DEF OrderJob
<1>4. [job EXCEPT ![j].state = st] \in [Jobs -> OrderJob]
  <2>1. [job EXCEPT ![j].state = st] =
          [job EXCEPT ![j] = [state |-> st, owner |-> job[j].owner]]
    BY JobUpdates
  <2>2. QED
    BY <1>1, <1>2, <1>3, <2>1, Zenon
<1>5. ASSUME NEW ow \in SUBSET Slots
      PROVE  [job EXCEPT ![j].state = st, ![j].owner = ow] \in [Jobs -> OrderJob]
  <2>1. [job EXCEPT ![j].state = st, ![j].owner = ow] =
          [job EXCEPT ![j] = [state |-> st, owner |-> ow]]
    BY JobUpdates
  <2>2. QED
    BY <1>1, <1>3, <2>1, Zenon
<1>6. QED
  BY <1>4, <1>5

\* A processor that ends leaves its slot free, and its job a job.
LEMMA EndTypes ==
  ASSUME OrderTypeOK, NEW s \in Slots, NEW st \in OrderState, End(s, st)
  PROVE  job' \in [Jobs -> OrderJob] /\ run' \in [Slots -> OrderRun]
<1>1. FreeRun \in OrderRun
  BY OrderAssumption DEF FreeRun, Jobs, OrderRun
<1>2. PICK j \in Jobs : j = run[s].job
  BY DEF OrderTypeOK, OrderRun
<1>3. job' = IF job[j].owner # {s} THEN job
             ELSE [job EXCEPT ![j].state = st, ![j].owner = {}]
  BY <1>2 DEF End
<1>4. [job EXCEPT ![j].state = st, ![j].owner = {}] \in [Jobs -> OrderJob]
  BY UpdatesType DEF OrderTypeOK
<1>5. run' = [run EXCEPT ![s] = FreeRun]
  BY DEF End
<1>6. QED
  BY <1>1, <1>3, <1>4, <1>5 DEF OrderTypeOK

\* Every step keeps the types.
LEMMA OrderTypes == OrderTypeOK /\ [OrderNext]_orderVars => OrderTypeOK'
<1> SUFFICES ASSUME OrderTypeOK, [OrderNext]_orderVars PROVE OrderTypeOK'
  OBVIOUS
<1> USE DEF OrderTypeOK
<1>1. CASE Accept
  <2>1. PICK j \in Jobs : j = accepted + 1
    BY <1>1, OrderAssumption DEF Accept, Jobs
  <2>2. accepted' = j /\ wait' = Append(wait, j) /\ job' = [job EXCEPT ![j].state = "waiting"]
    BY <1>1, <2>1 DEF Accept
  <2>3. wait' \in Seq(Jobs) /\ accepted' \in 0..MaxJobs
    BY <2>2, OrderAssumption DEF Jobs
  <2>4. job' \in [Jobs -> OrderJob]
    BY <2>2, UpdatesType DEF OrderState
  <2>5. QED
    BY <1>1, <2>3, <2>4 DEF Accept
<1>2. ASSUME NEW s \in Slots, Pick(s) PROVE OrderTypeOK'
  <2>1. PICK j \in Jobs : j = Head(wait) /\ wait' \in Seq(Jobs)
    BY <1>2, HeadTailProperties DEF Pick
  <2>2. job' \in [Jobs -> OrderJob]
    <3>1. job' = [job EXCEPT ![j].state = "active", ![j].owner = {s}]
      BY <1>2, <2>1 DEF Pick
    <3>2. "active" \in OrderState /\ {s} \in SUBSET Slots
      BY DEF OrderState
    <3>3. QED
      BY <3>1, <3>2, UpdatesType
  <2>3. run' \in [Slots -> OrderRun]
    BY <1>2, <2>1 DEF Pick, OrderRun
  <2>4. excused' \in [Jobs -> SUBSET Jobs]
    BY <1>2, <2>1 DEF Pick
  <2>5. QED
    BY <1>2, <2>1, <2>2, <2>3, <2>4 DEF Pick
<1>3. ASSUME NEW s \in Slots, Send(s) \/ Answer(s) PROVE OrderTypeOK'
  BY <1>3 DEF Send, Answer, OrderRun
<1>4. ASSUME NEW s \in Slots, Apply(s) PROVE OrderTypeOK'
  BY <1>4 DEF Apply, Effect, OrderRun
<1>5. ASSUME NEW s \in Slots, GiveUp(s)
      PROVE  stray' \in SUBSET Jobs /\ excused' \in [Jobs -> SUBSET Jobs]
  BY <1>5 DEF GiveUp, Mishap, OrderRun
<1>6. ASSUME NEW s \in Slots, Retry(s) PROVE OrderTypeOK'
  BY <1>5, <1>6 DEF Retry, OrderRun
<1>7. ASSUME NEW s \in Slots, Return(s) PROVE OrderTypeOK'
  BY <1>7, EndTypes DEF Return, OrderState
<1>8. ASSUME NEW s \in Slots, Throw(s) PROVE OrderTypeOK'
  BY <1>5, <1>8, EndTypes DEF Throw, OrderState
<1>9. ASSUME NEW s \in Slots, Die(s) PROVE OrderTypeOK'
  BY <1>5, <1>9, OrderAssumption DEF Die, FreeRun, Jobs, OrderRun
<1>10. ASSUME NEW j \in Jobs, Promote(j) PROVE OrderTypeOK'
  <2>1. job' \in [Jobs -> OrderJob]
    BY <1>10, UpdatesType DEF Promote, OrderState
  <2>2. wait' \in Seq(Jobs)
    BY <1>10 DEF Promote
  <2>3. QED
    BY <1>10, <2>1, <2>2 DEF Promote
<1>11. ASSUME NEW j \in Jobs, Stall(j) PROVE OrderTypeOK'
  <2>1. wait' = <<j>> \o wait \/ wait' = wait
    BY <1>11 DEF Stall
  <2>2. (<<j>> \o wait) \in Seq(Jobs)
    BY ListShapes
  <2>3. "waiting" \in OrderState /\ "failed" \in OrderState /\ {} \in SUBSET Slots
    BY DEF OrderState
  <2>4. \/ job' = [job EXCEPT ![j].state = "waiting", ![j].owner = {}]
        \/ job' = [job EXCEPT ![j].state = "failed", ![j].owner = {}]
    BY <1>11 DEF Stall
  <2>5. job' \in [Jobs -> OrderJob]
    <3>1. /\ [job EXCEPT ![j].state = "waiting", ![j].owner = {}] \in [Jobs -> OrderJob]
          /\ [job EXCEPT ![j].state = "failed", ![j].owner = {}] \in [Jobs -> OrderJob]
      BY <2>3, UpdatesType
    <3>2. QED
      BY <2>4, <3>1, Zenon
  <2>6. QED
    BY <1>11, <2>1, <2>2, <2>5 DEF Stall, Mishap
<1>12. ASSUME NEW j \in Jobs, ApplyStray(j) PROVE OrderTypeOK'
  BY <1>12 DEF ApplyStray, Effect
<1>13. CASE UNCHANGED orderVars
  BY <1>13 DEF orderVars
<1>14. QED
  BY <1>1, <1>2, <1>3, <1>4, <1>6, <1>7, <1>8, <1>9, <1>10, <1>11, <1>12, <1>13 DEF OrderNext

\* A step that begins nothing keeps the invariant, if the list stays as it is or
\* takes an operation that something has gone wrong with.
LEMMA CalmStep ==
  ASSUME OrderInv, OrderTypeOK', UNCHANGED accepted, \A j \in Jobs : CalmFor(j),
         \/ UNCHANGED wait
         \/ \E j \in Jobs : /\ job[j].state # "unknown" /\ excused'[j] = Jobs
                            /\ wait' = Append(wait, j) \/ wait' = <<j>> \o wait
  PROVE  OrderInv'
<1>1. /\ wait \in Seq(Jobs) /\ accepted \in Nat /\ Jobs # {}
      /\ ListFits(wait, FreshOnes, Spoiled, accepted)
      /\ \A j \in Jobs : OperationOK(j)
  <2>1. Jobs # {}
    BY OrderAssumption DEF Jobs
  <2>2. QED
    BY <2>1, OrderAssumption DEF OrderInv, OrderTypeOK, ListOK
<1>2. FreshOnes' = FreshOnes
  BY DEF CalmFor, FreshOnes
<1>3. Spoiled \subseteq Spoiled'
  BY DEF CalmFor, Spoiled
<1>4. ListFits(wait', FreshOnes, Spoiled', accepted)
  <2>1. CASE UNCHANGED wait
    BY <1>1, <1>3, <2>1 DEF ListFits
  <2>2. ASSUME NEW j \in Jobs, job[j].state # "unknown", excused'[j] = Jobs,
               wait' = Append(wait, j) \/ wait' = <<j>> \o wait
        PROVE  ListFits(wait', FreshOnes, Spoiled', accepted)
    <3>1. j <= accepted
      BY <1>1, <2>2 DEF OperationOK, Jobs
    <3>2. ~Fresh(j)'
      BY <1>1, <2>2 DEF Fresh
    <3>3. j \notin FreshOnes
      BY <1>2, <3>2 DEF FreshOnes
    <3>4. Spoiled \cup {j} \subseteq Spoiled'
      BY <1>3, <2>2 DEF Spoiled
    <3>5. PICK more : more = Spoiled'
      OBVIOUS
    <3>6. /\ ListFits(Append(wait, j), FreshOnes, more, accepted)
          /\ ListFits(<<j>> \o wait, FreshOnes, more, accepted)
      BY <1>1, <3>1, <3>3, <3>4, <3>5, ListTakesSpoiled
    <3>7. QED
      BY <2>2, <3>5, <3>6
  <2>3. QED
    BY <2>1, <2>2
<1>5. ListOK'
  BY <1>2, <1>4 DEF ListOK
<1>6. (\A j \in Jobs : OperationOK(j)') /\ LaterFresh'
  BY CalmKeeps
<1>7. QED
  BY <1>5, <1>6 DEF OrderInv

\* A write is accepted.
LEMMA AcceptOK ==
  ASSUME OrderInv, OrderTypeOK', Accept
  PROVE  OrderInv'
<1>1. PICK j \in Jobs : j = accepted + 1
  BY OrderAssumption DEF OrderInv, OrderTypeOK, Accept, Jobs
<1>2. /\ accepted' = j /\ wait' = Append(wait, j)
      /\ job' = [job EXCEPT ![j].state = "waiting"]
      /\ UNCHANGED <<run, applied, stray, excused>>
  BY <1>1 DEF Accept
<1>3. job \in [Jobs -> OrderJob] /\ wait \in Seq(Jobs) /\ accepted \in Nat
  BY DEF OrderInv, OrderTypeOK
<1>4. job'[j].state = "waiting" /\ \A i \in Jobs : i # j => job'[i] = job[i]
  BY <1>2, <1>3 DEF OrderJob
<1>5. \A i \in Jobs : OperationOK(i)
  BY DEF OrderInv
<1>6. job[j].state = "unknown" /\ Fresh(j)
  BY <1>1, <1>3, <1>5 DEF OperationOK
<1>7. \A i \in Jobs : Fresh(i)' <=> Fresh(i)
  BY <1>2, <1>4, <1>6 DEF Fresh
<1>8. \A i \in Jobs : Running(i)' <=> Running(i)
  BY <1>2 DEF Running
<1>9. ASSUME NEW i \in Jobs PROVE OperationOK(i)'
  <2>1. job'[i].state = "unknown" <=> i > j
    <3>1. CASE i = j
      BY <1>4, <3>1 DEF Jobs
    <3>2. CASE i # j
      BY <1>1, <1>3, <1>4, <1>5, <3>2 DEF OperationOK, Jobs
    <3>3. QED
      BY <3>1, <3>2
  <2>2. job'[i].state = "unknown" => Fresh(i)'
    BY <1>4, <1>5, <1>7 DEF OperationOK
  <2>3. Fresh(i)' => ~Running(i)' /\ i \notin applied'
    BY <1>2, <1>5, <1>7, <1>8 DEF OperationOK
  <2>4. (job'[i].state = "delayed" => excused'[i] = Jobs) /\ (i \in stray' => excused'[i] = Jobs)
    BY <1>2, <1>4, <1>5 DEF OperationOK
  <2>5. QED
    BY <1>2, <2>1, <2>2, <2>3, <2>4 DEF OperationOK
<1>10. ListOK'
  <2>1. FreshOnes' = FreshOnes /\ Spoiled' = Spoiled /\ j \in FreshOnes
    BY <1>2, <1>6, <1>7 DEF FreshOnes, Spoiled
  <2>2. ListFits(Append(wait, j), FreshOnes, Spoiled, j)
    BY <1>1, <1>3, <2>1, ListTakesFresh DEF OrderInv, ListOK
  <2>3. QED
    BY <1>2, <2>1, <2>2 DEF ListOK
<1>11. LaterFresh'
  BY <1>2, <1>7, <1>8 DEF OrderInv, LaterFresh
<1>12. QED
  BY <1>9, <1>10, <1>11 DEF OrderInv

\* A slot takes the first job of the list.  If it is fresh, all those before it
\* have been begun; if not, it excuses everything.
LEMMA PickOK ==
  ASSUME OrderInv, OrderTypeOK', NEW s \in Slots, Pick(s)
  PROVE  OrderInv'
<1>1. /\ job \in [Jobs -> OrderJob] /\ run \in [Slots -> OrderRun] /\ wait \in Seq(Jobs)
      /\ accepted \in Nat /\ excused \in [Jobs -> SUBSET Jobs] /\ Jobs # {} /\ Jobs \subseteq Nat
      /\ ListFits(wait, FreshOnes, Spoiled, accepted) /\ wait # <<>>
      /\ \A i \in Jobs : OperationOK(i)
  BY OrderAssumption DEF OrderInv, OrderTypeOK, ListOK, Pick, Jobs
<1>2. PICK j \in Jobs : j = Head(wait)
  BY <1>1, HeadTailProperties
<1>3. /\ wait' = Tail(wait) /\ UNCHANGED <<accepted, stray, applied>>
      /\ job' = [job EXCEPT ![j].state = "active", ![j].owner = {s}]
      /\ run[s].phase = "free"
      /\ run' = [run EXCEPT ![s] = [phase |-> "start", job |-> j]]
      /\ excused' = [i \in Jobs |-> IF Running(i) THEN excused[i] \cup {j} ELSE excused[i]]
  BY <1>2 DEF Pick
<1>4. job'[j].state = "active" /\ \A i \in Jobs : i # j => job'[i] = job[i]
  <2>1. job' = [job EXCEPT ![j] = [state |-> "active", owner |-> {s}]]
    <3>1. "active" \in OrderState /\ {s} \in SUBSET Slots
      BY DEF OrderState
    <3>2. [job EXCEPT ![j].state = "active", ![j].owner = {s}] =
            [job EXCEPT ![j] = [state |-> "active", owner |-> {s}]]
      BY <1>1, <3>1, JobUpdates
    <3>3. QED
      BY <1>3, <3>2
  <2>2. QED
    BY <1>1, <2>1
<1>5. \A i \in Jobs : Running(i)' <=> Running(i) \/ i = j
  BY <1>1, <1>3 DEF Running
<1>6. \A i \in Jobs : Fresh(i)' <=> Fresh(i) /\ i # j
  <2>1. \A i \in Jobs : Fresh(i) => excused'[i] = excused[i]
    BY <1>1, <1>3 DEF OperationOK
  <2>2. \A i \in Jobs : excused[i] \subseteq excused'[i]
    BY <1>3
  <2>3. QED
    BY <1>4, <2>1, <2>2 DEF Fresh
<1>7. \A i \in Jobs : excused[i] = Jobs => excused'[i] = Jobs
  BY <1>1, <1>3
<1>8. Len(wait) >= 1 /\ j = wait[1]
  BY <1>1, <1>2, ListShapes
<1>9. /\ j <= accepted /\ j \in FreshOnes \cup Spoiled
      /\ j \in FreshOnes => \A i \in 1..accepted : i \in FreshOnes => j <= i
  BY <1>1, <1>8, ListHead
<1>10. PICK v, rest, more : v = wait' /\ rest = FreshOnes \ {j} /\ more = Spoiled'
  OBVIOUS
<1>11. ListFits(v, rest, more, accepted)
  <2>1. /\ v \in Seq(Jobs) /\ Len(v) = Len(wait) - 1
        /\ \A p \in 1..Len(v) : v[p] = wait[p + 1]
    BY <1>1, <1>3, <1>10, ListShapes
  <2>2. /\ \A i : i \in Spoiled => i \in more
        /\ \A i : i \in rest <=> i \in FreshOnes /\ i # wait[1]
    BY <1>7, <1>8, <1>10 DEF Spoiled
  <2>3. QED
    BY <1>1, <1>8, <2>1, <2>2, ListTail
<1>12. /\ j <= accepted /\ (Fresh(j) \/ excused[j] = Jobs)
       /\ Fresh(j) => \A i \in 1..accepted : i \in FreshOnes => j <= i
  BY <1>9 DEF FreshOnes, Spoiled
<1>13. ASSUME NEW i \in Jobs PROVE OperationOK(i)'
  <2>1. OperationOK(i)
    BY <1>1
  <2>2. job'[i].state = "unknown" <=> i > accepted
    BY <1>1, <1>4, <1>12, <2>1 DEF OperationOK
  <2>3. job'[i].state = "unknown" => Fresh(i)'
    BY <1>4, <1>6, <2>1 DEF OperationOK
  <2>4. Fresh(i)' => ~Running(i)' /\ i \notin applied'
    BY <1>3, <1>5, <1>6, <2>1 DEF OperationOK
  <2>5. (job'[i].state = "delayed" => excused'[i] = Jobs) /\ (i \in stray' => excused'[i] = Jobs)
    BY <1>3, <1>4, <1>7, <2>1 DEF OperationOK
  <2>6. QED
    BY <1>3, <2>2, <2>3, <2>4, <2>5 DEF OperationOK
<1>14. ListOK'
  <2>1. FreshOnes' = FreshOnes \ {j}
    BY <1>6 DEF FreshOnes
  <2>2. ListFits(wait', FreshOnes', Spoiled', accepted')
    BY <1>3, <1>10, <1>11, <2>1
  <2>3. QED
    BY <2>2 DEF ListOK
<1>15. ASSUME NEW i \in Jobs, NEW k \in Jobs, i < k, Fresh(i)' \/ Running(i)', k \notin excused'[i]
       PROVE  Fresh(k)'
  <2>1. k \notin excused[i] /\ (Running(i) => k # j)
    BY <1>3, <1>15
  <2>2. CASE i = j
    <3>1. Fresh(j)
      BY <1>12, <2>1, <2>2
    <3>2. Fresh(k)
      BY <1>15, <2>1, <2>2, <3>1 DEF OrderInv, LaterFresh
    <3>3. QED
      BY <1>1, <1>6, <1>15, <2>2, <3>2
  <2>3. CASE i # j
    <3>1. Fresh(i) \/ Running(i)
      BY <1>5, <1>6, <1>15, <2>3
    <3>2. Fresh(k)
      BY <1>15, <2>1, <3>1 DEF OrderInv, LaterFresh
    <3>3. k # j
      <4>1. CASE Running(i)
        BY <2>1, <4>1
      <4>2. CASE Fresh(i) /\ k = j
        <5>1. i \in 1..accepted /\ i \in FreshOnes
          BY <1>1, <1>12, <1>15, <4>2 DEF Jobs, FreshOnes
        <5>2. j <= i
          BY <1>12, <3>2, <4>2, <5>1
        <5>3. QED
          BY <1>1, <1>15, <4>2, <5>2
      <4>3. QED
        BY <3>1, <4>1, <4>2
    <3>4. QED
      BY <1>6, <3>2, <3>3
  <2>4. QED
    BY <2>2, <2>3
<1>16. QED
  BY <1>13, <1>14, <1>15 DEF OrderInv, LaterFresh

\* A processor runs a job that is known and no longer fresh.
LEMMA RunnerOK ==
  ASSUME OrderInv, NEW s \in Slots, run[s].phase # "free"
  PROVE  /\ run[s].job \in Jobs /\ ~Fresh(run[s].job) /\ Running(run[s].job)
         /\ job[run[s].job].state # "unknown"
<1>1. PICK k \in Jobs : k = run[s].job
  BY DEF OrderInv, OrderTypeOK, OrderRun
<1>2. Running(k) /\ OperationOK(k)
  BY <1>1 DEF Running, OrderInv
<1>3. QED
  BY <1>1, <1>2 DEF OperationOK

\* A slot whose processor goes on or ends runs nothing new.
LEMMA NothingNew ==
  ASSUME OrderInv, NEW s \in Slots, run[s].phase # "free",
         \/ run' = [run EXCEPT ![s] = FreeRun]
         \/ \E phase : run' = [run EXCEPT ![s].phase = phase]
  PROVE  \A j \in Jobs : Running(j)' => Running(j)
<1>1. run \in [Slots -> OrderRun]
  BY DEF OrderInv, OrderTypeOK
<1>2. \A t \in Slots : t # s => run'[t] = run[t]
  BY <1>1
<1>3. run'[s].phase = "free" \/ run'[s].job = run[s].job
  BY <1>1 DEF FreeRun, OrderRun
<1>4. QED
  BY <1>2, <1>3 DEF Running

\* A step that something goes wrong in, with operation k, and in no other.
LEMMA Disturbed ==
  ASSUME OrderInv, NEW k \in Jobs, ~Fresh(k),
         excused' = [excused EXCEPT ![k] = Jobs],
         job'[k].state # "unknown", \A j \in Jobs : j # k => job'[j] = job[j],
         stray' \subseteq stray \cup {k}, UNCHANGED applied,
         \A j \in Jobs : Running(j)' => Running(j)
  PROVE  (\A j \in Jobs : CalmFor(j)) /\ excused'[k] = Jobs
<1>1. /\ excused \in [Jobs -> SUBSET Jobs] /\ Jobs # {} /\ job[k].state # "unknown"
      /\ excused'[k] = Jobs /\ \A j \in Jobs : j # k => excused'[j] = excused[j]
  BY OrderAssumption DEF OrderInv, OrderTypeOK, OperationOK, Jobs
<1>2. CalmFor(k)
  BY <1>1 DEF CalmFor, Fresh
<1>3. ASSUME NEW j \in Jobs, j # k PROVE CalmFor(j)
  BY <1>1, <1>3 DEF CalmFor, Fresh
<1>4. QED
  BY <1>1, <1>2, <1>3

\* A step that nothing goes wrong in: operation k goes on, ends, or is waiting
\* again after it went wrong, and may have its effect.
LEMMA Undisturbed ==
  ASSUME OrderInv, NEW k \in Jobs, ~Fresh(k), UNCHANGED excused,
         \/ job'[k] = job[k]
         \/ job'[k].state = "completed"
         \/ job'[k].state = "waiting" /\ excused[k] = Jobs,
         \A j \in Jobs : j # k => job'[j] = job[j],
         stray' \subseteq stray, applied' \subseteq applied \cup {k},
         \A j \in Jobs : Running(j)' => Running(j)
  PROVE  \A j \in Jobs : CalmFor(j)
<1>1. Jobs # {} /\ job[k].state # "unknown" /\ (job[k].state = "delayed" => excused[k] = Jobs)
  BY OrderAssumption DEF OrderInv, OperationOK, Jobs
<1>2. CalmFor(k)
  BY <1>1 DEF CalmFor, Fresh
<1>3. ASSUME NEW j \in Jobs, j # k PROVE CalmFor(j)
  BY <1>1, <1>3 DEF CalmFor, Fresh
<1>4. QED
  BY <1>2, <1>3

\* A processor that ends touches no job but its own.
LEMMA EndsOwn ==
  ASSUME OrderInv, NEW s \in Slots, NEW st \in OrderState, End(s, st)
  PROVE  /\ run' = [run EXCEPT ![s] = FreeRun]
         /\ job'[run[s].job] = job[run[s].job] \/ job'[run[s].job].state = st
         /\ \A j \in Jobs : j # run[s].job => job'[j] = job[j]
<1>1. job \in [Jobs -> OrderJob] /\ run \in [Slots -> OrderRun]
  BY DEF OrderInv, OrderTypeOK
<1>2. PICK k \in Jobs : k = run[s].job
  BY <1>1 DEF OrderRun
<1>3. job' = IF job[k].owner # {s} THEN job
             ELSE [job EXCEPT ![k].state = st, ![k].owner = {}]
  BY <1>2 DEF End
<1>4. {} \in SUBSET Slots
  OBVIOUS
<1>5. [job EXCEPT ![k].state = st, ![k].owner = {}] =
        [job EXCEPT ![k] = [state |-> st, owner |-> {}]]
  BY <1>1, <1>4, JobUpdates
<1>6. job' = job \/ job' = [job EXCEPT ![k] = [state |-> st, owner |-> {}]]
  BY <1>3, <1>5
<1>7. (job'[k] = job[k] \/ job'[k].state = st) /\ \A j \in Jobs : j # k => job'[j] = job[j]
  BY <1>1, <1>6
<1>8. QED
  BY <1>2, <1>7 DEF End

\* A processor that goes on without a fault, or returns.
LEMMA QuietStep ==
  ASSUME OrderInv, OrderTypeOK', NEW s \in Slots,
         Send(s) \/ Apply(s) \/ Answer(s) \/ Return(s)
  PROVE  OrderInv'
<1>1. run[s].phase # "free"
  BY DEF Send, Apply, Answer, Return
<1>2. PICK k \in Jobs : k = run[s].job /\ ~Fresh(k)
  BY <1>1, RunnerOK
<1>3. "completed" \in OrderState
  BY DEF OrderState
<1>4. /\ job'[k] = job[k] \/ job'[k].state = "completed"
      /\ \A j \in Jobs : j # k => job'[j] = job[j]
  BY <1>2, <1>3, EndsOwn DEF Send, Apply, Answer, Return
<1>5. \A j \in Jobs : Running(j)' => Running(j)
  <2>1. \/ run' = [run EXCEPT ![s] = FreeRun]
        \/ \E phase : run' = [run EXCEPT ![s].phase = phase]
    BY DEF Send, Apply, Answer, Return, End
  <2>2. QED
    BY <1>1, <2>1, NothingNew
<1>6. /\ UNCHANGED <<accepted, wait, stray, excused>>
      /\ applied' \subseteq applied \cup {k}
  BY <1>2 DEF Send, Apply, Answer, Return, Effect
<1>7. \A j \in Jobs : CalmFor(j)
  BY <1>2, <1>4, <1>5, <1>6, Undisturbed
<1>8. QED
  BY <1>6, <1>7, CalmStep

\* A processor whose request fails, that throws, or that dies.
LEMMA FaultStep ==
  ASSUME OrderInv, OrderTypeOK', NEW s \in Slots, Retry(s) \/ Throw(s) \/ Die(s)
  PROVE  OrderInv'
<1>1. run[s].phase # "free" /\ GiveUp(s)
  BY DEF Retry, Throw, Die
<1>2. PICK k \in Jobs : k = run[s].job /\ ~Fresh(k) /\ job[k].state # "unknown"
  BY <1>1, RunnerOK
<1>3. job'[k].state # "unknown" /\ \A j \in Jobs : j # k => job'[j] = job[j]
  <2>1. CASE Retry(s) \/ Die(s)
    BY <1>2, <2>1 DEF Retry, Die
  <2>2. CASE Throw(s)
    <3>1. PICK st \in {"delayed", "failed"} : End(s, st)
      BY <2>2 DEF Throw
    <3>2. st \in OrderState /\ st # "unknown"
      BY DEF OrderState
    <3>3. QED
      BY <1>2, <3>1, <3>2, EndsOwn
  <2>3. QED
    BY <2>1, <2>2
<1>4. \A j \in Jobs : Running(j)' => Running(j)
  <2>1. \/ run' = [run EXCEPT ![s] = FreeRun]
        \/ \E phase : run' = [run EXCEPT ![s].phase = phase]
    BY DEF Retry, Throw, Die, End
  <2>2. QED
    BY <1>1, <2>1, NothingNew
<1>5. /\ UNCHANGED <<accepted, wait, applied>> /\ stray' \subseteq stray \cup {k}
      /\ excused' = [excused EXCEPT ![k] = Jobs]
  BY <1>1, <1>2 DEF Retry, Throw, Die, GiveUp, Mishap
<1>6. \A j \in Jobs : CalmFor(j)
  BY <1>2, <1>3, <1>4, <1>5, Disturbed
<1>7. QED
  BY <1>5, <1>6, CalmStep

\* The backoff of a job ends, or its lock.
LEMMA QueueStep ==
  ASSUME OrderInv, OrderTypeOK', NEW k \in Jobs, Promote(k) \/ Stall(k)
  PROVE  OrderInv'
<1>1. job \in [Jobs -> OrderJob] /\ OperationOK(k) /\ Jobs # {}
  BY OrderAssumption DEF OrderInv, OrderTypeOK, Jobs
<1>2. \A j \in Jobs : Running(j)' => Running(j)
  BY DEF Promote, Stall, Running
<1>3. /\ "waiting" \in OrderState /\ "failed" \in OrderState /\ {} \in SUBSET Slots
  BY DEF OrderState
<1>4. CASE Promote(k)
  <2>1. /\ wait' = Append(wait, k) /\ UNCHANGED <<accepted, stray, applied, excused>>
        /\ job[k].state = "delayed" /\ excused'[k] = Jobs /\ excused[k] = Jobs /\ ~Fresh(k)
    BY <1>1, <1>4 DEF Promote, OperationOK, Fresh
  <2>2. job' = [job EXCEPT ![k] = [state |-> "waiting", owner |-> job[k].owner]]
    BY <1>1, <1>3, <1>4, JobUpdates DEF Promote
  <2>3. job'[k].state = "waiting" /\ \A j \in Jobs : j # k => job'[j] = job[j]
    BY <1>1, <2>2
  <2>4. \A j \in Jobs : CalmFor(j)
    BY <1>2, <2>1, <2>3, Undisturbed
  <2>5. QED
    BY <2>1, <2>4, CalmStep
<1>5. CASE Stall(k)
  <2>1. /\ UNCHANGED <<accepted, stray, applied>> /\ job[k].state = "active" /\ ~Fresh(k)
        /\ excused' = [excused EXCEPT ![k] = Jobs]
        /\ wait' = wait \/ wait' = <<k>> \o wait
    BY <1>5 DEF Stall, Mishap, Fresh
  <2>2. \/ job' = [job EXCEPT ![k].state = "waiting", ![k].owner = {}]
        \/ job' = [job EXCEPT ![k].state = "failed", ![k].owner = {}]
    BY <1>5 DEF Stall
  <2>3. /\ [job EXCEPT ![k].state = "waiting", ![k].owner = {}] =
             [job EXCEPT ![k] = [state |-> "waiting", owner |-> {}]]
        /\ [job EXCEPT ![k].state = "failed", ![k].owner = {}] =
             [job EXCEPT ![k] = [state |-> "failed", owner |-> {}]]
    BY <1>1, <1>3, JobUpdates
  <2>4. \E st \in {"waiting", "failed"} :
          job' = [job EXCEPT ![k] = [state |-> st, owner |-> {}]]
    BY <2>2, <2>3
  <2>5. job'[k].state # "unknown" /\ \A j \in Jobs : j # k => job'[j] = job[j]
    BY <1>1, <2>4
  <2>6. (\A j \in Jobs : CalmFor(j)) /\ excused'[k] = Jobs
    BY <1>2, <2>1, <2>5, Disturbed
  <2>7. job[k].state # "unknown"
    BY <2>1
  <2>8. QED
    BY <2>1, <2>6, <2>7, CalmStep
<1>6. QED
  BY <1>4, <1>5

\* A request that was given up is carried out.
LEMMA StrayStep ==
  ASSUME OrderInv, OrderTypeOK', NEW k \in Jobs, ApplyStray(k)
  PROVE  OrderInv'
<1>1. OperationOK(k) /\ Jobs # {}
  BY OrderAssumption DEF OrderInv, Jobs
<1>2. /\ UNCHANGED <<accepted, wait, job, run, excused>> /\ ~Fresh(k)
      /\ stray' \subseteq stray /\ applied' \subseteq applied \cup {k}
  BY <1>1 DEF ApplyStray, Effect, OperationOK, Fresh
<1>3. \A j \in Jobs : Running(j)' => Running(j)
  BY <1>2 DEF Running
<1>4. \A j \in Jobs : CalmFor(j)
  BY <1>2, <1>3, Undisturbed
<1>5. QED
  BY <1>2, <1>4, CalmStep

\* Every step keeps the invariant.
LEMMA OrderKeeps == OrderInv /\ [OrderNext]_orderVars => OrderInv'
<1> SUFFICES ASSUME OrderInv, [OrderNext]_orderVars PROVE OrderInv'
  OBVIOUS
<1>1. OrderTypeOK'
  BY OrderTypes DEF OrderInv
<1>2. CASE Accept
  BY <1>1, <1>2, AcceptOK
<1>3. ASSUME NEW s \in Slots, Pick(s) PROVE OrderInv'
  BY <1>1, <1>3, PickOK
<1>4. ASSUME NEW s \in Slots, Send(s) \/ Apply(s) \/ Answer(s) \/ Return(s) PROVE OrderInv'
  BY <1>1, <1>4, QuietStep
<1>5. ASSUME NEW s \in Slots, Retry(s) \/ Throw(s) \/ Die(s) PROVE OrderInv'
  BY <1>1, <1>5, FaultStep
<1>6. ASSUME NEW j \in Jobs, Promote(j) \/ Stall(j) PROVE OrderInv'
  BY <1>1, <1>6, QueueStep
<1>7. ASSUME NEW j \in Jobs, ApplyStray(j) PROVE OrderInv'
  BY <1>1, <1>7, StrayStep
<1>8. CASE UNCHANGED orderVars
  <2>1. UNCHANGED <<accepted, wait, job, run, stray, applied, excused>>
    BY <1>8 DEF orderVars
  <2>2. \A j \in Jobs : CalmFor(j)
    BY <2>1 DEF CalmFor, Fresh, Running
  <2>3. QED
    BY <1>1, <2>1, <2>2, CalmStep
<1>9. QED
  BY <1>2, <1>3, <1>4, <1>5, <1>6, <1>7, <1>8 DEF OrderNext

\* It holds before the first operation.
LEMMA OrderStarts == OrderInit => OrderInv
<1> SUFFICES ASSUME OrderInit PROVE OrderInv
  OBVIOUS
<1> USE DEF OrderInit
<1>1. OrderTypeOK
  BY OrderAssumption DEF OrderTypeOK, OrderState, OrderJob, OrderRun, FreeRun, Jobs
<1>2. \A j \in Jobs : Fresh(j) /\ ~Running(j)
  BY DEF Fresh, Running, FreeRun
<1>3. \A j \in Jobs : OperationOK(j)
  BY <1>2, OrderAssumption DEF OperationOK, Fresh, Jobs
<1>4. ListOK
  BY OrderAssumption DEF ListOK, ListFits
<1>5. LaterFresh
  BY <1>2 DEF LaterFresh
<1>6. QED
  BY <1>1, <1>3, <1>4, <1>5 DEF OrderInv

\* The fresh operations are in the list in the order they were accepted in, and
\* those that could overtake one that is not done are excused or not begun.
THEOREM OrderInvHolds == OrderSpec => []OrderInv
  BY OrderStarts, OrderKeeps, PTL DEF OrderSpec

\* An operation takes effect after a later one only if the later one was begun
\* beside it, or something went wrong with it.
THEOREM InOrderUnlessExcusedHolds == OrderSpec => InOrderUnlessExcused
<1>1. ASSUME OrderInv, NEW i \in Jobs,
             ApplyStray(i) \/ (\E s \in Slots : Apply(s) /\ run[s].job = i)
      PROVE  {j \in applied : j > i} \subseteq excused[i]
  <2>1. applied \subseteq Jobs /\ \A j \in Jobs : OperationOK(j)
    BY <1>1 DEF OrderInv, OrderTypeOK
  <2>2. CASE ApplyStray(i)
    <3>1. i \in stray /\ OperationOK(i)
      BY <2>1, <2>2 DEF ApplyStray
    <3>2. excused[i] = Jobs
      BY <3>1 DEF OperationOK
    <3>3. QED
      BY <2>1, <3>2
  <2>3. ASSUME NEW s \in Slots, Apply(s), run[s].job = i, NEW j \in applied, j > i
        PROVE  j \in excused[i]
    <3>1. Running(i)
      BY <2>3 DEF Apply, Running
    <3>2. j \in Jobs /\ ~Fresh(j) /\ i < j
      BY <2>1, <2>3 DEF OperationOK, Jobs
    <3>3. QED
      BY <1>1, <2>3, <3>1, <3>2 DEF OrderInv, LaterFresh
  <2>4. CASE \E s \in Slots : Apply(s) /\ run[s].job = i
    BY <2>3, <2>4
  <2>5. QED
    BY <1>1, <2>2, <2>4
<1>2. OrderInv => [\A i \in Jobs :
         ApplyStray(i) \/ (\E s \in Slots : Apply(s) /\ run[s].job = i)
           => {j \in applied : j > i} \subseteq excused[i]]_orderVars
  BY <1>1
<1>3. QED
  BY <1>2, OrderInvHolds, PTL DEF InOrderUnlessExcused

-----------------------------------------------------------------------------
(* After the end of a job                                                  *)

\* Operation i excuses itself when something has gone wrong with it, and then
\* all others.  Until then the one slot that runs it has its lock.
LockOK(i) ==
  /\ i \in excused[i] => excused[i] = Jobs
  /\ i \notin excused[i] =>
       \A s \in Slots : run[s].phase # "free" /\ run[s].job = i =>
         job[i].state = "active" /\ job[i].owner = {s}

LockInv == OrderInv /\ \A i \in Jobs : LockOK(i)

\* A job that something has gone wrong with is as it should be, and so is one
\* that a step leaves alone.
LEMMA LockKept ==
  ASSUME OrderTypeOK, NEW i \in Jobs, LockOK(i),
         \/ excused'[i] = Jobs
         \/ /\ UNCHANGED <<run, job[i]>> \/ ~Running(i)'
            /\ excused'[i] = excused[i]
  PROVE  LockOK(i)'
<1>1. CASE excused'[i] = Jobs
  BY <1>1 DEF LockOK
<1>2. CASE UNCHANGED <<run, job[i]>> /\ excused'[i] = excused[i]
  BY <1>2 DEF LockOK
<1>3. CASE ~Running(i)' /\ excused'[i] = excused[i]
  BY <1>3 DEF LockOK, Running
<1>4. QED
  BY <1>1, <1>2, <1>3

\* A slot whose processor goes on, or ends, while job i stays as it is.
LEMMA LockSlotKept ==
  ASSUME OrderTypeOK, NEW i \in Jobs, LockOK(i), NEW s \in Slots, run[s].phase # "free",
         \/ run' = [run EXCEPT ![s] = FreeRun]
         \/ \E phase : run' = [run EXCEPT ![s].phase = phase],
         UNCHANGED <<job[i], excused[i]>>
  PROVE  LockOK(i)'
<1>1. \A t \in Slots : t # s => run'[t] = run[t]
  BY DEF OrderTypeOK
<1>2. run'[s].phase = "free" \/ run'[s].job = run[s].job
  BY DEF OrderTypeOK, FreeRun, OrderRun
<1>3. QED
  BY <1>1, <1>2 DEF LockOK

\* A slot takes a job: a fresh one, which then runs in this slot only, or one
\* that something has gone wrong with.
LEMMA LockPick ==
  ASSUME OrderInv, OrderInv', NEW i \in Jobs, LockOK(i), NEW s \in Slots, Pick(s)
  PROVE  LockOK(i)'
<1>1. /\ job \in [Jobs -> OrderJob] /\ run \in [Slots -> OrderRun] /\ wait \in Seq(Jobs)
      /\ excused \in [Jobs -> SUBSET Jobs] /\ accepted \in Nat /\ wait # <<>>
      /\ ListFits(wait, FreshOnes, Spoiled, accepted)
      /\ \A j \in Jobs : OperationOK(j)
  BY OrderAssumption DEF OrderInv, OrderTypeOK, ListOK, Pick
<1>2. PICK j \in Jobs : j = Head(wait)
  BY <1>1, HeadTailProperties
<1>3. /\ job' = [job EXCEPT ![j].state = "active", ![j].owner = {s}]
      /\ run[s].phase = "free"
      /\ run' = [run EXCEPT ![s] = [phase |-> "start", job |-> j]]
      /\ excused' = [k \in Jobs |-> IF Running(k) THEN excused[k] \cup {j} ELSE excused[k]]
  BY <1>2 DEF Pick
<1>4. job' = [job EXCEPT ![j] = [state |-> "active", owner |-> {s}]]
  <2>1. "active" \in OrderState /\ {s} \in SUBSET Slots
    BY DEF OrderState
  <2>2. [job EXCEPT ![j].state = "active", ![j].owner = {s}] =
          [job EXCEPT ![j] = [state |-> "active", owner |-> {s}]]
    BY <1>1, <2>1, JobUpdates
  <2>3. QED
    BY <1>3, <2>2
<1>5. Fresh(j) \/ excused[j] = Jobs
  <2>1. Len(wait) >= 1 /\ j = wait[1]
    BY <1>1, <1>2, ListShapes
  <2>2. j \in FreshOnes \cup Spoiled
    BY <1>1, <2>1, ListHead
  <2>3. QED
    BY <2>2 DEF FreshOnes, Spoiled
<1>6. CASE i = j
  <2>1. CASE excused[j] = Jobs
    <3>1. excused'[i] = Jobs
      BY <1>1, <1>3, <1>6, <2>1
    <3>2. QED
      BY <3>1 DEF LockOK
  <2>2. CASE Fresh(j)
    <3>1. ~Running(j) /\ excused'[j] = {}
      BY <1>1, <1>3, <2>2 DEF OperationOK, Fresh
    <3>2. \A t \in Slots : run'[t].phase # "free" /\ run'[t].job = j => t = s
      BY <1>1, <1>3, <3>1 DEF Running
    <3>3. job'[j].state = "active" /\ job'[j].owner = {s}
      BY <1>1, <1>4
    <3>4. QED
      BY <1>6, <3>1, <3>2, <3>3 DEF LockOK
  <2>3. QED
    BY <1>5, <2>1, <2>2
<1>7. CASE i # j
  <2>1. job'[i] = job[i]
    BY <1>1, <1>4, <1>7
  <2>2. \A t \in Slots : run'[t].phase # "free" /\ run'[t].job = i => run'[t] = run[t]
    BY <1>1, <1>3, <1>7
  <2>3. excused'[i] \in {excused[i], excused[i] \cup {j}}
    BY <1>3
  <2>4. i \in excused'[i] => i \in excused[i]
    BY <1>7, <2>3
  <2>5. i \in excused'[i] => excused'[i] = Jobs
    <3>1. Jobs \cup {j} = Jobs
      OBVIOUS
    <3>2. i \in excused'[i] => excused[i] = Jobs
      BY <2>4 DEF LockOK
    <3>3. QED
      BY <2>3, <3>1, <3>2
  <2>6. i \notin excused'[i] => i \notin excused[i]
    BY <2>3
  <2>7. ASSUME i \notin excused'[i], NEW t \in Slots, run'[t].phase # "free", run'[t].job = i
        PROVE  job'[i].state = "active" /\ job'[i].owner = {t}
    <3>1. run[t].phase # "free" /\ run[t].job = i /\ i \notin excused[i]
      BY <2>2, <2>6, <2>7
    <3>2. QED
      BY <2>1, <3>1 DEF LockOK
  <2>8. QED
    BY <2>5, <2>7 DEF LockOK
<1>8. QED
  BY <1>6, <1>7

\* Every step keeps the lock.
LEMMA LockKeeps == LockInv /\ [OrderNext]_orderVars => LockInv'
<1> SUFFICES ASSUME LockInv, [OrderNext]_orderVars PROVE LockInv'
  OBVIOUS
<1>1. OrderInv /\ OrderInv' /\ OrderTypeOK
  BY OrderKeeps DEF LockInv, OrderInv
<1>2. ASSUME NEW i \in Jobs PROVE LockOK(i)'
  <2>1. /\ LockOK(i) /\ OperationOK(i)
        /\ excused \in [Jobs -> SUBSET Jobs] /\ job \in [Jobs -> OrderJob]
    <3>1. LockOK(i)
      BY DEF LockInv
    <3>2. QED
      BY <1>1, <3>1 DEF OrderInv, OrderTypeOK
  <2>2. CASE Accept
    <3>1. PICK j \in Jobs : j = accepted + 1
      BY <1>1, <2>2, OrderAssumption DEF OrderTypeOK, Accept, Jobs
    <3>2. job' = [job EXCEPT ![j].state = "waiting"] /\ UNCHANGED <<run, excused>>
      BY <2>2, <3>1 DEF Accept
    <3>3. CASE i = j
      <4>1. i > accepted
        BY <1>1, <3>1, <3>3 DEF OrderTypeOK
      <4>2. ~Running(i)
        BY <2>1, <4>1 DEF OperationOK
      <4>3. ~Running(i)'
        BY <3>2, <4>2 DEF Running
      <4>4. QED
        BY <1>1, <2>1, <3>2, <4>3, LockKept
    <3>4. CASE i # j
      <4>1. job'[i] = job[i]
        BY <2>1, <3>2, <3>4
      <4>2. QED
        BY <1>1, <2>1, <3>2, <4>1, LockKept
    <3>5. QED
      BY <3>3, <3>4
  <2>3. ASSUME NEW s \in Slots, Pick(s) PROVE LockOK(i)'
    BY <1>1, <2>1, <2>3, LockPick
  <2>4. ASSUME NEW s \in Slots, Send(s) \/ Apply(s) \/ Answer(s) PROVE LockOK(i)'
    <3>1. /\ run[s].phase # "free" /\ UNCHANGED <<job, excused>>
          /\ \E phase : run' = [run EXCEPT ![s].phase = phase]
      BY <2>4 DEF Send, Apply, Answer
    <3>2. QED
      BY <1>1, <2>1, <3>1, LockSlotKept
  <2>5. ASSUME NEW s \in Slots, Return(s) PROVE LockOK(i)'
    <3>1. /\ run[s].phase # "free" /\ UNCHANGED excused
          /\ run' = [run EXCEPT ![s] = FreeRun] /\ End(s, "completed")
      BY <2>5 DEF Return, End
    <3>2. CASE run[s].job = i /\ job[i].owner = {s}
      <4>1. i \notin excused[i] => ~Running(i)'
        BY <1>1, <2>1, <3>1, <3>2 DEF OrderTypeOK, FreeRun, LockOK, Running
      <4>2. QED
        BY <2>1, <3>1, <4>1 DEF LockOK, Running
    <3>3. CASE ~(run[s].job = i /\ job[i].owner = {s})
      <4>1. job'[i] = job[i]
        <5>1. "completed" \in OrderState
          BY DEF OrderState
        <5>2. CASE run[s].job # i
          BY <1>1, <3>1, <5>1, <5>2, EndsOwn
        <5>3. CASE run[s].job = i
          BY <3>1, <3>3, <5>3 DEF End
        <5>4. QED
          BY <5>2, <5>3
      <4>2. QED
        BY <1>1, <2>1, <3>1, <4>1, LockSlotKept
    <3>4. QED
      BY <3>2, <3>3
  <2>6. ASSUME NEW s \in Slots, Retry(s) \/ Throw(s) \/ Die(s) PROVE LockOK(i)'
    <3>1. /\ run[s].phase # "free" /\ GiveUp(s)
          /\ \/ run' = [run EXCEPT ![s] = FreeRun]
             \/ \E phase : run' = [run EXCEPT ![s].phase = phase]
      BY <2>6 DEF Retry, Throw, Die, End
    <3>2. PICK k \in Jobs : k = run[s].job
      BY <1>1, <3>1, RunnerOK
    <3>3. excused' = [excused EXCEPT ![k] = Jobs]
      BY <3>1, <3>2 DEF GiveUp, Mishap
    <3>4. CASE i = k
      BY <1>1, <2>1, <3>3, <3>4, LockKept
    <3>5. CASE i # k
      <4>1. job'[i] = job[i]
        <5>1. CASE Retry(s) \/ Die(s)
          BY <5>1 DEF Retry, Die
        <5>2. CASE Throw(s)
          <6>1. PICK st \in {"delayed", "failed"} : End(s, st)
            BY <5>2 DEF Throw
          <6>2. st \in OrderState
            BY DEF OrderState
          <6>3. QED
            BY <1>1, <3>2, <3>5, <6>1, <6>2, EndsOwn
        <5>3. QED
          BY <2>6, <5>1, <5>2
      <4>2. excused'[i] = excused[i]
        BY <2>1, <3>3, <3>5
      <4>3. QED
        BY <1>1, <2>1, <3>1, <4>1, <4>2, LockSlotKept
    <3>6. QED
      BY <3>4, <3>5
  <2>7. ASSUME NEW k \in Jobs, Promote(k) \/ Stall(k) PROVE LockOK(i)'
    <3>1. UNCHANGED run /\ \A j \in Jobs : j # k => job'[j] = job[j]
      BY <2>1, <2>7 DEF Promote, Stall
    <3>2. \/ UNCHANGED excused /\ excused[k] = Jobs
          \/ excused' = [excused EXCEPT ![k] = Jobs]
      BY <1>1, <2>7 DEF Promote, Stall, Mishap, OrderInv, OperationOK
    <3>3. CASE i = k
      <4>1. excused'[i] = Jobs
        BY <2>1, <3>2, <3>3
      <4>2. QED
        BY <1>1, <2>1, <4>1, LockKept
    <3>4. CASE i # k
      <4>1. excused'[i] = excused[i] /\ job'[i] = job[i]
        BY <2>1, <3>1, <3>2, <3>4
      <4>2. QED
        BY <1>1, <2>1, <3>1, <4>1, LockKept
    <3>5. QED
      BY <3>3, <3>4
  <2>8. ASSUME NEW k \in Jobs, ApplyStray(k) PROVE LockOK(i)'
    BY <1>1, <2>1, <2>8, LockKept DEF ApplyStray
  <2>9. CASE UNCHANGED orderVars
    BY <1>1, <2>1, <2>9, LockKept DEF orderVars
  <2>10. QED
    BY <2>2, <2>3, <2>4, <2>5, <2>6, <2>7, <2>8, <2>9 DEF OrderNext
<1>3. QED
  BY <1>1, <1>2 DEF LockInv

\* When the job of an operation has completed and nothing has gone wrong with it
\* (it does not excuse itself), the operation has no effect any more: whoever
\* sees that end may go on.
EndIsQuiet ==
  [][\A i \in Jobs :
       ApplyStray(i) \/ (\E s \in Slots : Apply(s) /\ run[s].job = i)
         => job[i].state # "completed" \/ i \in excused[i]]_orderVars

\* It is so for any number of operations, slots and mishaps.
THEOREM EndIsQuietHolds == OrderSpec => EndIsQuiet
<1>1. OrderInit => LockInv
  <2>1. OrderInit => \A i \in Jobs : LockOK(i)
    BY DEF OrderInit, LockOK, FreeRun
  <2>2. QED
    BY <2>1, OrderStarts DEF LockInv
<1>2. ASSUME LockInv, NEW i \in Jobs,
             ApplyStray(i) \/ (\E s \in Slots : Apply(s) /\ run[s].job = i)
      PROVE  job[i].state # "completed" \/ i \in excused[i]
  <2>1. LockOK(i) /\ OperationOK(i)
    BY <1>2 DEF LockInv, OrderInv
  <2>2. CASE ApplyStray(i)
    <3>1. excused[i] = Jobs
      BY <2>1, <2>2 DEF ApplyStray, OperationOK
    <3>2. QED
      BY <3>1
  <2>3. ASSUME NEW s \in Slots, Apply(s), run[s].job = i
        PROVE  job[i].state # "completed" \/ i \in excused[i]
    BY <2>1, <2>3 DEF Apply, LockOK
  <2>4. CASE \E s \in Slots : Apply(s) /\ run[s].job = i
    BY <2>3, <2>4
  <2>5. QED
    BY <1>2, <2>2, <2>4
<1>3. LockInv => [\A i \in Jobs :
         ApplyStray(i) \/ (\E s \in Slots : Apply(s) /\ run[s].job = i)
           => job[i].state # "completed" \/ i \in excused[i]]_orderVars
  BY <1>2
<1>4. QED
  BY <1>1, <1>3, LockKeeps, PTL DEF OrderSpec, EndIsQuiet
=============================================================================
