-------------------------- MODULE RequestGateProofs --------------------------
(***************************************************************************)
(* Theorems of RequestGate, for every set of tenants, of request slots and *)
(* of routes, and every limit.                                             *)
(*                                                                         *)
(* The inductive invariant is IInv.  RequestsOK says what a request in     *)
(* progress has seen of Postgres and Redis so far, which is what an answer *)
(* is held against, and that the limiter's hook finds request.user set to  *)
(* whom the request is from; WatchedCovered, that the limiter has counted  *)
(* no more for the watched key than have been sent, less those that wait.  *)
(***************************************************************************)
EXTENDS RequestGate, FiniteSetTheorems, TLAPS

InProgress == {"auth", "limit", "handle"}

\* What is known of a request q while the services are as u says.
RequestOK(q, u) ==
  q.phase \in InProgress =>
    /\ \A s \in Service : IF u[s] THEN s \in q.met ELSE s \in q.missed
    /\ \A s \in Service : q.checked[s] = "ok" => s \in q.met
    /\ q.phase = "handle" => "redis" \in q.met
    /\ q.phase = "limit" => q.user = q.caller

RequestsOK == \A r \in Slots : RequestOK(req[r], up)

WatchedCovered ==
  again \/ sent = RateLimitMax + 1 \/ counter[Watched] + Cardinality(Waiting) <= sent

IInv == TypeOK /\ RequestsOK /\ WatchedCovered

\* Waiting, of the requests rq.
Awaiting(rq) ==
  {r \in Slots : rq[r].phase \in {"auth", "limit"} /\ Origin(rq[r]) = Watched}

-----------------------------------------------------------------------------
(* Lemmas about the operators                                              *)

\* Every error has an answer of the gateway's.
LEMMA HandlerTypes ==
  /\ GlobalErrorHandler(Unauthorized) = Reply(401, "UNAUTHORIZED")
  /\ GlobalErrorHandler(Invalid) = Reply(422, "VALIDATION_ERROR")
  /\ GlobalErrorHandler(Unexpected) = Reply(500, "INTERNAL_ERROR")
  /\ GlobalErrorHandler(RateLimitExceeded) = Reply(500, "INTERNAL_ERROR")
  /\ \A status \in UpstreamStatus :
       GlobalErrorHandler(UpstreamError(status)) = Reply(status, "SMARTOLT_ERROR")
BY SMT DEF GlobalErrorHandler, Unauthorized, Invalid, Unexpected, RateLimitExceeded,
           UpstreamError, UpstreamStatus, Thrown, Reply

\* A request that is over is a request, and nothing is known of it.
LEMMA AnsweredOK ==
  ASSUME NEW phase \in {"done", "over"}, NEW status \in Status, NEW code \in Code
  PROVE  /\ Answered(phase, Reply(status, code)) \in Req
         /\ Answered(phase, Reply(status, code)).phase = phase
         /\ Answered(phase, Reply(status, code)).reply = Reply(status, code)
<1>1. (CHOOSE p \in Routes : TRUE) \in Routes
  BY GateAssumption
<1>2. QED
  BY <1>1, SMT DEF Answered, Reply, Req, Phase

\* A new request is in progress; it has met what is up and missed what is not.
LEMMA NewReqOK ==
  ASSUME NEW route \in Routes, NEW caller \in Tenants \cup {Anonymous},
         route \in Public => caller = Anonymous
  PROVE  /\ NewReq(route, caller) \in Req
         /\ NewReq(route, caller).phase \in {"auth", "limit"}
         /\ NewReq(route, caller).route = route /\ NewReq(route, caller).caller = caller
         /\ RequestOK(NewReq(route, caller), up)
<1>1. route \notin Protected => caller = Anonymous
  BY GateAssumption
<1>2. QED
  BY <1>1, SMT DEF NewReq, Req, Phase, Success, Reply, Status, Code, RequestOK, Protected

\* The key of a request is one of the limiter's keys.
LEMMA KeyTypes ==
  ASSUME NEW q \in Req
  PROVE  Key(q) \in Keys
BY SMT DEF Key, Keys, Req

\* So is the watched one.
LEMMA WatchedIsKey == Watched \in Keys
BY GateAssumption DEF Watched, Keys

\* Counts are capped.
LEMMA OneMoreType ==
  ASSUME NEW n \in 0..(RateLimitMax + 1)
  PROVE  /\ OneMore(n) \in 0..(RateLimitMax + 1)
         /\ OneMore(n) <= n + 1
BY GateAssumption, SMT DEF OneMore

-----------------------------------------------------------------------------
(* The counters                                                            *)

CountersOK ==
  /\ counter \in [Keys -> 0..(RateLimitMax + 1)]
  /\ sent \in 0..(RateLimitMax + 1)
  /\ again \in BOOLEAN
  /\ WatchedCovered

\* The requests that wait are finitely many.
LEMMA AwaitingFinite ==
  ASSUME NEW rq
  PROVE  IsFiniteSet(Awaiting(rq)) /\ Cardinality(Awaiting(rq)) \in Nat
<1>1. Awaiting(rq) \in SUBSET Slots
  BY DEF Awaiting
<1>2. IsFiniteSet(Awaiting(rq))
  BY <1>1, GateAssumption, FS_Subset DEF GateAssumption
<1>3. QED
  BY <1>2, FS_CardinalityType

\* Waiting is Awaiting of the requests there are.
LEMMA WaitingIs == Waiting = Awaiting(req) /\ Waiting' = Awaiting(req')
BY DEF Waiting, Awaiting

\* If fewer wait and nothing is counted, the watched key is as covered as before.
LEMMA QuietCount ==
  ASSUME CountersOK, UNCHANGED <<counter, sent, again>>,
         Awaiting(req') \in SUBSET Awaiting(req)
  PROVE  CountersOK'
<1> DEFINE v == Cardinality(Awaiting(req))
           w == Cardinality(Awaiting(req'))
<1>1. w <= v /\ v \in Nat /\ w \in Nat
  BY AwaitingFinite, FS_Subset
<1>2. again \/ sent = RateLimitMax + 1 \/ counter[Watched] + v <= sent
  BY WaitingIs DEF CountersOK, WatchedCovered
<1>3. counter[Watched] \in Int /\ sent \in Int
  BY GateAssumption, WatchedIsKey DEF CountersOK
<1> HIDE DEF v, w
<1>4. again \/ sent = RateLimitMax + 1 \/ counter[Watched] + w <= sent
  BY <1>1, <1>2, <1>3
<1>5. again' \/ sent' = RateLimitMax + 1 \/ counter'[Watched] + Cardinality(Waiting') <= sent'
  BY <1>4, WaitingIs DEF w
<1>6. WatchedCovered'
  BY <1>5 DEF WatchedCovered, Watched
<1>7. QED
  BY <1>6 DEF CountersOK

\* The counters keep their type when a request is counted; only its own key's
\* changes, by one at most.
LEMMA CountedType ==
  ASSUME CountersOK, NEW q \in Req, Counted(q)
  PROVE  /\ counter' \in [Keys -> 0..(RateLimitMax + 1)]
         /\ Key(q) # Watched => counter'[Watched] = counter[Watched]
         /\ counter'[Watched] <= counter[Watched] + 1
<1>1. Key(q) \in Keys /\ Watched \in Keys
  BY KeyTypes, WatchedIsKey
<1>2. /\ OneMore(counter[Key(q)]) \in 0..(RateLimitMax + 1)
      /\ OneMore(counter[Key(q)]) <= counter[Key(q)] + 1
  BY <1>1, OneMoreType DEF CountersOK
<1>3. counter' = [counter EXCEPT ![Key(q)] = OneMore(counter[Key(q)])]
  BY DEF Counted
<1>4. counter' \in [Keys -> 0..(RateLimitMax + 1)]
  BY <1>1, <1>2, <1>3 DEF CountersOK
<1>5. counter'[Watched] = IF Watched = Key(q) THEN OneMore(counter[Key(q)])
                                              ELSE counter[Watched]
  BY <1>1, <1>3 DEF CountersOK
<1>6. counter[Watched] \in Nat
  BY <1>1, GateAssumption DEF CountersOK
<1>7. QED
  BY <1>2, <1>4, <1>5, <1>6

\* A request that is counted under its own key waits no more.
LEMMA CountedOK ==
  ASSUME CountersOK, NEW r \in Slots, req[r] \in Req, req[r].phase = "limit",
         Key(req[r]) = Origin(req[r]), Counted(req[r]), UNCHANGED <<sent, again>>,
         Awaiting(req') \in SUBSET (Awaiting(req) \ {r})
  PROVE  CountersOK'
<1> DEFINE v == Cardinality(Awaiting(req))
           u == Cardinality(Awaiting(req) \ {r})
           w == Cardinality(Awaiting(req'))
           c == counter[Watched]
           d == counter'[Watched]
<1>1. v \in Nat /\ w \in Nat
  BY AwaitingFinite
<1>2. w <= u
  <2>1. IsFiniteSet(Awaiting(req) \ {r})
    BY AwaitingFinite, FS_Difference
  <2>2. QED
    BY <2>1, FS_Subset
<1>3. again \/ sent = RateLimitMax + 1 \/ c + v <= sent
  BY WaitingIs DEF CountersOK, WatchedCovered
<1>4. c \in Nat /\ d \in Nat /\ sent \in Nat
  BY CountedType, GateAssumption, WatchedIsKey DEF CountersOK
<1>5. d + w <= c + v
  <2>1. CASE Key(req[r]) = Watched
    <3>1. r \in Awaiting(req)
      BY <2>1 DEF Awaiting
    <3>2. u = v - 1
      BY <3>1, AwaitingFinite, FS_RemoveElement
    <3>3. d <= c + 1
      BY CountedType
    <3> HIDE DEF v, u, w, c, d
    <3>4. QED
      BY <1>1, <1>2, <1>4, <3>2, <3>3
  <2>2. CASE Key(req[r]) # Watched
    <3>1. d = c
      BY <2>2, CountedType
    <3>2. w <= v
      BY AwaitingFinite, FS_Subset
    <3> HIDE DEF v, u, w, c, d
    <3>3. QED
      BY <1>1, <1>4, <3>1, <3>2
  <2>3. QED
    BY <2>1, <2>2
<1>6. again \/ sent = RateLimitMax + 1 \/ d + w <= sent
  <2> HIDE DEF v, u, w, c, d
  <2>1. QED
    BY <1>1, <1>3, <1>4, <1>5
<1>7. WatchedCovered'
  <2>1. again' \/ sent' = RateLimitMax + 1 \/ counter'[Watched] + Cardinality(Waiting') <= sent'
    BY <1>6, WaitingIs
  <2>2. QED
    BY <2>1 DEF WatchedCovered, Watched
<1>8. QED
  BY <1>7, CountedType DEF CountersOK

\* A request that is counted and sent again is an excuse for its key only.
LEMMA RepeatOK ==
  ASSUME CountersOK, NEW r \in Slots, req[r] \in Req, LimitRepeats(r)
  PROVE  CountersOK'
<1>1. /\ Counted(req[r]) /\ UNCHANGED <<req, sent>>
      /\ again' = (again \/ Key(req[r]) = Watched)
  BY DEF LimitRepeats
<1>2. again' \in BOOLEAN
  BY <1>1 DEF CountersOK
<1>3. WatchedCovered'
  <2>1. CASE Key(req[r]) = Watched
    BY <1>1, <2>1 DEF WatchedCovered
  <2>2. CASE Key(req[r]) # Watched
    <3>1. counter'[Watched] = counter[Watched]
      BY <1>1, <2>2, CountedType
    <3>2. again \/ sent = RateLimitMax + 1 \/ counter[Watched] + Cardinality(Waiting) <= sent
      BY DEF CountersOK, WatchedCovered
    <3>3. Waiting' = Waiting
      BY <1>1, WaitingIs
    <3>4. QED
      BY <1>1, <3>1, <3>2, <3>3 DEF WatchedCovered, Watched
  <2>3. QED
    BY <2>1, <2>2
<1>4. QED
  BY <1>1, <1>2, <1>3, CountedType DEF CountersOK

\* When the window of the watched key ends, those that wait are its first.
LEMMA WindowEndsOK ==
  ASSUME CountersOK, NEW k \in Keys, WindowEnds(k)
  PROVE  CountersOK'
<1>1. 0 \in 0..(RateLimitMax + 1) /\ RateLimitMax \in Nat
  BY GateAssumption
<1>2. counter' = [counter EXCEPT ![k] = 0] /\ req' = req
  BY DEF WindowEnds
<1>3. Waiting' = Waiting /\ Cardinality(Waiting) \in Nat
  BY <1>2, WaitingIs, AwaitingFinite
<1>4. CASE k = Watched
  <2>1. counter'[Watched] = 0
    BY <1>2, <1>4 DEF CountersOK
  <2>2. sent' = (IF Cardinality(Waiting) <= RateLimitMax
                 THEN Cardinality(Waiting) ELSE RateLimitMax + 1) /\ again' = FALSE
    BY <1>4 DEF WindowEnds
  <2>3. sent' \in 0..(RateLimitMax + 1)
    BY <1>1, <1>3, <2>2
  <2>4. sent' = RateLimitMax + 1 \/ counter'[Watched] + Cardinality(Waiting') <= sent'
    BY <1>3, <2>1, <2>2
  <2>5. WatchedCovered'
    BY <2>4 DEF WatchedCovered, Watched
  <2>6. QED
    BY <1>1, <1>2, <2>2, <2>3, <2>5 DEF CountersOK
<1>5. CASE k # Watched
  <2>1. counter'[Watched] = counter[Watched] /\ UNCHANGED <<sent, again>>
    BY <1>2, <1>5, WatchedIsKey DEF CountersOK, WindowEnds
  <2>2. again \/ sent = RateLimitMax + 1 \/ counter[Watched] + Cardinality(Waiting) <= sent
    BY DEF CountersOK, WatchedCovered
  <2>3. WatchedCovered'
    BY <1>3, <2>1, <2>2 DEF WatchedCovered, Watched
  <2>4. QED
    BY <1>1, <1>2, <2>1, <2>3 DEF CountersOK
<1>6. QED
  BY <1>4, <1>5

-----------------------------------------------------------------------------
(* The requests                                                            *)

RequestsTyped == up \in [Service -> BOOLEAN] /\ req \in [Slots -> Req] /\ RequestsOK

\* One request moves on, and the services are as they were.
OneMoves(r, q) ==
  /\ UNCHANGED up
  /\ req' = [req EXCEPT ![r] = q]
  /\ q \in Req /\ RequestOK(q, up)

\* The other requests know what they knew.
LEMMA OneMovesOK ==
  ASSUME RequestsTyped, NEW r \in Slots, NEW q, OneMoves(r, q)
  PROVE  RequestsTyped'
BY DEF RequestsTyped, RequestsOK, OneMoves

\* An answer ends a request.
LEMMA AnswerOK ==
  ASSUME NEW r \in Slots, NEW phase \in {"done", "over"},
         NEW status \in Status, NEW code \in Code,
         Answer(r, phase, Reply(status, code)), UNCHANGED up
  PROVE  OneMoves(r, Answered(phase, Reply(status, code)))
<1>1. /\ Answered(phase, Reply(status, code)) \in Req
      /\ Answered(phase, Reply(status, code)).phase \notin InProgress
  BY AnsweredOK DEF InProgress
<1>2. RequestOK(Answered(phase, Reply(status, code)), up)
  BY <1>1 DEF RequestOK
<1>3. QED
  BY <1>1, <1>2 DEF OneMoves, Answer

\* What a step makes of the request in slot r.
Becomes(r) == \E q \in Req : OneMoves(r, q)

\* A request is counted by a limiter that reaches Redis.
LEMMA GotoOK ==
  ASSUME RequestsTyped, NEW r \in Slots, req[r].phase \in {"auth", "limit"}, UNCHANGED up,
         Goto(r, "handle"), up["redis"]
  PROVE  Becomes(r)
<1> DEFINE q == [req[r] EXCEPT !.phase = "handle"]
<1>1. req[r] \in Req /\ RequestOK(req[r], up)
  BY DEF RequestsTyped, RequestsOK
<1>2. q \in Req
  BY <1>1 DEF Req, Phase
<1>3. /\ q.phase = "handle" /\ q.checked = req[r].checked
      /\ q.met = req[r].met /\ q.missed = req[r].missed
  BY <1>1 DEF Req
<1>4. RequestOK(q, up)
  BY <1>1, <1>3 DEF RequestOK, InProgress, Service
<1>5. req' = [req EXCEPT ![r] = q]
  BY DEF Goto
<1>6. QED
  BY <1>2, <1>4, <1>5 DEF Becomes, OneMoves

\* The services' state changes: who is in progress takes note.
LEMMA SwitchOK ==
  ASSUME RequestsTyped, NEW s \in Service, Switch(s)
  PROVE  RequestsTyped'
<1>1. up' = [up EXCEPT ![s] = ~up[s]] /\ up' \in [Service -> BOOLEAN]
  BY DEF Switch, RequestsTyped
<1>2. \A x \in Service : x # s => up'[x] = up[x]
  BY <1>1 DEF RequestsTyped
<1>3. ASSUME NEW r \in Slots
      PROVE  req'[r] \in Req /\ RequestOK(req'[r], up')
  <2>1. req[r] \in Req /\ RequestOK(req[r], up)
    BY DEF RequestsTyped, RequestsOK
  <2>2. CASE req[r].phase \in {"done", "over"}
    <3>1. req'[r] = req[r]
      BY <2>2 DEF Switch
    <3>2. QED
      BY <2>1, <2>2, <3>1 DEF RequestOK, InProgress
  <2>3. CASE req[r].phase \notin {"done", "over"} /\ up'[s]
    <3>1. req'[r] = [req[r] EXCEPT !.met = req[r].met \cup {s}]
      BY <2>3 DEF Switch
    <3>2. /\ req'[r] \in Req /\ req'[r].met = req[r].met \cup {s}
          /\ req'[r].phase = req[r].phase /\ req'[r].checked = req[r].checked
          /\ req'[r].missed = req[r].missed
          /\ req'[r].user = req[r].user /\ req'[r].caller = req[r].caller
      BY <2>1, <3>1 DEF Req
    <3>3. QED
      BY <1>2, <2>1, <2>3, <3>2 DEF RequestOK
  <2>4. CASE req[r].phase \notin {"done", "over"} /\ ~up'[s]
    <3>1. req'[r] = [req[r] EXCEPT !.missed = req[r].missed \cup {s}]
      BY <2>4 DEF Switch
    <3>2. /\ req'[r] \in Req /\ req'[r].missed = req[r].missed \cup {s}
          /\ req'[r].phase = req[r].phase /\ req'[r].checked = req[r].checked
          /\ req'[r].met = req[r].met
          /\ req'[r].user = req[r].user /\ req'[r].caller = req[r].caller
      BY <2>1, <3>1 DEF Req
    <3>3. QED
      BY <1>2, <2>1, <2>4, <3>2 DEF RequestOK
  <2>5. QED
    BY <2>2, <2>3, <2>4
<1>4. req' = [r \in Slots |-> req'[r]]
  BY DEF Switch
<1>5. QED
  BY <1>1, <1>3, <1>4 DEF RequestsTyped, RequestsOK

-----------------------------------------------------------------------------
(* The steps                                                               *)

\* A request arrives.
LEMMA ArriveOK ==
  ASSUME RequestsTyped, CountersOK, NEW r \in Slots, NEW route \in Routes,
         NEW caller \in Tenants \cup {Anonymous}, Arrive(r, route, caller)
  PROVE  OneMoves(r, NewReq(route, caller)) /\ CountersOK'
<1> DEFINE q == NewReq(route, caller)
           v == Cardinality(Awaiting(req))
           w == Cardinality(Awaiting(req'))
<1>1. /\ route \in Public => caller = Anonymous
      /\ req' = [req EXCEPT ![r] = q]
      /\ sent' = IF <<caller, route>> = Watched THEN OneMore(sent) ELSE sent
      /\ UNCHANGED <<up, counter, again>>
  BY DEF Arrive
<1>2. /\ q \in Req /\ RequestOK(q, up) /\ q.route = route /\ q.caller = caller
  BY <1>1, NewReqOK
<1> HIDE DEF q
<1>3. req'[r] = q /\ \A x \in Slots : x # r => req'[x] = req[x]
  BY <1>1 DEF RequestsTyped
<1>4. CASE <<caller, route>> # Watched
  <2>1. r \notin Awaiting(req')
    BY <1>2, <1>3, <1>4 DEF Awaiting, Origin
  <2>2. Awaiting(req') \in SUBSET Awaiting(req)
    BY <1>3, <2>1 DEF Awaiting
  <2>3. CountersOK'
    BY <1>1, <1>4, <2>2, QuietCount
  <2>4. QED
    BY <1>1, <1>2, <2>3 DEF OneMoves, q
<1>5. CASE <<caller, route>> = Watched
  <2>1. Awaiting(req') \in SUBSET (Awaiting(req) \cup {r})
    BY <1>3 DEF Awaiting
  <2>2. /\ IsFiniteSet(Awaiting(req) \cup {r})
        /\ Cardinality(Awaiting(req) \cup {r}) <= v + 1
    BY AwaitingFinite, FS_AddElement
  <2>3. w <= Cardinality(Awaiting(req) \cup {r})
    BY <2>1, <2>2, FS_Subset
  <2>4. v \in Nat /\ w \in Nat /\ Cardinality(Awaiting(req) \cup {r}) \in Nat
    BY <2>2, AwaitingFinite, FS_CardinalityType
  <2>5. again \/ sent = RateLimitMax + 1 \/ counter[Watched] + v <= sent
    BY WaitingIs DEF CountersOK, WatchedCovered
  <2>6. counter[Watched] \in Nat /\ sent \in 0..(RateLimitMax + 1) /\ RateLimitMax \in Nat
    BY GateAssumption, WatchedIsKey DEF CountersOK
  <2>7. sent' = OneMore(sent) /\ sent' \in 0..(RateLimitMax + 1)
    BY <1>1, <1>5, <2>6, OneMoreType
  <2> HIDE DEF v, w
  <2>8. sent' = IF sent <= RateLimitMax THEN sent + 1 ELSE sent
    BY <2>7 DEF OneMore
  <2>9. again \/ sent' = RateLimitMax + 1 \/ counter[Watched] + w <= sent'
    BY <2>2, <2>3, <2>4, <2>5, <2>6, <2>8
  <2>10. again' \/ sent' = RateLimitMax + 1 \/ counter'[Watched] + Cardinality(Waiting') <= sent'
    BY <1>1, <2>9, WaitingIs DEF w
  <2>11. WatchedCovered'
    BY <2>10 DEF WatchedCovered, Watched
  <2>12. QED
    BY <1>1, <1>2, <2>7, <2>11 DEF CountersOK, OneMoves, q
<1>6. QED
  BY <1>4, <1>5

\* A request that moves on without being counted waits no longer than before.
LEMMA QuietMove ==
  ASSUME RequestsTyped, CountersOK, NEW r \in Slots, NEW q, OneMoves(r, q),
         UNCHANGED <<counter, sent, again>>,
         q.phase \in {"auth", "limit"} =>
           req[r].phase \in {"auth", "limit"} /\ Origin(q) = Origin(req[r])
  PROVE  CountersOK'
<1>1. req'[r] = q /\ \A x \in Slots : x # r => req'[x] = req[x]
  BY DEF OneMoves, RequestsTyped
<1>2. Awaiting(req') \in SUBSET Awaiting(req)
  BY <1>1 DEF Awaiting
<1>3. QED
  BY <1>2, QuietCount

\* A request that the limiter has counted does not wait.
LEMMA CountedMove ==
  ASSUME RequestsTyped, CountersOK, NEW r \in Slots, NEW q, OneMoves(r, q),
         req[r].phase = "limit", Counted(req[r]), UNCHANGED <<sent, again>>,
         q.phase \notin {"auth", "limit"}
  PROVE  CountersOK'
<1>1. req'[r] = q /\ \A x \in Slots : x # r => req'[x] = req[x]
  BY DEF OneMoves, RequestsTyped
<1>2. Awaiting(req') \in SUBSET (Awaiting(req) \ {r})
  BY <1>1 DEF Awaiting
<1>3. req[r] \in Req /\ Key(req[r]) = Origin(req[r])
  BY DEF RequestsTyped, RequestsOK, RequestOK, InProgress, Key, Origin
<1>4. QED
  BY <1>2, <1>3, CountedOK

\* How a request without a limiter or a check to pass may end: with the answer
\* ans, at once.
EndsWith(r, ans) ==
  /\ OneMoves(r, Answered("done", ans))
  /\ Answered("done", ans).phase = "done" /\ Answered("done", ans).reply = ans

\* It gets the answer that it is thrown or given.
LEMMA EndsOK ==
  ASSUME NEW r \in Slots, UNCHANGED up
  PROVE  /\ Throw(r, Unauthorized) => EndsWith(r, Reply(401, "UNAUTHORIZED"))
         /\ Throw(r, Invalid) => EndsWith(r, Reply(422, "VALIDATION_ERROR"))
         /\ Throw(r, Unexpected) => EndsWith(r, Reply(500, "INTERNAL_ERROR"))
         /\ \A status \in UpstreamStatus :
              Throw(r, UpstreamError(status)) => EndsWith(r, Reply(status, "SMARTOLT_ERROR"))
         /\ \A status \in {200, 202, 503} :
              Answer(r, "done", Success(status)) => EndsWith(r, Reply(status, "none"))
<1>1. ASSUME NEW status \in Status, NEW code \in Code, Answer(r, "done", Reply(status, code))
      PROVE  EndsWith(r, Reply(status, code))
  <2>1. "done" \in {"done", "over"}
    OBVIOUS
  <2>2. OneMoves(r, Answered("done", Reply(status, code)))
    BY <1>1, <2>1, AnswerOK
  <2>3. QED
    BY <2>1, <2>2, AnsweredOK DEF EndsWith
<1>2. Throw(r, Unauthorized) => EndsWith(r, Reply(401, "UNAUTHORIZED"))
  BY <1>1, HandlerTypes DEF Throw, Status, Code
<1>3. Throw(r, Invalid) => EndsWith(r, Reply(422, "VALIDATION_ERROR"))
  BY <1>1, HandlerTypes DEF Throw, Status, Code
<1>4. Throw(r, Unexpected) => EndsWith(r, Reply(500, "INTERNAL_ERROR"))
  BY <1>1, HandlerTypes DEF Throw, Status, Code
<1>5. ASSUME NEW status \in UpstreamStatus, Throw(r, UpstreamError(status))
      PROVE  EndsWith(r, Reply(status, "SMARTOLT_ERROR"))
  BY <1>1, <1>5, HandlerTypes DEF Throw, Status, Code, UpstreamStatus
<1>6. ASSUME NEW status \in {200, 202, 503}, Answer(r, "done", Success(status))
      PROVE  EndsWith(r, Reply(status, "none"))
  BY <1>1, <1>6 DEF Success, Status, Code
<1>7. QED
  BY <1>2, <1>3, <1>4, <1>5, <1>6

\* A request is authenticated, or refused: because of its token, or because the
\* database cannot be reached.
LEMMA AuthenticateOK ==
  ASSUME RequestsTyped, NEW r \in Slots, Authenticate(r)
  PROVE  \/ \E q \in Req : /\ OneMoves(r, q) /\ q.phase = "limit"
                            /\ Origin(q) = Origin(req[r])
         \/ /\ ~(req[r].caller # Anonymous /\ up["database"])
            /\ EndsWith(r, Reply(401, "UNAUTHORIZED"))
<1>1. CASE req[r].caller # Anonymous /\ up["database"]
  <2> DEFINE q1 == [req[r] EXCEPT !.phase = "limit"]
             q  == [q1 EXCEPT !.user = req[r].caller]
  <2>1. req[r] \in Req /\ RequestOK(req[r], up) /\ req[r].phase = "auth"
    BY DEF RequestsTyped, RequestsOK, Authenticate
  <2>2. req' = [req EXCEPT ![r] = q] /\ UNCHANGED up
    BY <1>1 DEF Authenticate, RequestsTyped
  <2>3. /\ q1 \in Req /\ q1.phase = "limit" /\ q1.checked = req[r].checked
        /\ q1.met = req[r].met /\ q1.missed = req[r].missed
        /\ q1.caller = req[r].caller /\ q1.route = req[r].route
    BY <2>1 DEF Req, Phase
  <2> HIDE DEF q1
  <2>4. req[r].caller \in Tenants \cup {Anonymous}
    BY <2>1 DEF Req
  <2>5. /\ q \in Req /\ q.phase = "limit" /\ q.checked = req[r].checked
        /\ q.met = req[r].met /\ q.missed = req[r].missed
        /\ q.caller = req[r].caller /\ q.route = req[r].route /\ q.user = req[r].caller
    BY <2>3, <2>4 DEF Req
  <2> HIDE DEF q
  <2>6. RequestOK(q, up) /\ Origin(q) = Origin(req[r])
    BY <2>1, <2>5 DEF RequestOK, InProgress, Origin
  <2>7. QED
    BY <2>2, <2>5, <2>6 DEF OneMoves
<1>2. CASE ~(req[r].caller # Anonymous /\ up["database"])
  BY <1>2, EndsOK DEF Authenticate
<1>3. QED
  BY <1>1, <1>2

\* A counted request goes on, or it is over.
LEMMA LimitOK ==
  ASSUME RequestsTyped, CountersOK, NEW r \in Slots, Limit(r)
  PROVE  /\ CountersOK'
         /\ \/ \E q \in Req : OneMoves(r, q) /\ q.phase = "handle"
            \/ /\ counter'[Key(req[r])] > RateLimitMax
               /\ OneMoves(r, Answered("over", Reply(500, "INTERNAL_ERROR")))
<1>1. /\ req[r] \in Req /\ req[r].phase = "limit" /\ Counted(req[r])
      /\ UNCHANGED <<up, sent, again>>
  BY DEF RequestsTyped, Limit
<1>2. counter' \in [Keys -> 0..(RateLimitMax + 1)]
  BY <1>1, CountedType
<1>3. CASE counter'[Key(req[r])] <= RateLimitMax
  <2>1. Goto(r, "handle") /\ up["redis"]
    BY <1>3 DEF Limit
  <2>2. PICK q \in Req : OneMoves(r, q)
    BY <1>1, <2>1, GotoOK DEF Becomes
  <2>3. q.phase = "handle"
    BY <2>1, <2>2 DEF OneMoves, Goto, RequestsTyped, Req
  <2>4. CountersOK'
    BY <1>1, <2>2, <2>3, CountedMove
  <2>5. QED
    BY <2>2, <2>3, <2>4
<1>4. CASE ~(counter'[Key(req[r])] <= RateLimitMax)
  <2>1. counter'[Key(req[r])] > RateLimitMax
    BY <1>1, <1>2, <1>4, KeyTypes, GateAssumption
  <2>2. Answer(r, "over", Reply(500, "INTERNAL_ERROR"))
    BY <1>4, HandlerTypes DEF Limit
  <2>3. 500 \in Status /\ "INTERNAL_ERROR" \in Code /\ "over" \in {"done", "over"}
    BY DEF Status, Code
  <2>4. OneMoves(r, Answered("over", Reply(500, "INTERNAL_ERROR")))
    BY <1>1, <2>2, <2>3, AnswerOK
  <2>5. Answered("over", Reply(500, "INTERNAL_ERROR")).phase = "over"
    BY <2>3, AnsweredOK
  <2>6. CountersOK'
    BY <1>1, <2>4, <2>5, CountedMove
  <2>7. QED
    BY <2>1, <2>4, <2>6
<1>5. QED
  BY <1>3, <1>4

\* A limiter that cannot count answers with an error, counted or not.
LEMMA LimitFailsOK ==
  ASSUME RequestsTyped, CountersOK, NEW r \in Slots, LimitFails(r)
  PROVE  CountersOK' /\ EndsWith(r, Reply(500, "INTERNAL_ERROR"))
<1> DEFINE q == Answered("done", Reply(500, "INTERNAL_ERROR"))
<1>1. UNCHANGED <<up, sent, again>> /\ req[r].phase = "limit"
  BY DEF LimitFails
<1>2. EndsWith(r, Reply(500, "INTERNAL_ERROR"))
  BY <1>1, EndsOK DEF LimitFails
<1>3. OneMoves(r, q) /\ q.phase = "done"
  BY <1>2 DEF EndsWith
<1> HIDE DEF q
<1>4. CASE Counted(req[r])
  BY <1>1, <1>2, <1>3, <1>4, CountedMove
<1>5. CASE UNCHANGED counter
  BY <1>1, <1>2, <1>3, <1>5, QuietMove
<1>6. QED
  BY <1>4, <1>5 DEF LimitFails

\* How the handler of a request that is past the limiter may end it.
HandlerEnds(r) ==
  \E status \in Status, code \in Code :
    /\ EndsWith(r, Reply(status, code))
    /\ code = "UNAUTHORIZED" => req[r].route = "login"
    /\ status = 200 /\ req[r].route \in {"ready", "health"} => req[r].met = Service

\* A 200 of /ready or /health needs both checks, and each is "ok" only if its
\* service was there when it ran.
LEMMA ReportOK ==
  ASSUME RequestsTyped, NEW r \in Slots, Report(r)
  PROVE  HandlerEnds(r)
<1>1. req[r] \in Req /\ RequestOK(req[r], up)
  BY DEF RequestsTyped, RequestsOK
<1>2. CASE AllHealthy(req[r].checked)
  <2>1. req[r].met = Service
    BY <1>1, <1>2 DEF Report, AllHealthy, RequestOK, InProgress, Req
  <2>2. EndsWith(r, Reply(200, "none"))
    BY <1>2, EndsOK DEF Report
  <2>3. QED
    BY <2>1, <2>2 DEF HandlerEnds, Status, Code
<1>3. CASE ~AllHealthy(req[r].checked)
  <2>1. EndsWith(r, Reply(503, "none"))
    BY <1>3, EndsOK DEF Report
  <2>2. QED
    BY <2>1 DEF HandlerEnds, Status, Code
<1>4. QED
  BY <1>2, <1>3

\* The other handlers.
LEMMA HandlersOK ==
  ASSUME RequestsTyped, NEW r \in Slots, Live(r) \/ Login(r) \/ Read(r) \/ Write(r)
  PROVE  HandlerEnds(r)
<1>1. CASE Live(r)
  <2>1. EndsWith(r, Reply(200, "none")) /\ req[r].route = "live"
    BY <1>1, EndsOK DEF Live, Handling
  <2>2. QED
    BY <2>1 DEF HandlerEnds, Status, Code
<1>2. CASE Login(r)
  <2>1. \/ EndsWith(r, Reply(422, "VALIDATION_ERROR"))
        \/ EndsWith(r, Reply(200, "none"))
        \/ EndsWith(r, Reply(401, "UNAUTHORIZED"))
        \/ EndsWith(r, Reply(500, "INTERNAL_ERROR"))
    BY <1>2, EndsOK DEF Login
  <2>2. req[r].route = "login"
    BY <1>2 DEF Login, Handling
  <2>3. QED
    BY <2>1, <2>2 DEF HandlerEnds, Status, Code
<1>3. CASE Read(r)
  <2>1. req[r].route = "read"
    BY <1>3 DEF Read, Handling
  <2>2. \/ EndsWith(r, Reply(200, "none"))
        \/ EndsWith(r, Reply(500, "INTERNAL_ERROR"))
        \/ \E status \in UpstreamStatus : EndsWith(r, Reply(status, "SMARTOLT_ERROR"))
    BY <1>3, EndsOK DEF Read
  <2>3. QED
    BY <2>1, <2>2 DEF HandlerEnds, Status, Code, UpstreamStatus
<1>4. CASE Write(r)
  <2>1. req[r].route = "write"
    BY <1>4 DEF Write, Handling
  <2>2. \/ EndsWith(r, Reply(422, "VALIDATION_ERROR"))
        \/ EndsWith(r, Reply(500, "INTERNAL_ERROR"))
        \/ EndsWith(r, Reply(202, "none"))
    BY <1>4, EndsOK DEF Write
  <2>3. QED
    BY <2>1, <2>2 DEF HandlerEnds, Status, Code
<1>5. QED
  BY <1>1, <1>2, <1>3, <1>4

\* A check records what it finds.
LEMMA CheckOK ==
  ASSUME RequestsTyped, NEW r \in Slots, NEW s \in Service, Check(r, s)
  PROVE  Becomes(r) /\ req'[r].phase = req[r].phase
<1> DEFINE ck == [req[r].checked EXCEPT ![s] = IF up[s] THEN "ok" ELSE "error"]
           q  == [req[r] EXCEPT !.checked = ck]
<1>1. req[r] \in Req /\ RequestOK(req[r], up) /\ req[r].phase = "handle"
  BY DEF RequestsTyped, RequestsOK, Check
<1>2. /\ ck \in [Service -> {"pending", "ok", "error"}]
      /\ \A x \in Service : ck[x] = "ok" => req[r].checked[x] = "ok" \/ up[x]
  BY <1>1 DEF Req
<1>3. req' = [req EXCEPT ![r] = q]
  BY DEF Check
<1> HIDE DEF ck
<1>4. /\ q \in Req /\ q.phase = req[r].phase /\ q.checked = ck
      /\ q.met = req[r].met /\ q.missed = req[r].missed
  BY <1>1, <1>2 DEF Req
<1> HIDE DEF q
<1>5. RequestOK(q, up)
  BY <1>1, <1>2, <1>4 DEF RequestOK, InProgress
<1>6. OneMoves(r, q)
  BY <1>3, <1>4, <1>5 DEF OneMoves, Check
<1>7. req'[r] = q
  BY <1>3 DEF RequestsTyped
<1>8. QED
  BY <1>4, <1>6, <1>7 DEF Becomes

\* How a step may end the request in slot x: it fails to authenticate; the
\* limiter fails; its handler answers; or the limiter has counted too many.
Outcome(x) ==
  /\ Ends(x) =>
       \/ /\ req[x].phase = "auth" /\ ~(req[x].caller # Anonymous /\ up["database"])
          /\ EndsWith(x, Reply(401, "UNAUTHORIZED"))
       \/ EndsWith(x, Reply(500, "INTERNAL_ERROR"))
       \/ req[x].phase = "handle" /\ HandlerEnds(x)
  /\ req'[x].phase = "over" /\ req[x].phase = "limit" =>
       counter'[Key(req[x])] > RateLimitMax /\ UNCHANGED <<sent, again>>

\* A step of the request in slot r ends no other request.
LEMMA OthersGoOn ==
  ASSUME RequestsTyped, NEW r \in Slots, NEW q, OneMoves(r, q), Outcome(r)
  PROVE  \A x \in Slots : Outcome(x)
<1>1. ASSUME NEW x \in Slots, x # r
      PROVE  req'[x].phase = req[x].phase
  BY <1>1 DEF RequestsTyped, OneMoves
<1>2. QED
  BY <1>1 DEF Outcome, Ends

\* A request that moves on is not ended.
LEMMA MovesOn ==
  ASSUME RequestsTyped, NEW r \in Slots, NEW q, OneMoves(r, q), q.phase \in InProgress
  PROVE  \A x \in Slots : Outcome(x)
<1>1. req'[r] = q
  BY DEF RequestsTyped, OneMoves
<1>2. Outcome(r)
  BY <1>1 DEF Outcome, Ends, InProgress
<1>3. QED
  BY <1>2, OthersGoOn

\* An answer of a handler or a hook is not the limiter's.
LEMMA EndedOutcome ==
  ASSUME RequestsTyped, NEW r \in Slots, NEW ans, EndsWith(r, ans)
  PROVE  req'[r].phase = "done" /\ req'[r].reply = ans
BY DEF RequestsTyped, EndsWith, OneMoves

\* What a step of a request does.
RequestStep(r) ==
  \/ \E route \in Routes, caller \in Tenants \cup {Anonymous} : Arrive(r, route, caller)
  \/ Authenticate(r) \/ Limit(r) \/ LimitRepeats(r) \/ LimitFails(r)
  \/ Live(r) \/ Login(r) \/ Read(r) \/ Write(r)
  \/ \E s \in Service : Check(r, s)
  \/ Report(r)

\* Every step of a request keeps the invariant, and ends it in one of those ways.
LEMMA RequestStepOK ==
  ASSUME RequestsTyped, CountersOK, NEW r \in Slots, RequestStep(r)
  PROVE  RequestsTyped' /\ CountersOK' /\ \A x \in Slots : Outcome(x)
<1>1. CASE \E route \in Routes, caller \in Tenants \cup {Anonymous} :
             Arrive(r, route, caller)
  <2>1. PICK route \in Routes, caller \in Tenants \cup {Anonymous} :
          Arrive(r, route, caller)
    BY <1>1
  <2>2. OneMoves(r, NewReq(route, caller)) /\ CountersOK'
    BY <2>1, ArriveOK
  <2>3. NewReq(route, caller).phase \in InProgress
    BY <2>1, NewReqOK DEF InProgress, Arrive
  <2>4. QED
    BY <2>2, <2>3, OneMovesOK, MovesOn
<1>2. CASE Authenticate(r)
  <2>1. UNCHANGED <<counter, sent, again>> /\ req[r].phase = "auth"
    BY <1>2 DEF Authenticate
  <2>2. CASE \E q \in Req : /\ OneMoves(r, q) /\ q.phase = "limit"
                            /\ Origin(q) = Origin(req[r])
    <3>1. PICK q \in Req : /\ OneMoves(r, q) /\ q.phase = "limit"
                           /\ Origin(q) = Origin(req[r])
      BY <2>2
    <3>2. CountersOK'
      BY <2>1, <3>1, QuietMove
    <3>3. QED
      BY <3>1, <3>2, OneMovesOK, MovesOn DEF InProgress
  <2>3. CASE /\ ~(req[r].caller # Anonymous /\ up["database"])
             /\ EndsWith(r, Reply(401, "UNAUTHORIZED"))
    <3>1. Outcome(r)
      BY <2>1, <2>3, EndedOutcome DEF Outcome
    <3>2. CountersOK'
      BY <2>1, <2>3, QuietMove DEF EndsWith
    <3>3. QED
      BY <2>3, <3>1, <3>2, OneMovesOK, OthersGoOn DEF EndsWith
  <2>4. QED
    BY <1>2, <2>2, <2>3, AuthenticateOK
<1>3. CASE Limit(r)
  <2>1. CountersOK'
    BY <1>3, LimitOK
  <2>2. CASE \E q \in Req : OneMoves(r, q) /\ q.phase = "handle"
    <3>1. PICK q \in Req : OneMoves(r, q) /\ q.phase = "handle"
      BY <2>2
    <3>2. QED
      BY <2>1, <3>1, OneMovesOK, MovesOn DEF InProgress
  <2>3. CASE /\ counter'[Key(req[r])] > RateLimitMax
             /\ OneMoves(r, Answered("over", Reply(500, "INTERNAL_ERROR")))
    <3>1. Answered("over", Reply(500, "INTERNAL_ERROR")).phase = "over"
      BY AnsweredOK DEF Status, Code
    <3>2. req'[r].phase = "over"
      BY <2>3, <3>1 DEF OneMoves, RequestsTyped
    <3>3. Outcome(r)
      BY <1>3, <2>3, <3>2 DEF Outcome, Ends, Limit
    <3>4. QED
      BY <2>1, <2>3, <3>3, OneMovesOK, OthersGoOn
  <2>4. QED
    BY <1>3, <2>2, <2>3, LimitOK
<1>4. CASE LimitFails(r)
  <2>1. CountersOK' /\ EndsWith(r, Reply(500, "INTERNAL_ERROR"))
    BY <1>4, LimitFailsOK
  <2>2. Outcome(r)
    BY <2>1, EndedOutcome DEF Outcome
  <2>3. QED
    BY <2>1, <2>2, OneMovesOK, OthersGoOn DEF EndsWith
<1>5. CASE Live(r) \/ Login(r) \/ Read(r) \/ Write(r) \/ Report(r)
  <2>1. UNCHANGED <<counter, sent, again>> /\ req[r].phase = "handle"
    BY <1>5 DEF Live, Login, Read, Write, Report, Handling
  <2>2. HandlerEnds(r)
    BY <1>5, HandlersOK, ReportOK
  <2>3. PICK status \in Status, code \in Code : EndsWith(r, Reply(status, code))
    BY <2>2 DEF HandlerEnds
  <2>4. Outcome(r)
    BY <2>1, <2>2, <2>3, EndedOutcome DEF Outcome
  <2>5. CountersOK'
    BY <2>1, <2>3, QuietMove DEF EndsWith
  <2>6. QED
    BY <2>3, <2>4, <2>5, OneMovesOK, OthersGoOn DEF EndsWith
<1>6. CASE \E s \in Service : Check(r, s)
  <2>1. PICK s \in Service : Check(r, s)
    BY <1>6
  <2>2. UNCHANGED <<counter, sent, again>> /\ req[r].phase = "handle"
    BY <2>1 DEF Check
  <2>3. PICK q \in Req : OneMoves(r, q)
    BY <2>1, CheckOK DEF Becomes
  <2>4. q.phase = "handle"
    BY <2>1, <2>2, <2>3, CheckOK DEF OneMoves, RequestsTyped
  <2>5. CountersOK'
    BY <2>2, <2>3, <2>4, QuietMove
  <2>6. QED
    BY <2>3, <2>4, <2>5, OneMovesOK, MovesOn DEF InProgress
<1>7. CASE LimitRepeats(r)
  <2>1. UNCHANGED <<up, req>>
    BY <1>7 DEF LimitRepeats
  <2>2. CountersOK'
    BY <1>7, RepeatOK DEF RequestsTyped
  <2>3. RequestsTyped' /\ \A x \in Slots : Outcome(x)
    BY <2>1 DEF RequestsTyped, RequestsOK, Outcome, Ends
  <2>4. QED
    BY <2>2, <2>3
<1>8. QED
  BY <1>1, <1>2, <1>3, <1>4, <1>5, <1>6, <1>7 DEF RequestStep

\* A step keeps the invariant; a step of the surroundings ends no request.
LEMMA StepOK ==
  ASSUME RequestsTyped, CountersOK, [Next]_gateVars
  PROVE  RequestsTyped' /\ CountersOK' /\ \A x \in Slots : Outcome(x)
<1>1. ASSUME NEW r \in Slots, RequestStep(r)
      PROVE  RequestsTyped' /\ CountersOK' /\ \A x \in Slots : Outcome(x)
  BY <1>1, RequestStepOK
<1>2. ASSUME NEW k \in Keys, WindowEnds(k)
      PROVE  RequestsTyped' /\ CountersOK' /\ \A x \in Slots : Outcome(x)
  <2>1. UNCHANGED <<up, req>>
    BY <1>2 DEF WindowEnds
  <2>2. RequestsTyped' /\ \A x \in Slots : Outcome(x)
    BY <2>1 DEF RequestsTyped, RequestsOK, Outcome, Ends
  <2>3. QED
    BY <1>2, <2>2, WindowEndsOK
<1>3. ASSUME NEW s \in Service, Switch(s)
      PROVE  RequestsTyped' /\ CountersOK' /\ \A x \in Slots : Outcome(x)
  <2>1. UNCHANGED <<counter, sent, again>>
    BY <1>3 DEF Switch
  <2>2. ASSUME NEW x \in Slots
        PROVE  /\ req'[x].phase = req[x].phase
               /\ req'[x].caller = req[x].caller /\ req'[x].route = req[x].route
    <3>1. req[x] \in Req
      BY DEF RequestsTyped
    <3>2. \/ req'[x] = req[x]
          \/ req'[x] = [req[x] EXCEPT !.met = req[x].met \cup {s}]
          \/ req'[x] = [req[x] EXCEPT !.missed = req[x].missed \cup {s}]
      BY <1>3 DEF Switch
    <3>3. QED
      BY <3>1, <3>2 DEF Req
  <2>3. Awaiting(req') \in SUBSET Awaiting(req)
    BY <2>2 DEF Awaiting, Origin
  <2>4. CountersOK'
    BY <2>1, <2>3, QuietCount
  <2>5. QED
    BY <1>3, <2>2, <2>4, SwitchOK DEF Outcome, Ends
<1>4. CASE UNCHANGED gateVars
  <2>1. UNCHANGED <<up, counter, req, sent, again>>
    BY <1>4 DEF gateVars
  <2>2. CountersOK'
    BY <2>1, QuietCount
  <2>3. QED
    BY <2>1, <2>2 DEF RequestsTyped, RequestsOK, Outcome, Ends
<1>5. QED
  BY <1>1, <1>2, <1>3, <1>4 DEF Next, RequestStep

-----------------------------------------------------------------------------
(* Theorems                                                                *)

\* The invariant in its two parts: requests and counters.
LEMMA InvParts == IInv <=> RequestsTyped /\ CountersOK
BY DEF IInv, TypeOK, RequestsTyped, CountersOK

\* At the start no request is in progress and nothing is counted.
LEMMA InitOK == Init => IInv
<1> SUFFICES ASSUME Init PROVE IInv
  OBVIOUS
<1>1. Answered("done", Success(200)) \in Req /\ Answered("done", Success(200)).phase = "done"
  BY AnsweredOK DEF Success, Status, Code
<1>2. RequestsTyped
  BY <1>1 DEF Init, RequestsTyped, RequestsOK, RequestOK, InProgress
<1>3. 0 \in 0..(RateLimitMax + 1)
  BY GateAssumption
<1>4. Waiting = {}
  BY <1>1 DEF Init, Waiting
<1>5. counter[Watched] = 0 /\ sent = 0
  BY WatchedIsKey DEF Init
<1>6. WatchedCovered
  BY <1>4, <1>5, FS_EmptySet DEF WatchedCovered
<1>7. CountersOK
  BY <1>3, <1>6 DEF Init, CountersOK
<1>8. QED
  BY <1>2, <1>7, InvParts

\* The inductive invariant.
THEOREM InvHolds == Spec => []IInv
<1>1. IInv /\ [Next]_gateVars => IInv'
  <2> SUFFICES ASSUME IInv, [Next]_gateVars PROVE IInv'
    OBVIOUS
  <2>1. RequestsTyped /\ CountersOK
    BY InvParts
  <2>2. RequestsTyped' /\ CountersOK'
    BY <2>1, StepOK
  <2>3. QED
    BY <2>2 DEF IInv, TypeOK, RequestsTyped, CountersOK
<1>2. QED
  BY InitOK, <1>1, PTL DEF Spec

\* The services, counters, requests and histories stay within their types.
THEOREM TypeCorrect == Spec => []TypeOK
<1>1. IInv => TypeOK
  BY DEF IInv
<1>2. QED
  BY InvHolds, <1>1, PTL

\* A tenant is stopped on account of its own requests only, whoever else calls
\* at the same time, however many requests are in progress, and whenever the
\* windows of the keys end.  The watched key stands for any.
THEOREM StoppedByOwnRequestsHolds == Spec => StoppedByOwnRequests
<1>1. IInv /\ [Next]_gateVars =>
        [\A r \in Slots :
           req'[r].phase = "over" /\ req[r].phase = "limit" /\ Origin(req[r]) = Watched
             => sent > RateLimitMax \/ again]_gateVars
  <2> SUFFICES ASSUME IInv, [Next]_gateVars, NEW r \in Slots,
                      req'[r].phase = "over", req[r].phase = "limit",
                      Origin(req[r]) = Watched
               PROVE  sent > RateLimitMax \/ again
    OBVIOUS
  <2>1. RequestsTyped /\ CountersOK
    BY InvParts
  <2>2. CountersOK' /\ counter'[Key(req[r])] > RateLimitMax /\ UNCHANGED <<sent, again>>
    BY <2>1, StepOK DEF Outcome
  <2>3. Key(req[r]) = Watched
    BY <2>1 DEF RequestsTyped, RequestsOK, RequestOK, InProgress, Key, Origin
  <2>4. again' \/ sent' = RateLimitMax + 1 \/ counter'[Watched] + Cardinality(Waiting') <= sent'
    BY <2>2 DEF CountersOK, WatchedCovered, Watched
  <2>5. /\ counter'[Watched] \in Nat /\ Cardinality(Waiting') \in Nat
        /\ sent \in Nat /\ RateLimitMax \in Nat
    BY <2>1, <2>2, WatchedIsKey, WaitingIs, AwaitingFinite, GateAssumption DEF CountersOK, Watched
  <2>6. QED
    BY <2>2, <2>3, <2>4, <2>5
<1>2. QED
  BY InvHolds, <1>1, PTL DEF Spec, StoppedByOwnRequests

\* A valid token is refused only when the database could not be reached.
THEOREM TokenRefusedByOutageHolds == Spec => TokenRefusedByOutage
<1>1. IInv /\ [Next]_gateVars =>
        [\A r \in Slots :
           /\ Ends(r) /\ req'[r].reply.code = "UNAUTHORIZED"
           /\ req[r].route \in Protected /\ req[r].caller # Anonymous
           => "database" \in req[r].missed]_gateVars
  <2> SUFFICES ASSUME IInv, [Next]_gateVars, NEW r \in Slots, Ends(r),
                      req'[r].reply.code = "UNAUTHORIZED",
                      req[r].route \in Protected, req[r].caller # Anonymous
               PROVE  "database" \in req[r].missed
    OBVIOUS
  <2>1. RequestsTyped /\ CountersOK
    BY InvParts
  <2>2. Outcome(r)
    BY <2>1, StepOK
  <2>3. CASE req[r].phase = "auth" /\ ~(req[r].caller # Anonymous /\ up["database"])
    <3>1. RequestOK(req[r], up) /\ req[r] \in Req /\ "database" \in Service
      BY <2>1 DEF RequestsTyped, RequestsOK, Service
    <3>2. QED
      BY <2>3, <3>1 DEF RequestOK, InProgress
  <2>4. ~EndsWith(r, Reply(500, "INTERNAL_ERROR"))
    BY <2>1, EndedOutcome DEF Reply
  <2>5. ASSUME HandlerEnds(r) PROVE FALSE
    <3>1. PICK status \in Status, code \in Code :
            /\ EndsWith(r, Reply(status, code))
            /\ code = "UNAUTHORIZED" => req[r].route = "login"
      BY <2>5 DEF HandlerEnds
    <3>2. req'[r].reply = Reply(status, code)
      BY <2>1, <3>1, EndedOutcome
    <3>3. QED
      BY <3>1, <3>2 DEF Reply, Protected
  <2>6. QED
    BY <2>2, <2>3, <2>4, <2>5 DEF Outcome
<1>2. QED
  BY InvHolds, <1>1, PTL DEF Spec, TokenRefusedByOutage

\* Whoever has not met Redis is refused by authenticate() or by the limiter:
\* no handler has run.
THEOREM RedisGatesAllHolds == Spec => RedisGatesAll
<1>1. IInv /\ [Next]_gateVars =>
        [\A r \in Slots :
           Ends(r) /\ "redis" \notin req[r].met => req'[r].reply.status \in {401, 500}]_gateVars
  <2> SUFFICES ASSUME IInv, [Next]_gateVars, NEW r \in Slots, Ends(r),
                      "redis" \notin req[r].met
               PROVE  req'[r].reply.status \in {401, 500}
    OBVIOUS
  <2>1. RequestsTyped /\ CountersOK
    BY InvParts
  <2>2. Outcome(r) /\ RequestOK(req[r], up)
    BY <2>1, StepOK DEF RequestsTyped, RequestsOK
  <2>3. req[r].phase # "handle"
    BY <2>2 DEF RequestOK, InProgress
  <2>4. QED
    BY <2>1, <2>2, <2>3, EndedOutcome DEF Outcome, Reply
<1>2. QED
  BY InvHolds, <1>1, PTL DEF Spec, RedisGatesAll

\* A 200 of /ready or /health means that both services could be reached while
\* the request was in progress.
THEOREM HealthyMeansReachedHolds == Spec => HealthyMeansReached
<1>1. IInv /\ [Next]_gateVars =>
        [\A r \in Slots :
           /\ Ends(r) /\ req'[r].reply.status = 200
           /\ req[r].route \in {"ready", "health"}
           => req[r].met = Service]_gateVars
  <2> SUFFICES ASSUME IInv, [Next]_gateVars, NEW r \in Slots, Ends(r),
                      req'[r].reply.status = 200, req[r].route \in {"ready", "health"}
               PROVE  req[r].met = Service
    OBVIOUS
  <2>1. RequestsTyped /\ CountersOK
    BY InvParts
  <2>2. Outcome(r)
    BY <2>1, StepOK
  <2>3. /\ ~EndsWith(r, Reply(500, "INTERNAL_ERROR"))
        /\ ~EndsWith(r, Reply(401, "UNAUTHORIZED"))
    BY <2>1, EndedOutcome DEF Reply
  <2>4. HandlerEnds(r)
    BY <2>2, <2>3 DEF Outcome
  <2>5. QED
    BY <2>1, <2>4, EndedOutcome DEF HandlerEnds, Reply
<1>2. QED
  BY InvHolds, <1>1, PTL DEF Spec, HealthyMeansReached
=============================================================================
