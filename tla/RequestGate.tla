----------------------------- MODULE RequestGate -----------------------------
(***************************************************************************)
(* What a request passes on its way through app.ts: authenticate()         *)
(* (plugins/auth.plugin.ts), the rate limiter (plugins/rateLimit.plugin.ts *)
(* over @fastify/rate-limit), its handler, and globalErrorHandler() if one *)
(* of them throws.  The limiter is an onRequest hook that the plugin adds  *)
(* to every route behind the hooks the route has of its own.               *)
(*                                                                         *)
(* Postgres and Redis may be unreachable at any time.  A step is what a    *)
(* request does between two awaits.  Of the handlers, the answers they can *)
(* give are kept; the tenant of a valid token is in service (the module    *)
(* Tenants has the other case).                                            *)
(***************************************************************************)
EXTENDS Integers, FiniteSets

CONSTANTS
  Tenants,        \* the callers' tenants
  Slots,          \* slots for the requests in progress
  Routes,         \* the kinds of route that are called
  Anonymous,      \* stands for the tenant of a request without a user
  RateLimitMax,   \* RATE_LIMIT_MAX
  WatchedCaller,  \* the caller and the route whose requests the history
  WatchedRoute    \* follows: any caller, and any route

\* Routes without and with the authenticate hook: health.routes.ts and login;
\* the reads and the queued writes of onu.routes.ts and olt.routes.ts.
Public    == {"live", "ready", "health", "login"}
Protected == {"read", "write"}

ASSUME GateAssumption ==
  /\ Routes # {} /\ Routes \subseteq Public \cup Protected
  /\ IsFiniteSet(Slots)
  /\ Anonymous \notin Tenants
  /\ RateLimitMax \in Nat
  /\ WatchedCaller \in Tenants \cup {Anonymous}
  /\ WatchedRoute \in Routes

VARIABLES
  up,       \* up[s]: service s can be reached
  counter,  \* counter[k]: the limiter's Redis key k; 0 when it has expired
  req,      \* req[r]: the request in slot r
  sent,     \* history: the requests of the watched caller for the watched
            \* route that are not of an earlier window of their key
  again     \* history: one of them was counted twice in this window

gateVars == <<up, counter, req, sent, again>>

-----------------------------------------------------------------------------
(* State                                                                   *)

Service == {"database", "redis"}

\* "over": the answer to a request that the limiter stopped.
Phase  == {"auth", "limit", "handle", "done", "over"}
Status == {200, 202, 401, 422, 429, 500, 502, 503}
Code   == {"none", "UNAUTHORIZED", "VALIDATION_ERROR", "SMARTOLT_ERROR", "HTTP_ERROR",
           "INTERNAL_ERROR"}

\* The status of an answer, and the code in its body.
Reply(status, code) == [status |-> status, code |-> code]
Success(status)     == Reply(status, "none")

\* caller: the tenant whose valid token the request has, if it has one.
\* user: request.user, the tenant that the hooks know of.  checked[s]: what
\* checkDatabase() and checkRedis() have returned.  met and missed: history,
\* the services that were reachable, and unreachable, at some time since the
\* request arrived.
Req == [phase : Phase, route : Routes,
        caller : Tenants \cup {Anonymous}, user : Tenants \cup {Anonymous},
        checked : [Service -> {"pending", "ok", "error"}],
        reply : [status : Status, code : Code],
        met : SUBSET Service, missed : SUBSET Service]

\* The authenticate hook comes before that of the limiter, where there is one.
NewReq(route, caller) ==
  [phase |-> IF route \in Protected THEN "auth" ELSE "limit",
   route |-> route, caller |-> caller, user |-> Anonymous,
   checked |-> [s \in Service |-> "pending"], reply |-> Success(200),
   met |-> {s \in Service : up[s]}, missed |-> {s \in Service : ~up[s]}]

\* A request that is over keeps its answer only.
Answered(phase, reply) ==
  [phase |-> phase, route |-> CHOOSE p \in Routes : TRUE,
   caller |-> Anonymous, user |-> Anonymous,
   checked |-> [s \in Service |-> "pending"], reply |-> reply,
   met |-> {}, missed |-> {}]

\* keyGenerator().
Key(q) == <<q.user, q.route>>

Keys == (Tenants \cup {Anonymous}) \X Routes

\* Whose request it is, and the key it should be counted under.
Origin(q) == <<q.caller, q.route>>
Watched   == <<WatchedCaller, WatchedRoute>>

\* The watched requests that are still to be counted.
Waiting ==
  {r \in Slots : req[r].phase \in {"auth", "limit"} /\ Origin(req[r]) = Watched}

Init ==
  /\ up = [s \in Service |-> TRUE]
  /\ counter = [k \in Keys |-> 0]
  /\ req = [r \in Slots |-> Answered("done", Success(200))]
  /\ sent = 0
  /\ again = FALSE

-----------------------------------------------------------------------------
(* Errors                                                                  *)

\* An error as globalErrorHandler() sees it.  statusCode 0: it has none.
Thrown(class, statusCode, code) ==
  [class |-> class, statusCode |-> statusCode, code |-> code]

Unauthorized == Thrown("AppError", 401, "UNAUTHORIZED")
Invalid      == Thrown("AppError", 422, "VALIDATION_ERROR")
Unexpected   == Thrown("Error", 0, "none")   \* TypeErrors, of Prisma, of ioredis

\* The object of errorResponseBuilder(), which the plugin throws.
RateLimitExceeded == Thrown("Object", 0, "none")

\* A SmartOLTError has the status of SmartOLT's own answer: of those, the ones
\* that the gateway has a use for too, and another one.  503 is also that of a
\* SmartOLTCircuitOpenError.
UpstreamError(status) == Thrown("AppError", status, "SMARTOLT_ERROR")
UpstreamStatus        == {401, 429, 502, 503}

\* Mutant: the error's own status is taken whether it has one or not.
GlobalErrorHandlerTrusting(e) == Reply(e.statusCode, e.code)

\* Mutant: every 401 is answered with the code of an UnauthorizedError.
GlobalErrorHandlerByStatus(e) ==
  CASE e.statusCode = 401   -> Reply(401, "UNAUTHORIZED")
    [] e.class = "AppError" -> Reply(e.statusCode, e.code)
    [] OTHER                -> Reply(500, "INTERNAL_ERROR")

GlobalErrorHandler(e) ==
  CASE e.class = "ZodError" -> Reply(422, "VALIDATION_ERROR")
    [] e.class = "AppError" -> Reply(e.statusCode, e.code)
    [] e.class \notin {"ZodError", "AppError"} /\ e.statusCode # 0 ->
         Reply(e.statusCode, "HTTP_ERROR")
    [] OTHER -> Reply(500, "INTERNAL_ERROR")

Goto(r, phase) == req' = [req EXCEPT ![r].phase = phase]

Answer(r, phase, reply) == req' = [req EXCEPT ![r] = Answered(phase, reply)]

Throw(r, e) == Answer(r, "done", GlobalErrorHandler(e))

-----------------------------------------------------------------------------
(* The hooks                                                               *)

\* Counts are compared with limits only.
OneMore(n) == IF n <= RateLimitMax THEN n + 1 ELSE n

\* A caller of a protected route has the token of a tenant, or a bad one; the
\* token of a request for a public route is not looked at.
Arrive(r, route, caller) ==
  /\ req[r].phase \in {"done", "over"}
  /\ route \in Public => caller = Anonymous
  /\ req' = [req EXCEPT ![r] = NewReq(route, caller)]
  /\ sent' = IF <<caller, route>> = Watched THEN OneMore(sent) ELSE sent
  /\ UNCHANGED <<up, counter, again>>

\* Mutant: request.user is set after the limiter's hook has run.
AuthenticateTooLate(r) ==
  /\ req[r].phase = "auth"
  /\ IF req[r].caller # Anonymous /\ up["database"] THEN Goto(r, "limit")
                                                    ELSE Throw(r, Unauthorized)
  /\ UNCHANGED <<up, counter, sent, again>>

\* authenticate(): it sets request.user; whatever jwtVerify() or the query of
\* resolveTenant() throws becomes an UnauthorizedError.
Authenticate(r) ==
  /\ req[r].phase = "auth"
  /\ IF req[r].caller # Anonymous /\ up["database"]
     THEN req' = [req EXCEPT ![r].phase = "limit", ![r].user = req[r].caller]
     ELSE Throw(r, Unauthorized)
  /\ UNCHANGED <<up, counter, sent, again>>

\* INCR of the request's key.
Counted(q) == counter' = [counter EXCEPT ![Key(q)] = OneMore(@)]

Limit(r) ==
  /\ req[r].phase = "limit"
  /\ up["redis"]
  /\ Counted(req[r])
  /\ IF counter'[Key(req[r])] <= RateLimitMax
     THEN Goto(r, "handle")
     ELSE Answer(r, "over", GlobalErrorHandler(RateLimitExceeded))
  /\ UNCHANGED <<up, sent, again>>

\* The connection is lost after the INCR and before its answer: ioredis sends
\* the command again when it is back.
LimitRepeats(r) ==
  /\ req[r].phase = "limit"
  /\ ~up["redis"]
  /\ Counted(req[r])
  /\ again' = (again \/ Key(req[r]) = Watched)
  /\ UNCHANGED <<up, req, sent>>

\* Mutant: a limiter that cannot count lets the request through.
LimitSkipsErrors(r) ==
  /\ req[r].phase = "limit"
  /\ ~up["redis"]
  /\ Goto(r, "handle")
  /\ UNCHANGED <<up, counter, sent, again>>

\* The INCR fails, or its answer is lost; skipOnError is left at false.
LimitFails(r) ==
  /\ req[r].phase = "limit"
  /\ ~up["redis"]
  /\ Throw(r, Unexpected)
  /\ Counted(req[r]) \/ UNCHANGED counter
  /\ UNCHANGED <<up, sent, again>>

-----------------------------------------------------------------------------
(* The handlers                                                            *)

Handling(r, route) == req[r].phase = "handle" /\ req[r].route = route

Live(r) ==
  /\ Handling(r, "live")
  /\ Answer(r, "done", Success(200))
  /\ UNCHANGED <<up, counter, sent, again>>

\* The body is checked before the database is asked for the user.
Login(r) ==
  /\ Handling(r, "login")
  /\ \/ Throw(r, Invalid)
     \/ up["database"] /\ (Answer(r, "done", Success(200)) \/ Throw(r, Unauthorized))
     \/ ~up["database"] /\ Throw(r, Unexpected)
  /\ UNCHANGED <<up, counter, sent, again>>

\* getOrSet() takes an unreachable Redis for a miss; but a cache rule whose
\* TTL makes no date is an unexpected error, of toISOString() in set().
Read(r) ==
  /\ Handling(r, "read")
  /\ \/ Answer(r, "done", Success(200))
     \/ Throw(r, Unexpected)
     \/ \E status \in UpstreamStatus : Throw(r, UpstreamError(status))
  /\ UNCHANGED <<up, counter, sent, again>>

\* The body is checked before the job is added to the queue in Redis; but
\* restoreFactory() and resyncConfig() throw a TypeError if there is none.
Write(r) ==
  /\ Handling(r, "write")
  /\ \/ Throw(r, Invalid)
     \/ Throw(r, Unexpected)
     \/ up["redis"] /\ Answer(r, "done", Success(202))
  /\ UNCHANGED <<up, counter, sent, again>>

\* checkDatabase() and checkRedis() run side by side.
Check(r, s) ==
  /\ req[r].phase = "handle" /\ req[r].route \in {"ready", "health"}
  /\ req[r].checked[s] = "pending"
  /\ req' = [req EXCEPT ![r].checked[s] = IF up[s] THEN "ok" ELSE "error"]
  /\ UNCHANGED <<up, counter, sent, again>>

\* Mutant: one service is enough.
AllHealthyIfAny(checked) == \E s \in Service : checked[s] = "ok"

AllHealthy(checked) == \A s \in Service : checked[s] = "ok"

\* healthCheck() and readinessCheck() have both results.
Report(r) ==
  /\ req[r].phase = "handle" /\ req[r].route \in {"ready", "health"}
  /\ \A s \in Service : req[r].checked[s] # "pending"
  /\ Answer(r, "done", Success(IF AllHealthy(req[r].checked) THEN 200 ELSE 503))
  /\ UNCHANGED <<up, counter, sent, again>>

-----------------------------------------------------------------------------
(* The surroundings                                                        *)

\* The window of a counter ends: its Redis key expires, or is evicted.
WindowEnds(k) ==
  /\ counter[k] > 0
  /\ counter' = [counter EXCEPT ![k] = 0]
  /\ IF k = Watched
     THEN /\ sent' = IF Cardinality(Waiting) <= RateLimitMax
                     THEN Cardinality(Waiting) ELSE RateLimitMax + 1
          /\ again' = FALSE
     ELSE UNCHANGED <<sent, again>>
  /\ UNCHANGED <<up, req>>

\* A service goes down or comes back.
Switch(s) ==
  /\ up' = [up EXCEPT ![s] = ~@]
  /\ req' = [r \in Slots |->
       IF req[r].phase \in {"done", "over"} THEN req[r]
       ELSE IF up'[s] THEN [req[r] EXCEPT !.met = @ \cup {s}]
                      ELSE [req[r] EXCEPT !.missed = @ \cup {s}]]
  /\ UNCHANGED <<counter, sent, again>>

Next ==
  \/ \E r \in Slots :
       \/ \E route \in Routes, caller \in Tenants \cup {Anonymous} :
            Arrive(r, route, caller)
       \/ Authenticate(r) \/ Limit(r) \/ LimitRepeats(r) \/ LimitFails(r)
       \/ Live(r) \/ Login(r) \/ Read(r) \/ Write(r)
       \/ \E s \in Service : Check(r, s)
       \/ Report(r)
  \/ \E k \in Keys : WindowEnds(k)
  \/ \E s \in Service : Switch(s)

Spec == Init /\ [][Next]_gateVars

-----------------------------------------------------------------------------
(* Properties                                                              *)

TypeOK ==
  /\ up \in [Service -> BOOLEAN]
  /\ counter \in [Keys -> 0..(RateLimitMax + 1)]
  /\ req \in [Slots -> Req]
  /\ sent \in 0..(RateLimitMax + 1)
  /\ again \in BOOLEAN

\* A tenant is stopped by the limiter on account of its own requests only:
\* more than RATE_LIMIT_MAX of them have arrived that no earlier window counts,
\* whoever else calls, whichever windows end and requests fail in between.
\* One that ioredis has sent twice excuses it.  README.md:267: "Rate limits are
\* enforced per-tenant".
StoppedByOwnRequests ==
  [][\A r \in Slots :
       req'[r].phase = "over" /\ req[r].phase = "limit" /\ Origin(req[r]) = Watched
         => sent > RateLimitMax \/ again]_gateVars

\* Request r is answered by its handler or by an error.
Ends(r) == req[r].phase # "done" /\ req'[r].phase = "done"

\* A caller with a valid token is told that it is invalid only if the database
\* could not be reached meanwhile: an outage of Postgres looks like a bad
\* token, but nothing else does.  In particular, when SmartOLT refuses the
\* tenant's own token the status of the answer is 401 as well, its code is not.
TokenRefusedByOutage ==
  [][\A r \in Slots :
       /\ Ends(r) /\ req'[r].reply.code = "UNAUTHORIZED"
       /\ req[r].route \in Protected /\ req[r].caller # Anonymous
       => "database" \in req[r].missed]_gateVars

\* Nobody gets past the limiter while Redis is away: neither the reads that
\* would survive it, nor the liveness probe, nor the /health that would report
\* it.  So a 503 of /health or /ready tells of a Redis lost during the request.
RedisGatesAll ==
  [][\A r \in Slots :
       Ends(r) /\ "redis" \notin req[r].met => req'[r].reply.status \in {401, 500}]_gateVars

\* /ready and /health report success only if both services were reachable while
\* they ran, whichever of the two checks is slow.
HealthyMeansReached ==
  [][\A r \in Slots :
       /\ Ends(r) /\ req'[r].reply.status = 200
       /\ req[r].route \in {"ready", "health"}
       => req[r].met = Service]_gateVars

=============================================================================
