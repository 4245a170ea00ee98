--------------------------- MODULE SmartOLTClient ---------------------------
(***************************************************************************)
(* One request to SmartOLT: services/smartolt/SmartOLTClient.ts.  The      *)
(* circuit breaker's fn() is withRetry() (shared/utils/retry.ts) around    *)
(* one axios request, so a request is admitted once, sends up to           *)
(* RetryAttempts HTTP requests with pauses between them, and is reported   *)
(* to the circuit once, when the last of them has been answered.           *)
(*                                                                         *)
(* The promise callbacks between an HTTP answer and the next timer or      *)
(* request touch no shared state but the circuit's, once: they are one     *)
(* step.  The length of a pause is left out, as nothing waits for it.      *)
(***************************************************************************)
EXTENDS CircuitBreaker

CONSTANT RetryAttempts   \* SMARTOLT_RETRY_ATTEMPTS

ASSUME RetryAssumption == RetryAttempts \in Nat \ {0} /\ Calls # {}

VARIABLES
  call,    \* call[k][c]: the progress of the request in call slot c on key k
  leaked   \* history: leaked[k] counts the HTTP requests sent to k's upstream
           \* while k's circuit is open, since it last came to be open

clientVars == <<breakerVars, call, leaked>>

-----------------------------------------------------------------------------
(* Errors.  Of an error only what the retry decision and the caller's      *)
(* status code depend on is kept.                                          *)

NoResponse == 0   \* the error has no `response`

\* What axios rejects with: a timeout, a connection that fails, an answer
\* outside of 2xx.
AxiosErrors ==
  [code : {"ECONNABORTED", "ETIMEDOUT", "ECONNREFUSED"}, response : {NoResponse}]
  \cup [code : {"ERR_BAD_REQUEST"}, response : {404, 429}]
  \cup [code : {"ERR_BAD_RESPONSE"}, response : {500}]

\* Mutant: the error thrown to withRetry() still carries the response.
ToSmartOLTErrorWithResponse(e) ==
  [code |-> "SMARTOLT_ERROR", statusCode |-> e.response, response |-> e.response]

\* The catch block of request().  AppError has a code of its own and none of
\* the SmartOLT errors has a `response`.
ToSmartOLTError(e) ==
  [code       |-> "SMARTOLT_ERROR",
   statusCode |-> IF e.code \in {"ECONNABORTED", "ETIMEDOUT"} THEN 504
                  ELSE IF e.response = NoResponse THEN 502
                  ELSE e.response,
   response   |-> NoResponse]

IsRetryableError(err) ==
  \/ err.code \in {"ECONNRESET", "ETIMEDOUT", "ECONNREFUSED", "ENOTFOUND",
                   "EAI_AGAIN"}
  \/ err.response = NoResponse
  \/ err.response = 429
  \/ err.response >= 500

\* Status 429 stands for `instanceof SmartOLTRateLimitError`.
RetryOn(err) == err.statusCode = 429 \/ IsRetryableError(err)

\* Mutant: one attempt too many.
MayRetryOnceMore(attempt, err) == attempt <= RetryAttempts /\ RetryOn(err)

MayRetry(attempt, err) == attempt # RetryAttempts /\ RetryOn(err)

FollowingAttempt(attempt) == attempt + 1

-----------------------------------------------------------------------------
(* State                                                                   *)

\* "http": awaiting axios.  "backoff": in sleep().  The others are the last
\* request's end: it returned, threw, or was refused by the circuit.
Phase == {"unused", "http", "backoff", "returned", "threw", "refused"}

Busy == {"http", "backoff"}

CallState == [phase : Phase, attempt : 0..RetryAttempts]

CInit ==
  /\ Init
  /\ call = [k \in Keys |-> [c \in Calls |-> [phase |-> "unused", attempt |-> 0]]]
  /\ leaked = [k \in Keys |-> 0]

\* The history follows the circuit: a circuit that comes to be open starts
\* from zero, and one that is no longer open keeps nothing.
LeakedAfter(k, sent) ==
  leaked' = [leaked EXCEPT ![k] =
    IF circuits[k].state = "OPEN" /\ circuits'[k].state = "OPEN"
    THEN @ + sent ELSE 0]

-----------------------------------------------------------------------------
(* Actions                                                                 *)

\* request() for a call that the circuit admits: axios sends the first
\* HTTP request before anything is awaited.
Request(k, c) ==
  /\ Execute(k, c)
  /\ call' = [call EXCEPT ![k][c] = [phase |-> "http", attempt |-> 1]]
  /\ LeakedAfter(k, 1)

\* request() for a call that execute() answers with SmartOLTCircuitOpenError.
Refused(k, c) ==
  /\ Reject(k, c)
  /\ call' = [call EXCEPT ![k][c] = [phase |-> "refused", attempt |-> 0]]
  /\ LeakedAfter(k, 0)

\* axios resolves with an answer in 2xx, whatever its `success` field says.
HttpOk(k, c) ==
  /\ call[k][c].phase = "http"
  /\ Succeed(k, c)
  /\ call' = [call EXCEPT ![k][c].phase = "returned"]
  /\ LeakedAfter(k, 0)

\* Mutant: the circuit is told of every failed attempt, not of the request.
HttpErrorCountsAttempts(k, c, e) ==
  /\ call[k][c].phase = "http"
  /\ IF MayRetry(call[k][c].attempt, ToSmartOLTError(e))
     THEN /\ circuits' = [circuits EXCEPT ![k] = OnFailure(@)]
          /\ UNCHANGED <<status, probes>>
          /\ call' = [call EXCEPT ![k][c].phase = "backoff"]
     ELSE /\ Fail(k, c)
          /\ call' = [call EXCEPT ![k][c].phase = "threw"]
  /\ LeakedAfter(k, 0)

\* axios rejects, and withRetry() decides.
HttpError(k, c, e) ==
  /\ call[k][c].phase = "http"
  /\ IF MayRetry(call[k][c].attempt, ToSmartOLTError(e))
     THEN /\ call' = [call EXCEPT ![k][c].phase = "backoff"]
          /\ UNCHANGED breakerVars
     ELSE /\ Fail(k, c)
          /\ call' = [call EXCEPT ![k][c].phase = "threw"]
  /\ LeakedAfter(k, 0)

\* sleep() is over.  The circuit is not asked again.
Resend(k, c) ==
  /\ call[k][c].phase = "backoff"
  /\ call' = [call EXCEPT ![k][c] =
                [phase |-> "http", attempt |-> FollowingAttempt(@.attempt)]]
  /\ UNCHANGED breakerVars
  /\ LeakedAfter(k, 1)

CReset(k) == Reset(k) /\ LeakedAfter(k, 0) /\ UNCHANGED call

CTick == Tick /\ UNCHANGED <<call, leaked>>

CNext ==
  \/ \E k \in Keys, c \in Calls :
       \/ Request(k, c)
       \/ Refused(k, c)
       \/ HttpOk(k, c)
       \/ \E e \in AxiosErrors : HttpError(k, c, e)
       \/ Resend(k, c)
  \/ \E k \in Keys : CReset(k)
  \/ CTick

CSpec == CInit /\ [][CNext]_clientVars

\* The axios request has a timeout, the pause is a timer, and time passes.
CFairness ==
  /\ WF_clientVars(CTick)
  /\ \A k \in Keys, c \in Calls :
       /\ WF_clientVars(HttpOk(k, c) \/ \E e \in AxiosErrors : HttpError(k, c, e))
       /\ WF_clientVars(Resend(k, c))

CFairSpec == CSpec /\ CFairness

-----------------------------------------------------------------------------
(* Properties                                                              *)

\* The client's own state is well-typed, and agrees with the breaker's on
\* which call slots are in use.
ClientTypeOK ==
  /\ TypeOK
  /\ call \in [Keys -> [Calls -> CallState]]
  /\ leaked \in [Keys -> Nat]
  /\ \A k \in Keys, c \in Calls :
       status[k][c] \in InFlight <=> call[k][c].phase \in Busy

\* The client gives the breaker what the breaker's own specification takes
\* for granted: calls settle once, after being admitted, and always do, since
\* the retries are bounded and each of them is awaited under a timeout.
ImplementsBreaker == FairSpec

\* A request is given up only after all its attempts, whatever the upstream
\* answers: the errors thrown to withRetry() have no `response`, so its test
\* for client errors (retry.ts:62-65) never applies, and an answer of 404 is
\* asked for again like an outage.
GivesUpOnlyWhenSpent ==
  \A k \in Keys, c \in Calls :
    call[k][c].phase = "threw" => call[k][c].attempt = RetryAttempts

\* What still reaches the upstream behind an open circuit are the remaining
\* attempts of the other calls that were in flight when it opened.
BoundedLeak ==
  \A k \in Keys : leaked[k] <= (Cardinality(Calls) - 1) * (RetryAttempts - 1)

=============================================================================
