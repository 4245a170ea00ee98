--------------------------- MODULE CircuitBreaker ---------------------------
(***************************************************************************)
(* The circuit breaker that guards every call to a tenant's SmartOLT       *)
(* upstream: services/circuit-breaker/CircuitBreaker.ts.                   *)
(*                                                                         *)
(* execute() is synchronous up to `await fn()`, so admitting (or refusing) *)
(* a call is one step, and so is applying its outcome afterwards.  Between *)
(* the two the other calls on the same circuit run, and the circuit may    *)
(* have opened, half-opened or been deleted: the outcome is applied to the *)
(* CircuitStats object the call took at its start.                         *)
(*                                                                         *)
(* Abstractions.  `successes` is only reported by /health and is left out. *)
(* `failures` is compared with the threshold only, so it saturates there.  *)
(* The two timestamps are ages in ticks that saturate at Timeout, the only *)
(* value an age is compared with.  A key absent from the Map is a fresh    *)
(* circuit, which is what getCircuit() makes of it.                        *)
(***************************************************************************)
EXTENDS Integers, FiniteSets

CONSTANTS
  Keys,              \* circuit keys, one `smartolt:${subdomain}` per tenant
  Calls,             \* slots for the execute() calls in progress on a key
  Threshold,         \* SMARTOLT_CIRCUIT_BREAKER_THRESHOLD
  Timeout,           \* SMARTOLT_CIRCUIT_BREAKER_TIMEOUT, in ticks
  HalfOpenRequests   \* circuitBreakerConfig.halfOpenRequests

ASSUME BreakerAssumption ==
  /\ IsFiniteSet(Calls)
  /\ Threshold \in Nat \ {0}
  /\ Timeout \in Nat \ {0}
  /\ HalfOpenRequests \in Nat \ {0}

VARIABLES
  circuits,  \* circuits[k] is the CircuitStats the Map holds for key k
  status,    \* status[k][c] is what call slot c on key k is doing
  probes     \* history: probes[k] is the set of calls admitted by the
             \* half-open window that k's circuit is in, {} outside of one

breakerVars == <<circuits, status, probes>>

-----------------------------------------------------------------------------
(* State                                                                   *)

CircuitState == {"CLOSED", "OPEN", "HALF_OPEN"}

Unset == -1                     \* a timestamp that is still undefined
Ago   == {Unset} \cup 0..Timeout

CircuitStats ==
  [state            : CircuitState,
   failures         : 0..Threshold,
   openedAgo        : Ago,
   lastFailureAgo   : Ago,
   halfOpenAttempts : Nat]

\* "running": awaiting fn() and holding the circuit of its key.
\* "detached": awaiting fn(), but reset() has deleted the circuit it holds.
\* "rejected": the last call of this slot threw SmartOLTCircuitOpenError.
CallStatus == {"idle", "running", "detached", "rejected"}
InFlight   == {"running", "detached"}

FreshCircuit ==
  [state            |-> "CLOSED",
   failures         |-> 0,
   openedAgo        |-> Unset,
   lastFailureAgo   |-> Unset,
   halfOpenAttempts |-> 0]

Init ==
  /\ circuits = [k \in Keys |-> FreshCircuit]
  /\ status   = [k \in Keys |-> [c \in Calls |-> "idle"]]
  /\ probes   = [k \in Keys |-> {}]

-----------------------------------------------------------------------------
(* Operators on one CircuitStats object                                    *)

\* Mutant: `>` for `>=` in shouldAttemptReset, against an age that stops at Timeout.
ShouldAttemptResetLate(s) == s.openedAgo # Unset /\ s.openedAgo > Timeout

ShouldAttemptReset(s) == s.openedAgo # Unset /\ s.openedAgo >= Timeout

\* Mutant: halfOpenAttempts is not reset on the way into the half-open state.
GatedKeepsAttempts(s) ==
  IF s.state = "OPEN" /\ ShouldAttemptReset(s)
  THEN [s EXCEPT !.state = "HALF_OPEN"]
  ELSE s

\* What execute() has made of the circuit when it decides on admission.
Gated(s) ==
  IF s.state = "OPEN" /\ ShouldAttemptReset(s)
  THEN [s EXCEPT !.state = "HALF_OPEN", !.halfOpenAttempts = 0]
  ELSE s

Admits(s) ==
  \/ s.state = "CLOSED"
  \/ s.state = "HALF_OPEN" /\ s.halfOpenAttempts < HalfOpenRequests

Admitted(s) ==
  IF s.state = "HALF_OPEN"
  THEN [s EXCEPT !.halfOpenAttempts = @ + 1]
  ELSE s

\* Mutant: A success clears the failure count whatever the state is.
OnSuccessAlwaysClears(s) ==
  IF s.state = "HALF_OPEN"
  THEN [s EXCEPT !.state = "CLOSED", !.failures = 0, !.halfOpenAttempts = 0]
  ELSE [s EXCEPT !.failures = 0]

\* Mutant: A success closes the circuit whatever the state is.
OnSuccessAlwaysCloses(s) ==
  [s EXCEPT !.state = "CLOSED", !.failures = 0, !.halfOpenAttempts = 0]

OnSuccess(s) ==
  IF s.state = "HALF_OPEN"
  THEN [s EXCEPT !.state = "CLOSED", !.failures = 0, !.halfOpenAttempts = 0]
  ELSE s

OneMoreFailure(n) == IF n < Threshold THEN n + 1 ELSE n

\* Mutant: A failure only opens a circuit that is not open yet.
OnFailureOpensOnce(s) ==
  LET t == [s EXCEPT !.failures = OneMoreFailure(@), !.lastFailureAgo = 0]
  IN  IF s.state = "HALF_OPEN" \/ (s.state = "CLOSED" /\ t.failures >= Threshold)
      THEN [t EXCEPT !.state = "OPEN", !.openedAgo = 0]
      ELSE t

OnFailure(s) ==
  LET t == [s EXCEPT !.failures = OneMoreFailure(@), !.lastFailureAgo = 0]
  IN  IF s.state = "HALF_OPEN" \/ t.failures >= Threshold
      THEN [t EXCEPT !.state = "OPEN", !.openedAgo = 0]
      ELSE t

OneTickOlder(ago) == IF ago = Unset \/ ago = Timeout THEN ago ELSE ago + 1

Aged(s) == [s EXCEPT !.openedAgo = OneTickOlder(@),
                     !.lastFailureAgo = OneTickOlder(@)]

-----------------------------------------------------------------------------
(* Actions                                                                 *)

\* execute() up to `await fn()`, for a call that the circuit lets through.
Execute(k, c) ==
  LET s == Gated(circuits[k]) IN
  /\ status[k][c] \notin InFlight
  /\ Admits(s)
  /\ circuits' = [circuits EXCEPT ![k] = Admitted(s)]
  /\ status' = [status EXCEPT ![k][c] = "running"]
  /\ probes' = [probes EXCEPT ![k] =
                  IF s.state = "HALF_OPEN" THEN @ \cup {c} ELSE @]

\* execute() for a call that throws SmartOLTCircuitOpenError.
Reject(k, c) ==
  LET s == Gated(circuits[k]) IN
  /\ status[k][c] \notin InFlight
  /\ ~Admits(s)
  /\ circuits' = [circuits EXCEPT ![k] = s]
  /\ status' = [status EXCEPT ![k][c] = "rejected"]
  /\ UNCHANGED probes

\* fn() has settled, which makes `stats` of the circuit the call holds.  The
\* object a detached call holds is in nobody's sight any more.  An outcome
\* applied in a half-open window always ends that window.
Settle(k, c, stats) ==
  /\ status[k][c] \in InFlight
  /\ status' = [status EXCEPT ![k][c] = "idle"]
  /\ IF status[k][c] = "running"
     THEN /\ circuits' = [circuits EXCEPT ![k] = stats]
          /\ probes' = [probes EXCEPT ![k] = {}]
     ELSE UNCHANGED <<circuits, probes>>

Succeed(k, c) == Settle(k, c, OnSuccess(circuits[k]))
Fail(k, c)    == Settle(k, c, OnFailure(circuits[k]))

\* reset(key): deletes the circuit under the calls that hold it.
Reset(k) ==
  /\ circuits' = [circuits EXCEPT ![k] = FreshCircuit]
  /\ status' = [status EXCEPT ![k] =
                  [c \in Calls |-> IF @[c] = "running" THEN "detached"
                                                       ELSE @[c]]]
  /\ probes' = [probes EXCEPT ![k] = {}]

\* Date.now() advances.
Tick ==
  /\ circuits' = [k \in Keys |-> Aged(circuits[k])]
  /\ UNCHANGED <<status, probes>>

Next ==
  \/ \E k \in Keys, c \in Calls :
       Execute(k, c) \/ Reject(k, c) \/ Succeed(k, c) \/ Fail(k, c)
  \/ \E k \in Keys : Reset(k)
  \/ Tick

Spec == Init /\ [][Next]_breakerVars

\* Time passes, and fn() settles: it is an HTTP exchange under the timeout
\* that SmartOLTClient always passes to axios, repeated a bounded number of
\* times.  Nothing obliges a client to send another request.
Fairness ==
  /\ WF_breakerVars(Tick)
  /\ \A k \in Keys, c \in Calls : WF_breakerVars(Succeed(k, c) \/ Fail(k, c))

FairSpec == Spec /\ Fairness

-----------------------------------------------------------------------------
(* Properties                                                              *)

TypeOK ==
  /\ circuits \in [Keys -> CircuitStats]
  /\ status \in [Keys -> [Calls -> CallStatus]]
  /\ probes \in [Keys -> SUBSET Calls]

\* Every half-open attempt that is counted is a call still in flight that
\* was admitted by this very window.  So the counter cannot leak attempts, no
\* more than halfOpenRequests calls test the upstream at once, and a window
\* that refuses callers always has a call whose outcome will end it.
HalfOpenAccounted ==
  \A k \in Keys :
    IF circuits[k].state = "HALF_OPEN"
    THEN /\ circuits[k].halfOpenAttempts = Cardinality(probes[k])
         /\ circuits[k].halfOpenAttempts \in 1..HalfOpenRequests
         /\ \A c \in probes[k] : status[k][c] = "running"
    ELSE probes[k] = {}

\* A circuit that is not closed has kept its failure count at the threshold:
\* whatever calls settle late, in whatever order, nothing lowers the count
\* short of closing the circuit, so each late failure trips it again.
TrippedKeepsCount ==
  \A k \in Keys :
    circuits[k].state # "CLOSED" => circuits[k].failures = Threshold

\* The blocking window of an open circuit is measured from the last failure
\* that any call brought in, also one that settled after the circuit opened:
\* openedAt and lastFailureAt never drift apart while the circuit is open.
OpenWindowFromLastFailure ==
  \A k \in Keys :
    circuits[k].state = "OPEN" =>
      /\ circuits[k].openedAgo # Unset
      /\ circuits[k].openedAgo = circuits[k].lastFailureAgo

\* A circuit that has tripped closes only out of a half-open window that has
\* a probe in flight, or because reset() deletes it.  In particular a call
\* that was admitted before the trip and succeeds during it changes nothing.
ClosesOnlyFromHalfOpen ==
  [][\A k \in Keys :
       circuits[k].state # "CLOSED" /\ circuits'[k].state = "CLOSED" =>
         \/ circuits[k].state = "HALF_OPEN" /\ probes[k] # {}
         \/ Reset(k)]_breakerVars

\* Whatever mix of successes and failures comes in, the circuit never
\* refuses callers for good: again and again it would let one through.
AlwaysAdmitsAgain == \A k \in Keys : []<>Admits(Gated(circuits[k]))

=============================================================================
