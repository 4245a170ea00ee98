------------------------ MODULE SmartOLTClientProofs ------------------------
(***************************************************************************)
(* Theorems of SmartOLTClient and of the circuit breaker that it extends,  *)
(* for every set of keys, every finite set of call slots and every         *)
(* positive number of attempts, threshold, timeout and half-open requests. *)
(*                                                                         *)
(* The breaker's inductive invariant is IInv.  None of its parts is        *)
(* inductive alone: the open window follows the last failure only because  *)
(* a tripped circuit keeps its count at the threshold, and a half-open     *)
(* circuit keeps it only because the one outcome that ends the window      *)
(* resets or re-trips it.  The client's is CInv, at the end of the module. *)
(***************************************************************************)
EXTENDS SmartOLTClient, FiniteSetTheorems, TLAPS

IInv ==
  /\ TypeOK
  /\ HalfOpenAccounted
  /\ TrippedKeepsCount
  /\ OpenWindowFromLastFailure

\* What IInv says of one key: of its circuit s, the set p of its probes and
\* the statuses st of its calls.
CircuitOK(s, p, st) ==
  /\ IF s.state = "HALF_OPEN"
     THEN /\ s.halfOpenAttempts = Cardinality(p)
          /\ s.halfOpenAttempts \in 1..HalfOpenRequests
          /\ \A c \in p : st[c] = "running"
     ELSE p = {}
  /\ s.state # "CLOSED" => s.failures = Threshold
  /\ s.state = "OPEN" => /\ s.openedAgo # Unset
                         /\ s.openedAgo = s.lastFailureAgo

-----------------------------------------------------------------------------
(* What the operators on one circuit return                                *)

\* A circuit that getCircuit() has just made is of the right type.
LEMMA FreshType == FreshCircuit \in CircuitStats
BY BreakerAssumption
   DEF BreakerAssumption, FreshCircuit, CircuitStats, CircuitState, Ago, Unset

\* Replacing one field by a value of the field's type keeps the type.
LEMMA FieldUpdates ==
  ASSUME NEW s \in CircuitStats
  PROVE  /\ \A x \in CircuitState : [s EXCEPT !.state = x] \in CircuitStats
         /\ \A x \in 0..Threshold : [s EXCEPT !.failures = x] \in CircuitStats
         /\ \A x \in Ago : [s EXCEPT !.openedAgo = x] \in CircuitStats
         /\ \A x \in Ago : [s EXCEPT !.lastFailureAgo = x] \in CircuitStats
         /\ \A x \in Nat : [s EXCEPT !.halfOpenAttempts = x] \in CircuitStats
BY DEF CircuitStats

\* Each operator returns a circuit of the right type.
LEMMA OperatorTypes ==
  ASSUME NEW s \in CircuitStats
  PROVE  /\ Gated(s) \in CircuitStats
         /\ Admitted(s) \in CircuitStats
         /\ OnSuccess(s) \in CircuitStats
         /\ OnFailure(s) \in CircuitStats
         /\ Aged(s) \in CircuitStats
<1> USE BreakerAssumption DEF BreakerAssumption
<1>0. /\ 0 \in 0..Threshold /\ 0 \in Ago /\ 0 \in Nat
      /\ {"CLOSED", "OPEN", "HALF_OPEN"} = CircuitState
      /\ s.failures \in 0..Threshold
      /\ s.openedAgo \in Ago /\ s.lastFailureAgo \in Ago
      /\ s.halfOpenAttempts \in Nat
  BY DEF CircuitStats, CircuitState, Ago
<1>1. Gated(s) \in CircuitStats
  BY DEF Gated, CircuitStats, CircuitState
<1>2. Admitted(s) \in CircuitStats
  BY DEF Admitted, CircuitStats
<1>3. OnSuccess(s) \in CircuitStats
  <2> DEFINE u == [s EXCEPT !.state = "CLOSED"]
             v == [u EXCEPT !.failures = 0]
             w == [v EXCEPT !.halfOpenAttempts = 0]
  <2>1. u \in CircuitStats
    BY <1>0, FieldUpdates
  <2>2. v \in CircuitStats
    <3> HIDE DEF u
    <3> QED  BY <2>1, <1>0, FieldUpdates
  <2>3. w \in CircuitStats
    <3> HIDE DEF v
    <3> QED  BY <2>2, <1>0, FieldUpdates
  <2>4. OnSuccess(s) = IF s.state = "HALF_OPEN" THEN w ELSE s
    BY DEF OnSuccess
  <2>5. QED  BY <2>3, <2>4
<1>4. OnFailure(s) \in CircuitStats
  <2> DEFINE n == OneMoreFailure(s.failures)
             u == [s EXCEPT !.failures = n]
             t == [u EXCEPT !.lastFailureAgo = 0]
             v == [t EXCEPT !.state = "OPEN"]
             w == [v EXCEPT !.openedAgo = 0]
  <2>1. n \in 0..Threshold
    BY <1>0 DEF OneMoreFailure
  <2>2. u \in CircuitStats
    <3> HIDE DEF n
    <3> QED  BY <2>1, FieldUpdates
  <2>3. t \in CircuitStats
    <3> HIDE DEF u
    <3> QED  BY <2>2, <1>0, FieldUpdates
  <2>4. v \in CircuitStats
    <3> HIDE DEF t
    <3> QED  BY <2>3, <1>0, FieldUpdates
  <2>5. w \in CircuitStats
    <3> HIDE DEF v
    <3> QED  BY <2>4, <1>0, FieldUpdates
  <2>6. OnFailure(s) = w \/ OnFailure(s) = t
    BY DEF OnFailure
  <2>7. QED  BY <2>3, <2>5, <2>6
<1>5. Aged(s) \in CircuitStats
  <2> DEFINE a == OneTickOlder(s.openedAgo)
             b == OneTickOlder(s.lastFailureAgo)
             u == [s EXCEPT !.openedAgo = a]
             w == [u EXCEPT !.lastFailureAgo = b]
  <2>1. a \in Ago /\ b \in Ago
    BY <1>0 DEF OneTickOlder, Ago, Unset
  <2>2. u \in CircuitStats
    <3> HIDE DEF a
    <3> QED  BY <2>1, FieldUpdates
  <2>3. w \in CircuitStats
    <3> HIDE DEF u, b
    <3> QED  BY <2>1, <2>2, FieldUpdates
  <2>4. Aged(s) = w
    BY DEF Aged
  <2>5. QED  BY <2>3, <2>4
<1>6. QED  BY <1>1, <1>2, <1>3, <1>4, <1>5

-----------------------------------------------------------------------------
(* Type correctness                                                        *)

\* Every step of the breaker keeps every variable in its type.
LEMMA TypePreserved == TypeOK /\ [Next]_breakerVars => TypeOK'
<1> SUFFICES ASSUME TypeOK, [Next]_breakerVars PROVE TypeOK'
  OBVIOUS
<1> USE DEF TypeOK
<1>1. ASSUME NEW k \in Keys, NEW c \in Calls, Execute(k, c) PROVE TypeOK'
  <2>1. Admitted(Gated(circuits[k])) \in CircuitStats
    BY OperatorTypes
  <2>2. QED  BY <1>1, <2>1 DEF Execute, CallStatus
<1>2. ASSUME NEW k \in Keys, NEW c \in Calls, Reject(k, c) PROVE TypeOK'
  <2>1. Gated(circuits[k]) \in CircuitStats
    BY OperatorTypes
  <2>2. QED  BY <1>2, <2>1 DEF Reject, CallStatus
<1>3. ASSUME NEW k \in Keys, NEW c \in Calls, Succeed(k, c) PROVE TypeOK'
  <2>1. OnSuccess(circuits[k]) \in CircuitStats
    BY OperatorTypes
  <2>2. QED  BY <1>3, <2>1 DEF Succeed, Settle, CallStatus
<1>4. ASSUME NEW k \in Keys, NEW c \in Calls, Fail(k, c) PROVE TypeOK'
  <2>1. OnFailure(circuits[k]) \in CircuitStats
    BY OperatorTypes
  <2>2. QED  BY <1>4, <2>1 DEF Fail, Settle, CallStatus
<1>5. ASSUME NEW k \in Keys, Reset(k) PROVE TypeOK'
  BY <1>5, FreshType DEF Reset, CallStatus
<1>6. ASSUME Tick PROVE TypeOK'
  <2>1. \A k \in Keys : Aged(circuits[k]) \in CircuitStats
    BY OperatorTypes
  <2>2. QED  BY <1>6, <2>1 DEF Tick
<1>7. CASE UNCHANGED breakerVars
  BY <1>7 DEF breakerVars
<1>8. QED  BY <1>1, <1>2, <1>3, <1>4, <1>5, <1>6, <1>7 DEF Next

\* The breaker starts in a state of the right type.
LEMMA InitType == Init => TypeOK
BY FreshType DEF Init, TypeOK, CallStatus

\* The state of the circuit breaker is well-typed in every reachable state:
\* in particular an age never passes Timeout and a count never the threshold.
THEOREM TypeCorrect == Spec => []TypeOK
<1>1. Init => TypeOK
  BY InitType
<1>2. TypeOK /\ [Next]_breakerVars => TypeOK'
  BY TypePreserved
<1>3. QED  BY <1>1, <1>2, PTL DEF Spec

-----------------------------------------------------------------------------
(* The inductive invariant, one key at a time                              *)

LEMMA InvByKey ==
  IInv <=> TypeOK /\ \A k \in Keys : CircuitOK(circuits[k], probes[k], status[k])
BY DEF IInv, HalfOpenAccounted, TrippedKeepsCount, OpenWindowFromLastFailure,
       CircuitOK

\* Admitting a call: a new half-open window has this call as its only probe,
\* and a window in progress counts exactly one probe more.
LEMMA AdmissionKeeps ==
  ASSUME NEW s \in CircuitStats, NEW p \in SUBSET Calls,
         NEW st \in [Calls -> CallStatus], NEW c \in Calls,
         CircuitOK(s, p, st), st[c] \notin InFlight, Admits(Gated(s))
  PROVE  CircuitOK(Admitted(Gated(s)),
                   IF Gated(s).state = "HALF_OPEN" THEN p \cup {c} ELSE p,
                   [st EXCEPT ![c] = "running"])
<1> USE BreakerAssumption DEF BreakerAssumption
<1>1. IsFiniteSet(p)
  BY FS_Subset
<1>2. CASE s.state = "CLOSED"
  BY <1>2 DEF CircuitOK, Gated, Admitted, CircuitStats, CircuitState
<1>3. CASE s.state = "HALF_OPEN"
  <2>1. c \notin p
    BY <1>3 DEF CircuitOK, InFlight
  <2>2. Cardinality(p \cup {c}) = Cardinality(p) + 1
    BY <1>1, <2>1, FS_AddElement
  <2>3. Gated(s) = s
    BY <1>3 DEF Gated
  <2>4. Admitted(s) = [s EXCEPT !.halfOpenAttempts = s.halfOpenAttempts + 1]
    BY <1>3 DEF Admitted
  <2>5. s.halfOpenAttempts < HalfOpenRequests
    BY <1>3, <2>3 DEF Admits
  <2>6. \A d \in p \cup {c} : [st EXCEPT ![c] = "running"][d] = "running"
    BY <1>3 DEF CircuitOK
  <2>7. QED
    BY <1>3, <2>2, <2>3, <2>4, <2>5, <2>6
       DEF CircuitOK, CircuitStats, CircuitState
<1>4. CASE s.state = "OPEN"
  <2>1. p = {}
    BY <1>4 DEF CircuitOK
  <2>2. Cardinality({c}) = 1
    BY FS_Singleton
  <2>3. ShouldAttemptReset(s)
    BY <1>4 DEF Admits, Gated
  <2>4. Gated(s) = [s EXCEPT !.state = "HALF_OPEN", !.halfOpenAttempts = 0]
    BY <1>4, <2>3 DEF Gated
  <2>5. /\ Gated(s).state = "HALF_OPEN"
        /\ Admitted(Gated(s)).state = "HALF_OPEN"
        /\ Admitted(Gated(s)).halfOpenAttempts = 1
        /\ Admitted(Gated(s)).failures = s.failures
    BY <2>4 DEF Admitted, CircuitStats
  <2>6. p \cup {c} = {c}
    BY <2>1
  <2>7. QED
    BY <1>4, <2>2, <2>5, <2>6 DEF CircuitOK
<1>5. QED  BY <1>2, <1>3, <1>4 DEF CircuitStats, CircuitState

\* Refusing a call leaves the circuit as it is: with at least one half-open
\* request, a circuit that has just become half-open never refuses.
LEMMA RejectionKeeps ==
  ASSUME NEW s \in CircuitStats, NEW p \in SUBSET Calls,
         NEW st \in [Calls -> CallStatus], NEW c \in Calls,
         CircuitOK(s, p, st), st[c] \notin InFlight, ~Admits(Gated(s))
  PROVE  CircuitOK(Gated(s), p, [st EXCEPT ![c] = "rejected"])
<1> USE BreakerAssumption DEF BreakerAssumption
<1>1. Gated(s) = s
  BY DEF Gated, Admits, CircuitStats
<1>2. \A d \in p : d # c \/ s.state # "HALF_OPEN"
  BY DEF CircuitOK, InFlight
<1>3. QED  BY <1>1, <1>2 DEF CircuitOK

\* Applying an outcome: it ends a half-open window either way, and a failure
\* brought to a tripped circuit stamps both timestamps.
LEMMA SettlingKeeps ==
  ASSUME NEW s \in CircuitStats, NEW p \in SUBSET Calls,
         NEW st \in [Calls -> CallStatus], NEW c \in Calls,
         CircuitOK(s, p, st), st[c] \in InFlight
  PROVE  LET st2 == [st EXCEPT ![c] = "idle"]
         IN  /\ CircuitOK(OnSuccess(s), {}, st2)
             /\ CircuitOK(OnFailure(s), {}, st2)
             /\ st[c] # "running" => CircuitOK(s, p, st2)
<1> DEFINE st2 == [st EXCEPT ![c] = "idle"]
<1> USE BreakerAssumption DEF BreakerAssumption
<1>1. CircuitOK(OnSuccess(s), {}, st2)
  BY DEF CircuitOK, OnSuccess, CircuitStats, CircuitState
<1>2. CircuitOK(OnFailure(s), {}, st2)
  <2> DEFINE n == OneMoreFailure(s.failures)
  <2>1. n \in 0..Threshold /\ (s.failures = Threshold => n = Threshold)
    BY DEF OneMoreFailure, CircuitStats
  <2>2. /\ OnFailure(s).failures = n
        /\ OnFailure(s).lastFailureAgo = 0
        /\ IF s.state = "HALF_OPEN" \/ n >= Threshold
           THEN OnFailure(s).state = "OPEN" /\ OnFailure(s).openedAgo = 0
           ELSE OnFailure(s).state = s.state
    BY DEF OnFailure, CircuitStats
  <2>3. s.state \in {"OPEN", "HALF_OPEN"} => s.failures = Threshold
    BY DEF CircuitOK
  <2> HIDE DEF n
  <2>4. QED
    BY <2>1, <2>2, <2>3 DEF CircuitOK, CircuitStats, CircuitState, Unset
<1>3. st[c] # "running" => CircuitOK(s, p, st2)
  BY DEF CircuitOK
<1>4. QED  BY <1>1, <1>2, <1>3

\* A fresh circuit, and a circuit a tick later, are in order.
LEMMA ResetAndTickKeep ==
  ASSUME NEW s \in CircuitStats, NEW p \in SUBSET Calls,
         NEW st, CircuitOK(s, p, st)
  PROVE  /\ CircuitOK(Aged(s), p, st)
         /\ \A any : CircuitOK(FreshCircuit, {}, any)
<1>1. CircuitOK(Aged(s), p, st)
  <2>1. /\ Aged(s).state = s.state
        /\ Aged(s).failures = s.failures
        /\ Aged(s).halfOpenAttempts = s.halfOpenAttempts
        /\ Aged(s).openedAgo = OneTickOlder(s.openedAgo)
        /\ Aged(s).lastFailureAgo = OneTickOlder(s.lastFailureAgo)
    BY DEF Aged, CircuitStats
  <2>2. s.openedAgo # Unset => OneTickOlder(s.openedAgo) # Unset
    BY DEF OneTickOlder, CircuitStats, Ago, Unset
  <2>3. QED  BY <2>1, <2>2 DEF CircuitOK
<1>2. \A any : CircuitOK(FreshCircuit, {}, any)
  BY DEF CircuitOK, FreshCircuit
<1>3. QED  BY <1>1, <1>2

-----------------------------------------------------------------------------
(* The invariant is inductive, so it holds; and so does what it rests on   *)

\* Every step of the breaker keeps every key's circuit in order.
LEMMA InvPreserved == IInv /\ [Next]_breakerVars => IInv'
<1> SUFFICES ASSUME IInv, [Next]_breakerVars PROVE IInv'
  OBVIOUS
<1>1. TypeOK /\ TypeOK'
  BY TypePreserved DEF IInv
<1>2. \A k \in Keys : /\ circuits[k] \in CircuitStats
                      /\ probes[k] \in SUBSET Calls
                      /\ status[k] \in [Calls -> CallStatus]
                      /\ CircuitOK(circuits[k], probes[k], status[k])
  BY InvByKey, <1>1 DEF TypeOK
<1> DEFINE KeyOK(j) == CircuitOK(circuits'[j], probes'[j], status'[j])
<1>3. SUFFICES \A j \in Keys : KeyOK(j)
  <2>1. IInv' <=> TypeOK' /\ \A j \in Keys : KeyOK(j)
    BY DEF IInv, HalfOpenAccounted, TrippedKeepsCount,
           OpenWindowFromLastFailure, CircuitOK
  <2>2. QED  BY <1>1, <2>1
<1>4. ASSUME NEW k \in Keys, NEW c \in Calls, Execute(k, c), NEW j \in Keys
      PROVE  KeyOK(j)
  <2> DEFINE s == circuits[k]
  <2>1. CASE j = k
    <3>1. CircuitOK(Admitted(Gated(s)),
                    IF Gated(s).state = "HALF_OPEN" THEN probes[k] \cup {c}
                                                    ELSE probes[k],
                    [status[k] EXCEPT ![c] = "running"])
      BY <1>2, <1>4, AdmissionKeeps DEF Execute
    <3>2. /\ circuits'[k] = Admitted(Gated(s))
          /\ probes'[k] = IF Gated(s).state = "HALF_OPEN"
                          THEN probes[k] \cup {c} ELSE probes[k]
          /\ status'[k] = [status[k] EXCEPT ![c] = "running"]
      BY <1>1, <1>4 DEF Execute, TypeOK
    <3>3. QED  BY <2>1, <3>1, <3>2
  <2>2. CASE j # k
    <3>1. /\ circuits'[j] = circuits[j] /\ probes'[j] = probes[j]
          /\ status'[j] = status[j]
      BY <1>1, <1>4, <2>2 DEF Execute, TypeOK
    <3>2. QED  BY <1>2, <3>1
  <2>3. QED  BY <2>1, <2>2
<1>5. ASSUME NEW k \in Keys, NEW c \in Calls, Reject(k, c), NEW j \in Keys
      PROVE  KeyOK(j)
  <2> DEFINE s == circuits[k]
  <2>1. CASE j = k
    <3>1. CircuitOK(Gated(s), probes[k], [status[k] EXCEPT ![c] = "rejected"])
      BY <1>2, <1>5, RejectionKeeps DEF Reject
    <3>2. /\ circuits'[k] = Gated(s) /\ probes'[k] = probes[k]
          /\ status'[k] = [status[k] EXCEPT ![c] = "rejected"]
      BY <1>1, <1>5 DEF Reject, TypeOK
    <3>3. QED  BY <2>1, <3>1, <3>2
  <2>2. CASE j # k
    <3>1. /\ circuits'[j] = circuits[j] /\ probes'[j] = probes[j]
          /\ status'[j] = status[j]
      BY <1>1, <1>5, <2>2 DEF Reject, TypeOK
    <3>2. QED  BY <1>2, <3>1
  <2>3. QED  BY <2>1, <2>2
<1>6. ASSUME NEW k \in Keys, NEW c \in Calls, NEW j \in Keys, NEW stats,
             stats \in {OnSuccess(circuits[k]), OnFailure(circuits[k])},
             Settle(k, c, stats)
      PROVE  KeyOK(j)
  <2> DEFINE st2 == [status[k] EXCEPT ![c] = "idle"]
  <2>1. CASE j = k
    <3>1. /\ CircuitOK(stats, {}, st2)
          /\ status[k][c] # "running" => CircuitOK(circuits[k], probes[k], st2)
      BY <1>2, <1>6, SettlingKeeps DEF Settle
    <3>2. /\ status'[k] = st2
          /\ status[k][c] = "running" => circuits'[k] = stats /\ probes'[k] = {}
          /\ status[k][c] # "running" =>
               circuits'[k] = circuits[k] /\ probes'[k] = probes[k]
      BY <1>1, <1>6 DEF Settle, TypeOK
    <3>3. QED  BY <2>1, <3>1, <3>2
  <2>2. CASE j # k
    <3>1. /\ circuits'[j] = circuits[j] /\ probes'[j] = probes[j]
          /\ status'[j] = status[j]
      BY <1>1, <1>6, <2>2 DEF Settle, TypeOK
    <3>2. QED  BY <1>2, <3>1
  <2>3. QED  BY <2>1, <2>2
<1>7. ASSUME NEW k \in Keys, Reset(k), NEW j \in Keys
      PROVE  KeyOK(j)
  <2>1. CASE j = k
    <3>1. circuits'[k] = FreshCircuit /\ probes'[k] = {}
      BY <1>1, <1>7 DEF Reset, TypeOK
    <3>2. CircuitOK(FreshCircuit, {}, status'[k])
      BY <1>2, ResetAndTickKeep
    <3>3. QED  BY <2>1, <3>1, <3>2
  <2>2. CASE j # k
    <3>1. /\ circuits'[j] = circuits[j] /\ probes'[j] = probes[j]
          /\ status'[j] = status[j]
      BY <1>1, <1>7, <2>2 DEF Reset, TypeOK
    <3>2. QED  BY <1>2, <3>1
  <2>3. QED  BY <2>1, <2>2
<1>8. ASSUME Tick, NEW j \in Keys PROVE KeyOK(j)
  <2>1. /\ circuits'[j] = Aged(circuits[j]) /\ probes'[j] = probes[j]
        /\ status'[j] = status[j]
    BY <1>8 DEF Tick
  <2>2. CircuitOK(Aged(circuits[j]), probes[j], status[j])
    BY <1>2, ResetAndTickKeep
  <2>3. QED  BY <2>1, <2>2
<1>9. ASSUME UNCHANGED breakerVars, NEW j \in Keys PROVE KeyOK(j)
  BY <1>2, <1>9 DEF breakerVars
<1> HIDE DEF KeyOK
<1>10. QED
  BY <1>4, <1>5, <1>6, <1>7, <1>8, <1>9 DEF Next, Succeed, Fail

\* The inductive invariant holds in every reachable state.
THEOREM InvHolds == Spec => []IInv
<1>1. Init => IInv
  <2>1. ASSUME Init PROVE TypeOK
    BY <2>1, InitType
  <2>2. ASSUME Init, NEW k \in Keys
        PROVE  CircuitOK(circuits[k], probes[k], status[k])
    BY <2>2 DEF Init, CircuitOK, FreshCircuit
  <2>3. QED  BY <2>1, <2>2, InvByKey
<1>2. IInv /\ [Next]_breakerVars => IInv'
  BY InvPreserved
<1>3. QED  BY <1>1, <1>2, PTL DEF Spec

\* Half-open attempts are exactly the probes in flight, and there are at most
\* halfOpenRequests of them: no interleaving of execute() calls, late
\* outcomes and resets leaks an attempt or lets one call too many through.
THEOREM HalfOpenAccountedHolds == Spec => []HalfOpenAccounted
<1>1. IInv => HalfOpenAccounted
  BY DEF IInv
<1>2. QED  BY <1>1, InvHolds, PTL

\* A circuit that is not closed has its failure count at the threshold.
THEOREM TrippedKeepsCountHolds == Spec => []TrippedKeepsCount
<1>1. IInv => TrippedKeepsCount
  BY DEF IInv
<1>2. QED  BY <1>1, InvHolds, PTL

\* An open circuit blocks for the timeout counted from the last failure that
\* any call brought in.
THEOREM OpenWindowHolds == Spec => []OpenWindowFromLastFailure
<1>1. IInv => OpenWindowFromLastFailure
  BY DEF IInv
<1>2. QED  BY <1>1, InvHolds, PTL

\* A tripped circuit closes only out of a half-open window with a probe in
\* flight, or by reset().
THEOREM ClosesOnlyFromHalfOpenHolds == Spec => ClosesOnlyFromHalfOpen
<1> DEFINE A == \A k \in Keys :
                  circuits[k].state # "CLOSED" /\ circuits'[k].state = "CLOSED"
                    => \/ circuits[k].state = "HALF_OPEN" /\ probes[k] # {}
                       \/ Reset(k)
<1>1. IInv /\ [Next]_breakerVars => [A]_breakerVars
  <2> SUFFICES ASSUME IInv, Next, NEW k \in Keys,
                      circuits[k].state # "CLOSED",
                      circuits'[k].state = "CLOSED", ~Reset(k)
               PROVE  circuits[k].state = "HALF_OPEN" /\ probes[k] # {}
    OBVIOUS
  <2> DEFINE s == circuits[k]
  <2>1. s \in CircuitStats /\ CircuitOK(s, probes[k], status[k])
    BY InvByKey DEF IInv, TypeOK
  <2>2. /\ Gated(s).state # "CLOSED" /\ Admitted(Gated(s)).state # "CLOSED"
        /\ OnFailure(s).state # "CLOSED" /\ Aged(s).state # "CLOSED"
        /\ OnSuccess(s).state = "CLOSED" => s.state = "HALF_OPEN"
    <3>1. Gated(s).state # "CLOSED" /\ Gated(s) \in CircuitStats
      BY <2>1, OperatorTypes DEF Gated, CircuitStats
    <3>2. Admitted(Gated(s)).state # "CLOSED"
      BY <3>1 DEF Admitted, CircuitStats
    <3>3. OnFailure(s).state # "CLOSED"
      BY <2>1 DEF OnFailure, CircuitStats
    <3>4. Aged(s).state # "CLOSED"
      BY <2>1 DEF Aged, CircuitStats
    <3>5. OnSuccess(s).state = "CLOSED" => s.state = "HALF_OPEN"
      BY <2>1 DEF OnSuccess
    <3>6. QED  BY <3>1, <3>2, <3>3, <3>4, <3>5
  <2>3. \/ circuits'[k] = s
        \/ circuits'[k] \in {Gated(s), Admitted(Gated(s)), OnSuccess(s),
                             OnFailure(s), Aged(s)}
    BY DEF Next, Execute, Reject, Succeed, Fail, Settle, Reset, Tick, IInv,
           TypeOK
  <2>4. s.state = "HALF_OPEN"
    BY <2>2, <2>3
  <2>5. s.halfOpenAttempts # 0 /\ s.halfOpenAttempts = Cardinality(probes[k])
    BY <2>1, <2>4, BreakerAssumption DEF CircuitOK, BreakerAssumption
  <2>6. probes[k] # {}
    BY <2>5, FS_EmptySet
  <2>7. QED  BY <2>4, <2>6
<1>2. QED
  BY <1>1, InvHolds, PTL DEF Spec, ClosesOnlyFromHalfOpen

-----------------------------------------------------------------------------
(***************************************************************************)
(* The client.  What may still be sent behind an open circuit is counted   *)
(* by the set Remaining of pairs <<call, number of a later attempt>>:      *)
(* every request that is sent takes one pair out of it, and when the       *)
(* circuit opens, the call whose failure opens it has no pair left.        *)
(***************************************************************************)

\* The attempts that the calls in progress, cs, have left.
Remaining(cs) ==
  {p \in Calls \X (2..RetryAttempts) :
     cs[p[1]].phase \in Busy /\ cs[p[1]].attempt < p[2]}

Bound == (Cardinality(Calls) - 1) * (RetryAttempts - 1)

\* Attempts are counted from 1; a pause is followed by an attempt, and a
\* request is given up after the last.
AttemptOK(v) ==
  /\ v.phase \in Busy => v.attempt >= 1
  /\ v.phase = "backoff" => v.attempt < RetryAttempts
  /\ v.phase = "threw" => v.attempt = RetryAttempts

LeakOK(s, n, cs) ==
  IF s.state = "OPEN" THEN n + Cardinality(Remaining(cs)) <= Bound ELSE n = 0

CInv ==
  /\ ClientTypeOK
  /\ \A k \in Keys, c \in Calls : AttemptOK(call[k][c])
  /\ \A k \in Keys : LeakOK(circuits[k], leaked[k], call[k])

-----------------------------------------------------------------------------
(* The breaker's part of each step                                         *)

\* Every step of the client is a step of the breaker, or leaves it alone.
LEMMA ClientStepsAreBreakerSteps ==
  [CNext]_clientVars => [Next]_breakerVars
BY DEF CNext, clientVars, Request, Refused, HttpOk, HttpError, Resend, CReset,
       CTick, Next

\* Remaining is finite, and smaller if there is less to do.
LEMMA RemainingFinite ==
  ASSUME NEW cs
  PROVE  /\ IsFiniteSet(Remaining(cs))
         /\ Cardinality(Remaining(cs)) \in Nat
<1>1. IsFiniteSet(Calls \X (2..RetryAttempts))
  <2>1. IsFiniteSet(2..RetryAttempts)
    BY FS_Interval, RetryAssumption DEF RetryAssumption
  <2> QED  BY <2>1, FS_Product, BreakerAssumption DEF BreakerAssumption
<1>2. Remaining(cs) \in SUBSET (Calls \X (2..RetryAttempts))
  BY DEF Remaining
<1>3. IsFiniteSet(Remaining(cs))
  BY <1>1, <1>2, FS_Subset
<1> QED  BY <1>3, FS_CardinalityType

\* The bound is a number of requests.
LEMMA BoundType == Bound \in Nat
<1>1. Cardinality(Calls) \in Nat /\ Cardinality(Calls) # 0
  BY FS_CardinalityType, FS_EmptySet, BreakerAssumption, RetryAssumption
     DEF BreakerAssumption, RetryAssumption
<1>2. Cardinality(Calls) - 1 \in Nat /\ RetryAttempts - 1 \in Nat
  BY <1>1, RetryAssumption DEF RetryAssumption
<1>3. \A m, n \in Nat : m * n \in Nat
  OBVIOUS
<1> QED  BY <1>2, <1>3 DEF Bound

\* With one call at rest, the others have no more left than the bound.
LEMMA OneAtRest ==
  ASSUME NEW cs, NEW c \in Calls, cs[c].phase \notin Busy
  PROVE  Cardinality(Remaining(cs)) <= Bound
<1> DEFINE A == Calls \ {c}
           B == 2..RetryAttempts
<1>1. IsFiniteSet(A) /\ Cardinality(A) = Cardinality(Calls) - 1
  BY FS_RemoveElement, BreakerAssumption DEF BreakerAssumption
<1>2. IsFiniteSet(B) /\ Cardinality(B) = RetryAttempts - 1
  BY FS_Interval, RetryAssumption DEF RetryAssumption
<1>3. Remaining(cs) \in SUBSET (A \X B)
  BY DEF Remaining
<1> HIDE DEF A, B
<1>4. IsFiniteSet(A \X B) /\ Cardinality(A \X B) = Bound
  BY <1>1, <1>2, FS_Product DEF Bound
<1> QED  BY <1>3, <1>4, FS_Subset

\* Nothing more is left if every busy call was busy before, and as far.
LEMMA NothingMoreLeft ==
  ASSUME NEW cs, NEW ds,
         \A c \in Calls : ds[c].phase \in Busy =>
                            cs[c].phase \in Busy /\ cs[c].attempt = ds[c].attempt
  PROVE  Cardinality(Remaining(ds)) <= Cardinality(Remaining(cs))
<1>1. Remaining(ds) \in SUBSET Remaining(cs)
  BY DEF Remaining
<1> QED  BY <1>1, RemainingFinite, FS_Subset

\* Sending the next attempt takes one of those that are left.
LEMMA OneLessLeft ==
  ASSUME NEW cs \in [Calls -> CallState], NEW c \in Calls,
         cs[c].phase = "backoff", AttemptOK(cs[c])
  PROVE  Cardinality(Remaining([cs EXCEPT ![c] =
                       [phase |-> "http", attempt |-> cs[c].attempt + 1]]))
           = Cardinality(Remaining(cs)) - 1
<1> DEFINE n == cs[c].attempt + 1
           v == [phase |-> "http", attempt |-> n]
           ds == [cs EXCEPT ![c] = v]
<1>1. n \in 2..RetryAttempts /\ cs[c].attempt \in Nat
  BY RetryAssumption DEF CallState, AttemptOK, Busy, RetryAssumption
<1>2. <<c, n>> \in Remaining(cs)
  BY <1>1 DEF Remaining, Busy
<1>3. /\ ds[c].phase = "http" /\ ds[c].attempt = n
      /\ \A d \in Calls : d # c => ds[d] = cs[d]
  OBVIOUS
<1>4. Remaining(ds) = Remaining(cs) \ {<<c, n>>}
  <2> HIDE DEF ds, v
  <2>1. ASSUME NEW p \in Calls \X (2..RetryAttempts)
        PROVE  p \in Remaining(ds) <=> p \in Remaining(cs) /\ p # <<c, n>>
    <3>1. p = <<p[1], p[2]>> /\ p[1] \in Calls /\ p[2] \in 2..RetryAttempts
      OBVIOUS
    <3>2. CASE p[1] = c
      <4>1. p \in Remaining(ds) <=> n < p[2]
        BY <1>3, <3>2 DEF Remaining, Busy
      <4>2. p \in Remaining(cs) <=> cs[c].attempt < p[2]
        BY <3>2 DEF Remaining, Busy
      <4>3. p = <<c, n>> <=> p[2] = n
        BY <3>1, <3>2
      <4> QED  BY <1>1, <3>1, <4>1, <4>2, <4>3
    <3>3. CASE p[1] # c
      BY <1>3, <3>1, <3>3 DEF Remaining
    <3> QED  BY <3>2, <3>3
  <2> QED  BY <2>1 DEF Remaining
<1> HIDE DEF ds
<1>5. Cardinality(Remaining(ds)) = Cardinality(Remaining(cs)) - 1
  <2> DEFINE R == Remaining(cs)
             x == <<c, n>>
  <2>1. IsFiniteSet(R) /\ x \in R
    BY <1>2, RemainingFinite
  <2>2. Remaining(ds) = R \ {x}
    BY <1>4
  <2> HIDE DEF R, x
  <2>3. Cardinality(R \ {x}) = Cardinality(R) - 1
    BY <2>1, FS_RemoveElement
  <2> QED  BY <2>2, <2>3 DEF R
<1> QED  BY <1>5 DEF ds

-----------------------------------------------------------------------------
(* What the client's steps do to a circuit                                 *)

\* A circuit opens by a failure only, and an open one that admits a call
\* is open no longer.
LEMMA WhoOpens ==
  ASSUME NEW s \in CircuitStats
  PROVE  /\ Admits(Gated(s)) => Admitted(Gated(s)).state # "OPEN"
         /\ Gated(s).state = "OPEN" => s.state = "OPEN"
         /\ OnSuccess(s).state = "OPEN" => s.state = "OPEN"
         /\ Aged(s).state = s.state
         /\ FreshCircuit.state # "OPEN"
<1>1. Gated(s) \in CircuitStats
  BY OperatorTypes
<1>2. Admits(Gated(s)) => Admitted(Gated(s)).state # "OPEN"
  BY <1>1 DEF Admits, Admitted, CircuitStats
<1>3. Gated(s).state = "OPEN" => s.state = "OPEN"
  BY DEF Gated
<1>4. OnSuccess(s).state = "OPEN" => s.state = "OPEN"
  BY DEF OnSuccess
<1>5. Aged(s).state = s.state
  BY DEF Aged, CircuitStats
<1> QED  BY <1>2, <1>3, <1>4, <1>5 DEF FreshCircuit

\* The leak on one key after a step that sends n requests there.
LEMMA LeakStep ==
  ASSUME NEW s, NEW t, NEW cs, NEW ds, NEW old \in Nat, NEW n \in {0, 1},
         LeakOK(s, old, cs),
         s.state = "OPEN" /\ t.state = "OPEN" =>
           Cardinality(Remaining(ds)) + n <= Cardinality(Remaining(cs)),
         s.state # "OPEN" /\ t.state = "OPEN" =>
           \E c \in Calls : ds[c].phase \notin Busy
  PROVE  /\ LeakOK(t, IF s.state = "OPEN" /\ t.state = "OPEN" THEN old + n ELSE 0, ds)
         /\ (IF s.state = "OPEN" /\ t.state = "OPEN" THEN old + n ELSE 0) \in Nat
<1>1. /\ Cardinality(Remaining(cs)) \in Nat
      /\ Cardinality(Remaining(ds)) \in Nat
      /\ Bound \in Nat
  BY RemainingFinite, BoundType
<1>2. CASE t.state # "OPEN"
  BY <1>2 DEF LeakOK
<1>3. CASE t.state = "OPEN" /\ s.state = "OPEN"
  BY <1>1, <1>3 DEF LeakOK
<1>4. CASE t.state = "OPEN" /\ s.state # "OPEN"
  <2>1. Cardinality(Remaining(ds)) <= Bound
    BY <1>4, OneAtRest
  <2> QED  BY <1>1, <1>4, <2>1 DEF LeakOK
<1> QED  BY <1>2, <1>3, <1>4

\* A step of call c on key k that sends n requests.
LEMMA CallStep ==
  ASSUME CInv, TypeOK', NEW k \in Keys, NEW c \in Calls, NEW n \in {0, 1},
         NEW v \in CallState, AttemptOK(v),
         call' = [call EXCEPT ![k] = [@ EXCEPT ![c] = v]],
         LeakedAfter(k, n),
         \A j \in Keys : j # k => circuits'[j] = circuits[j] /\ status'[j] = status[j],
         \A d \in Calls : d # c => status'[k][d] = status[k][d],
         status'[k][c] \in InFlight <=> v.phase \in Busy,
         circuits[k].state = "OPEN" /\ circuits'[k].state = "OPEN" =>
           Cardinality(Remaining([call[k] EXCEPT ![c] = v])) + n
             <= Cardinality(Remaining(call[k])),
         circuits[k].state # "OPEN" /\ circuits'[k].state = "OPEN" =>
           v.phase \notin Busy
  PROVE  CInv'
<1> DEFINE ds == [call[k] EXCEPT ![c] = v]
<1>1. /\ call \in [Keys -> [Calls -> CallState]]
      /\ leaked \in [Keys -> Nat]
      /\ \A j \in Keys : LeakOK(circuits[j], leaked[j], call[j])
      /\ \A j \in Keys, d \in Calls : AttemptOK(call[j][d])
      /\ \A j \in Keys, d \in Calls :
           status[j][d] \in InFlight <=> call[j][d].phase \in Busy
  BY DEF CInv, ClientTypeOK
<1>2. /\ call'[k] = ds /\ ds \in [Calls -> CallState]
      /\ \A j \in Keys : j # k => call'[j] = call[j]
      /\ call' \in [Keys -> [Calls -> CallState]]
  BY <1>1
<1>3. ds[c] = v /\ \A d \in Calls : d # c => ds[d] = call[k][d]
  BY <1>1
<1> HIDE DEF ds
<1>4. /\ \A j \in Keys : j # k => leaked'[j] = leaked[j]
      /\ leaked'[k] = IF circuits[k].state = "OPEN" /\ circuits'[k].state = "OPEN"
                      THEN leaked[k] + n ELSE 0
  BY <1>1 DEF LeakedAfter
<1>5. LeakOK(circuits'[k], leaked'[k], ds) /\ leaked'[k] \in Nat
  <2> DEFINE s == circuits[k]
             t == circuits'[k]
             old == leaked[k]
             cs == call[k]
  <2>1. old \in Nat /\ LeakOK(s, old, cs)
    BY <1>1
  <2>2. s.state = "OPEN" /\ t.state = "OPEN" =>
          Cardinality(Remaining(ds)) + n <= Cardinality(Remaining(cs))
    BY DEF ds
  <2>3. s.state # "OPEN" /\ t.state = "OPEN" =>
          \E d \in Calls : ds[d].phase \notin Busy
    BY <1>3
  <2>4. leaked'[k] = IF s.state = "OPEN" /\ t.state = "OPEN" THEN old + n ELSE 0
    BY <1>4
  <2> HIDE DEF s, t, old, cs
  <2>5. /\ LeakOK(t, IF s.state = "OPEN" /\ t.state = "OPEN" THEN old + n ELSE 0, ds)
        /\ (IF s.state = "OPEN" /\ t.state = "OPEN" THEN old + n ELSE 0) \in Nat
    BY <2>1, <2>2, <2>3, LeakStep
  <2> QED  BY <2>4, <2>5 DEF t
<1>6. leaked' \in [Keys -> Nat]
  BY <1>1, <1>5 DEF LeakedAfter
<1>7. \A j \in Keys, d \in Calls : AttemptOK(call'[j][d])
  BY <1>1, <1>2, <1>3
<1>8. \A j \in Keys : LeakOK(circuits'[j], leaked'[j], call'[j])
  BY <1>1, <1>2, <1>4, <1>5
<1>9. \A j \in Keys, d \in Calls :
        status'[j][d] \in InFlight <=> call'[j][d].phase \in Busy
  BY <1>1, <1>2, <1>3
<1>10. ClientTypeOK'
  BY <1>2, <1>6, <1>9 DEF ClientTypeOK
<1> QED  BY <1>7, <1>8, <1>10 DEF CInv, AttemptOK, LeakOK, Remaining

\* A call that is not in progress before or after a step has nothing left, and
\* one that goes on with the same attempt has no more left than before.
LEMMA SameOrLess ==
  ASSUME NEW cs \in [Calls -> CallState], NEW c \in Calls, NEW v \in CallState,
         v.phase \in Busy => cs[c].phase \in Busy /\ cs[c].attempt = v.attempt
  PROVE  /\ Cardinality(Remaining([cs EXCEPT ![c] = v])) + 0
              <= Cardinality(Remaining(cs))
<1> DEFINE ds == [cs EXCEPT ![c] = v]
<1>1. \A d \in Calls : ds[d].phase \in Busy =>
                         cs[d].phase \in Busy /\ cs[d].attempt = ds[d].attempt
  OBVIOUS
<1> HIDE DEF ds
<1>2. Cardinality(Remaining(ds)) <= Cardinality(Remaining(cs))
  BY <1>1, NothingMoreLeft
<1>3. Cardinality(Remaining(ds)) \in Nat
  BY RemainingFinite
<1> QED  BY <1>2, <1>3 DEF ds

\* Types of what the lemmas below speak of.
LEMMA Shapes ==
  ASSUME CInv, NEW k \in Keys, NEW c \in Calls
  PROVE  /\ TypeOK /\ circuits[k] \in CircuitStats
         /\ call[k] \in [Calls -> CallState] /\ call[k][c] \in CallState
         /\ call[k][c].phase \in Phase /\ call[k][c].attempt \in 0..RetryAttempts
         /\ AttemptOK(call[k][c])
         /\ status[k][c] \in InFlight <=> call[k][c].phase \in Busy
         /\ \A ph \in Phase : /\ [call[k][c] EXCEPT !.phase = ph] \in CallState
                              /\ [call[k][c] EXCEPT !.phase = ph].phase = ph
                              /\ [call[k][c] EXCEPT !.phase = ph].attempt = call[k][c].attempt
<1>1. /\ TypeOK /\ circuits[k] \in CircuitStats
      /\ call[k] \in [Calls -> CallState] /\ call[k][c] \in CallState
      /\ AttemptOK(call[k][c])
      /\ status[k][c] \in InFlight <=> call[k][c].phase \in Busy
  BY DEF CInv, ClientTypeOK, TypeOK
<1> QED  BY <1>1 DEF CallState

\* The first request of a call is sent through a circuit that is not open.
LEMMA RequestOK ==
  ASSUME CInv, TypeOK', NEW k \in Keys, NEW c \in Calls, Request(k, c)
  PROVE  CInv'
<1> DEFINE v == [phase |-> "http", attempt |-> 1]
<1>1. v \in CallState /\ AttemptOK(v) /\ v.phase \in Busy
  BY RetryAssumption DEF RetryAssumption, CallState, Phase, Busy, AttemptOK
<1>2. TypeOK /\ circuits[k] \in CircuitStats
  BY Shapes
<1>3. circuits'[k].state # "OPEN"
  BY <1>2, WhoOpens DEF Request, Execute, TypeOK
<1>4. /\ \A j \in Keys : j # k => circuits'[j] = circuits[j] /\ status'[j] = status[j]
      /\ \A d \in Calls : d # c => status'[k][d] = status[k][d]
      /\ status'[k][c] \in InFlight
  BY <1>2 DEF Request, Execute, TypeOK, InFlight
<1>5. call' = [call EXCEPT ![k] = [@ EXCEPT ![c] = v]] /\ LeakedAfter(k, 1)
  BY DEF Request
<1> HIDE DEF v
<1> QED  BY <1>1, <1>3, <1>4, <1>5, CallStep

\* A refused call leaves the circuit, and what the others have left, alone.
LEMMA RefusedOK ==
  ASSUME CInv, TypeOK', NEW k \in Keys, NEW c \in Calls, Refused(k, c)
  PROVE  CInv'
<1> DEFINE v == [phase |-> "refused", attempt |-> 0]
<1>1. v \in CallState /\ AttemptOK(v) /\ v.phase \notin Busy
  BY RetryAssumption DEF RetryAssumption, CallState, Phase, Busy, AttemptOK
<1>2. TypeOK /\ call[k] \in [Calls -> CallState]
  BY Shapes
<1>4. /\ \A j \in Keys : j # k => circuits'[j] = circuits[j] /\ status'[j] = status[j]
      /\ \A d \in Calls : d # c => status'[k][d] = status[k][d]
      /\ status'[k][c] \notin InFlight
  BY <1>2 DEF Refused, Reject, TypeOK, InFlight
<1>5. call' = [call EXCEPT ![k] = [@ EXCEPT ![c] = v]] /\ LeakedAfter(k, 0)
  BY DEF Refused
<1> HIDE DEF v
<1>6. Cardinality(Remaining([call[k] EXCEPT ![c] = v])) + 0
        <= Cardinality(Remaining(call[k]))
  BY <1>1, <1>2, SameOrLess
<1> QED  BY <1>1, <1>4, <1>5, <1>6, CallStep

\* A call that settles, well or not, is at rest.
LEMMA SettledOK ==
  ASSUME CInv, TypeOK', NEW k \in Keys, NEW c \in Calls,
         NEW ph \in {"returned", "threw"},
         Succeed(k, c) \/ Fail(k, c),
         ph = "threw" => call[k][c].attempt = RetryAttempts,
         call' = [call EXCEPT ![k][c].phase = ph], LeakedAfter(k, 0)
  PROVE  CInv'
<1> DEFINE v == [call[k][c] EXCEPT !.phase = ph]
<1>1. v \in CallState /\ AttemptOK(v) /\ v.phase \notin Busy
  <2>1. ph \in Phase
    BY DEF Phase
  <2>2. v \in CallState /\ v.phase = ph /\ v.attempt = call[k][c].attempt
    BY <2>1, Shapes
  <2> HIDE DEF v
  <2> QED  BY <2>2 DEF AttemptOK, Busy
<1>2. TypeOK /\ call[k] \in [Calls -> CallState]
  BY Shapes
<1>4. /\ \A j \in Keys : j # k => circuits'[j] = circuits[j] /\ status'[j] = status[j]
      /\ \A d \in Calls : d # c => status'[k][d] = status[k][d]
      /\ status'[k][c] \notin InFlight
  BY <1>2 DEF Succeed, Fail, Settle, TypeOK, InFlight
<1>5. call' = [call EXCEPT ![k] = [@ EXCEPT ![c] = v]]
  OBVIOUS
<1> HIDE DEF v
<1>6. Cardinality(Remaining([call[k] EXCEPT ![c] = v])) + 0
        <= Cardinality(Remaining(call[k]))
  BY <1>1, <1>2, SameOrLess
<1> QED  BY <1>1, <1>4, <1>5, <1>6, CallStep

\* withRetry() throws only after the last attempt: every error it sees is one
\* that it retries, since none of them has a `response`.
LEMMA EveryErrorRetried == \A e : RetryOn(ToSmartOLTError(e))
BY DEF RetryOn, IsRetryableError, ToSmartOLTError

\* An error is followed by a pause, or by the end of the last attempt.
LEMMA HttpErrorOK ==
  ASSUME CInv, TypeOK', NEW k \in Keys, NEW c \in Calls, NEW e, HttpError(k, c, e)
  PROVE  CInv'
<1>1. CASE call[k][c].attempt = RetryAttempts
  <2>1. ~MayRetry(call[k][c].attempt, ToSmartOLTError(e))
    BY <1>1 DEF MayRetry
  <2> QED  BY <1>1, <2>1, SettledOK DEF HttpError
<1>2. CASE call[k][c].attempt # RetryAttempts
  <2> DEFINE v == [call[k][c] EXCEPT !.phase = "backoff"]
  <2>1. MayRetry(call[k][c].attempt, ToSmartOLTError(e))
    BY <1>2, EveryErrorRetried DEF MayRetry
  <2>2. /\ call' = [call EXCEPT ![k] = [@ EXCEPT ![c] = v]]
        /\ LeakedAfter(k, 0) /\ UNCHANGED breakerVars /\ call[k][c].phase = "http"
    BY <2>1 DEF HttpError
  <2>3. v \in CallState /\ v.phase = "backoff" /\ v.attempt = call[k][c].attempt
    <3>1. "backoff" \in Phase
      BY DEF Phase
    <3> QED  BY <3>1, Shapes
  <2> HIDE DEF v
  <2>4. AttemptOK(v)
    BY <1>2, <2>2, <2>3, Shapes, RetryAssumption
       DEF AttemptOK, Busy, RetryAssumption
  <2>5. call[k] \in [Calls -> CallState]
    BY Shapes
  <2>6. Cardinality(Remaining([call[k] EXCEPT ![c] = v])) + 0
          <= Cardinality(Remaining(call[k]))
    BY <2>2, <2>3, <2>5, SameOrLess DEF Busy
  <2>7. status'[k][c] \in InFlight <=> v.phase \in Busy
    BY <2>2, <2>3, Shapes DEF breakerVars, Busy
  <2> QED  BY <2>2, <2>3, <2>4, <2>6, <2>7, CallStep DEF breakerVars
<1> QED  BY <1>1, <1>2

\* After the pause the next attempt is sent, whatever state the circuit is in.
LEMMA ResendOK ==
  ASSUME CInv, TypeOK', NEW k \in Keys, NEW c \in Calls, Resend(k, c)
  PROVE  CInv'
<1> DEFINE v == [phase |-> "http", attempt |-> call[k][c].attempt + 1]
<1>1. /\ call' = [call EXCEPT ![k] = [@ EXCEPT ![c] = v]]
      /\ LeakedAfter(k, 1) /\ UNCHANGED breakerVars /\ call[k][c].phase = "backoff"
  BY DEF Resend, FollowingAttempt
<1>2. v \in CallState /\ AttemptOK(v) /\ v.phase \in Busy
  <2>1. /\ call[k][c].attempt \in 0..RetryAttempts
        /\ AttemptOK(call[k][c])
    BY Shapes
  <2>2. /\ call[k][c].attempt + 1 \in 0..RetryAttempts
        /\ call[k][c].attempt + 1 >= 1
    BY <1>1, <2>1, RetryAssumption DEF AttemptOK, RetryAssumption
  <2>3. v.phase = "http" /\ v.attempt = call[k][c].attempt + 1 /\ v \in CallState
    BY <2>2 DEF CallState, Phase
  <2> QED  BY <2>2, <2>3 DEF AttemptOK, Busy
<1>3. Cardinality(Remaining([call[k] EXCEPT ![c] = v]))
        = Cardinality(Remaining(call[k])) - 1
  BY <1>1, Shapes, OneLessLeft
<1> HIDE DEF v
<1>4. Cardinality(Remaining([call[k] EXCEPT ![c] = v])) + 1
        <= Cardinality(Remaining(call[k]))
  BY <1>3, RemainingFinite
<1>5. status'[k][c] \in InFlight
  BY <1>1, Shapes DEF breakerVars, Busy
<1> QED  BY <1>1, <1>2, <1>4, <1>5, CallStep DEF breakerVars

-----------------------------------------------------------------------------
(* Theorems                                                                *)

\* The client keeps its invariant: a reset closes the circuit, and a tick
\* changes no state of a circuit.
LEMMA CInvPreserved == CInv /\ [CNext]_clientVars => CInv'
<1> SUFFICES ASSUME CInv, [CNext]_clientVars PROVE CInv'
  OBVIOUS
<1>1. TypeOK /\ TypeOK'
  BY ClientStepsAreBreakerSteps, TypePreserved DEF CInv, ClientTypeOK
<1>2. CASE UNCHANGED clientVars
  BY <1>1, <1>2 DEF clientVars, breakerVars, CInv, ClientTypeOK, AttemptOK,
                    LeakOK, Remaining
<1>3. ASSUME NEW k \in Keys, CReset(k) PROVE CInv'
  <2>1. circuits'[k].state # "OPEN"
    BY <1>1, <1>3 DEF CReset, Reset, TypeOK, FreshCircuit
  <2>2. /\ \A j \in Keys : j # k => circuits'[j] = circuits[j] /\ leaked'[j] = leaked[j]
        /\ leaked'[k] = 0 /\ leaked' \in [Keys -> Nat] /\ call' = call
    BY <1>1, <1>3, <2>1 DEF CReset, Reset, LeakedAfter, TypeOK, CInv, ClientTypeOK
  <2>3. \A j \in Keys, d \in Calls :
          status'[j][d] \in InFlight <=> status[j][d] \in InFlight
    BY <1>1, <1>3 DEF CReset, Reset, TypeOK, InFlight
  <2>4. ClientTypeOK'
    BY <1>1, <2>2, <2>3 DEF CInv, ClientTypeOK
  <2>5. \A j \in Keys : LeakOK(circuits'[j], leaked'[j], call'[j])
    BY <2>1, <2>2 DEF CInv, LeakOK
  <2> QED  BY <2>2, <2>4, <2>5 DEF CInv, AttemptOK, LeakOK, Remaining
<1>4. CASE CTick
  <2>1. \A j \in Keys : circuits'[j].state = circuits[j].state
    BY <1>1, <1>4, WhoOpens DEF CTick, Tick, TypeOK
  <2>2. UNCHANGED <<status, call, leaked>>
    BY <1>4 DEF CTick, Tick
  <2>3. ClientTypeOK'
    BY <1>1, <2>2 DEF CInv, ClientTypeOK
  <2>4. \A j \in Keys : LeakOK(circuits'[j], leaked'[j], call'[j])
    BY <2>1, <2>2 DEF CInv, LeakOK
  <2> QED  BY <2>2, <2>3, <2>4 DEF CInv, AttemptOK, LeakOK, Remaining
<1>5. ASSUME NEW k \in Keys, NEW c \in Calls, HttpOk(k, c) PROVE CInv'
  BY <1>1, <1>5, SettledOK DEF HttpOk
<1> QED
  BY <1>1, <1>2, <1>3, <1>4, <1>5, RequestOK, RefusedOK, HttpErrorOK, ResendOK
     DEF CNext

\* No call is in progress at the start and nothing has leaked.
LEMMA CInvInit == CInit => CInv
<1> SUFFICES ASSUME CInit PROVE CInv
  OBVIOUS
<1>1. TypeOK
  BY InitType DEF CInit
<1>2. ClientTypeOK
  BY <1>1, RetryAssumption
     DEF ClientTypeOK, CInit, Init, CallState, Phase, Busy, InFlight, RetryAssumption
<1>3. \A k \in Keys, c \in Calls : AttemptOK(call[k][c])
  BY DEF CInit, AttemptOK, Busy
<1>4. \A k \in Keys : LeakOK(circuits[k], leaked[k], call[k])
  BY DEF CInit, Init, FreshCircuit, LeakOK
<1> QED  BY <1>2, <1>3, <1>4 DEF CInv

\* The invariant holds in every reachable state.
THEOREM ClientInvHolds == CSpec => []CInv
BY CInvInit, CInvPreserved, PTL DEF CSpec

\* The client's state is well-typed, and its busy calls are those that the
\* breaker has in flight.
THEOREM ClientTypeCorrect == CSpec => []ClientTypeOK
<1>1. CInv => ClientTypeOK
  BY DEF CInv
<1> QED  BY <1>1, ClientInvHolds, PTL

\* A request is given up only after its last attempt, whatever the errors.
THEOREM GivesUpOnlyWhenSpentHolds == CSpec => []GivesUpOnlyWhenSpent
<1>1. CInv => GivesUpOnlyWhenSpent
  BY DEF CInv, AttemptOK, GivesUpOnlyWhenSpent
<1> QED  BY <1>1, ClientInvHolds, PTL

\* No more is sent behind an open circuit than the other calls' later attempts.
THEOREM BoundedLeakHolds == CSpec => []BoundedLeak
<1>1. CInv => BoundedLeak
  <2> SUFFICES ASSUME CInv, NEW k \in Keys PROVE leaked[k] <= Bound
    BY DEF BoundedLeak, Bound
  <2>1. LeakOK(circuits[k], leaked[k], call[k]) /\ leaked[k] \in Nat
    BY DEF CInv, ClientTypeOK
  <2>2. Cardinality(Remaining(call[k])) \in Nat /\ Bound \in Nat
    BY RemainingFinite, BoundType
  <2> QED  BY <2>1, <2>2 DEF LeakOK
<1> QED  BY <1>1, ClientInvHolds, PTL

\* The client uses the breaker as the breaker's specification says: what is
\* proved of the breaker holds of it inside the client.
THEOREM ClientImplementsBreaker == CSpec => Spec
<1>1. CInit => Init
  BY DEF CInit
<1> QED  BY <1>1, ClientStepsAreBreakerSteps, PTL DEF CSpec, Spec

\* In particular half-open attempts are accounted for in the client.
COROLLARY ClientHalfOpenAccounted == CSpec => []HalfOpenAccounted
BY ClientImplementsBreaker, HalfOpenAccountedHolds, PTL
=============================================================================
