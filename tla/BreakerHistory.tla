--------------------------- MODULE BreakerHistory ---------------------------
(***************************************************************************)
(* The circuit breaker with a history variable: how many failures in a row *)
(* each circuit has been given.  The code keeps no such count; README.md   *)
(* describes the breaker by it.                                            *)
(***************************************************************************)
EXTENDS CircuitBreaker

VARIABLE streak  \* streak[k]: failures applied to k's circuit since the
                 \* last success applied to it, or since it was created

historyVars == <<breakerVars, streak>>

HInit == Init /\ streak = [k \in Keys |-> 0]

HSucceed(k, c) ==
  /\ Succeed(k, c)
  /\ streak' = [streak EXCEPT ![k] = IF status[k][c] = "running" THEN 0 ELSE @]

HFail(k, c) ==
  /\ Fail(k, c)
  /\ streak' = [streak EXCEPT ![k] =
       IF status[k][c] = "running" /\ @ < Threshold THEN @ + 1 ELSE @]

HReset(k) == Reset(k) /\ streak' = [streak EXCEPT ![k] = 0]

HNext ==
  \/ \E k \in Keys, c \in Calls :
       \/ (Execute(k, c) \/ Reject(k, c)) /\ UNCHANGED streak
       \/ HSucceed(k, c)
       \/ HFail(k, c)
  \/ \E k \in Keys : HReset(k)
  \/ Tick /\ UNCHANGED streak

HSpec == HInit /\ [][HNext]_historyVars

\* README.md:248 says that the circuit is open "After THRESHOLD consecutive
\* failures".  So a closed circuit would open only on a failure that makes
\* the run of failures Threshold long.  onSuccess() does not clear `failures`
\* while the circuit is closed, so failures with any number of successes
\* between them add up and open it.
OpensAfterConsecutiveFailures ==
  [][\A k \in Keys :
       circuits[k].state = "CLOSED" /\ circuits'[k].state = "OPEN"
         => streak'[k] >= Threshold]_historyVars

=============================================================================
