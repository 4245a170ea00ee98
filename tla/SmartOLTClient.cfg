\* Three calls: two that trip the circuit and one that is still retrying.  Two
\* half-open requests, so that one may settle under the other; two ticks of
\* Timeout, so that a late failure restarts the window half-way.
SPECIFICATION CFairSpec
CONSTANTS
  Keys = {k1}
  Calls = {c1, c2, c3}
  Threshold = 2
  Timeout = 2
  HalfOpenRequests = 2
  RetryAttempts = 3
INVARIANTS ClientTypeOK GivesUpOnlyWhenSpent BoundedLeak
INVARIANTS HalfOpenAccounted TrippedKeepsCount OpenWindowFromLastFailure
PROPERTIES ImplementsBreaker ClosesOnlyFromHalfOpen AlwaysAdmitsAgain
