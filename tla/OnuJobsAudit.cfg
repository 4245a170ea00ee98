\* A single attempt of a single request is enough to lose the row.
SPECIFICATION Spec
CONSTANTS
  Jobs = {j1}
  Nobody = nobody
  Slots = {s1}
  QueueAttempts = 1
  RetryAttempts = 1
  MaxStalls = 1
  MaxCrashes = 0
INVARIANTS EffectsAudited
\* When the job has ended and the tenant is gone, nothing is left to do.
CHECK_DEADLOCK FALSE
