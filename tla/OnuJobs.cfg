\* One job: jobs share nothing but the slots and the tenant.  The second slot
\* runs the job again while a processor that lost its lock is still at it.
\* Two attempts of two requests each, one stall and one crash reach every step.
SPECIFICATION FairSpec
CONSTANTS
  Jobs = {j1}
  Nobody = nobody
  Slots = {s1, s2}
  QueueAttempts = 2
  RetryAttempts = 2
  MaxStalls = 1
  MaxCrashes = 1
INVARIANTS TypeOK CompletedMeansDone PostsBounded AuditsArePosted
PROPERTIES ImplementsAtLeastOnce
\* When all jobs have ended and the tenant is gone, nothing is left to do.
CHECK_DEADLOCK FALSE
