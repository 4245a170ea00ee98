\* One request at a time leaves the counters of any interleaving.  A limit of 1
\* is exceeded by the second request.  /ready does what /health does.
SPECIFICATION Spec
CONSTANTS
  Tenants = {t1, t2}
  Anonymous = anonymous
  Slots = {r1}
  Routes = {"live", "health", "login", "read", "write"}
  RateLimitMax = 1
  WatchedCaller = t1
  WatchedRoute = "write"
INVARIANTS TypeOK
PROPERTIES StoppedByOwnRequests TokenRefusedByOutage RedisGatesAll HealthyMeansReached
