SPECIFICATION HSpec
CONSTANTS
  Keys = {k1}
  Calls = {c1, c2}
  Threshold = 3
  Timeout = 1
  HalfOpenRequests = 2
PROPERTIES OpensAfterConsecutiveFailures
