\* Two requests and two jobs, so that one is left when the other has ended; two
\* signals, the second at any point of the first one's shutdown.
SPECIFICATION FairSpec
CONSTANTS
  Calls = {c1, c2}
  MaxRequests = 2
  MaxJobs = 2
INVARIANTS TypeOK WorkIsConnected
PROPERTIES SignalEnds
