SPECIFICATION FairSpec
CONSTANTS
  p1 = p1
  Process = {p1, p2}
  Pinned = {p1, p2}
  Task = {t1}
  None = None
  TTL = 3
  HeartbeatEvery = 1
  Lag = 1
  Skew <- MCSkew
  MaxSkew = 1
  Workers = 1
  Nodes = 2
  Resubmit = FALSE
  MaxCrashes = 1
  MaxFaults = 1
INVARIANTS
  SingleRunner
PROPERTIES
  ImplementsOwnership
  FaultlessVerdictByHolder
  EventuallySettled
