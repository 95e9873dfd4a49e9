SPECIFICATION Spec
CONSTANTS
  p1 = p1
  Process = {p1, p2}
  Pinned = {p1}
  Task = {t1}
  None = None
  TTL = 3
  HeartbeatEvery = 1
  Lag = 1
  Skew <- MCSkew
  MaxSkew = 1
  Workers = 1
  Nodes = 1
  Resubmit = TRUE
  MaxCrashes = 0
  MaxFaults = 0
INVARIANTS
  SingleRunner
