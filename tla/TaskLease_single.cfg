SPECIFICATION QueueSpec
CONSTANTS
  p1 = p1
  Process = {p1}
  Pinned = {p1}
  Task = {t1, t2}
  None = None
  TTL = 1
  HeartbeatEvery = 0
  Lag = 0
  Skew <- MCNoSkew
  MaxSkew = 0
  Workers = 1
  Nodes = 1
  Resubmit = TRUE
  MaxCrashes = 0
  MaxFaults = 1
PROPERTIES
  FlowsEnd
