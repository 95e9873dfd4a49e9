SPECIFICATION Spec
CONSTANTS
  r1 = r1
  r2 = r2
  t1 = t1
  Run = {r1, r2}
  Tenant = {t1}
  TenantOf <- MCTenantOf
  MaxConcurrency = 1
  Timeout = 2
  Factor = 2
  Lag = 1
  Signals = TRUE
  MaxDeaths = 1
  MaxFaults = 1
INVARIANTS
  ResultMatchesSession
  NothingLeftBehind
PROPERTIES
  CleanerSparesLive
  EventuallyNoContainer
CHECK_DEADLOCK FALSE
