SPECIFICATION Spec
CONSTANTS
  Scenarios <- BothScenarios
  MaxRounds = 3
  MaxDebugRetries = 1
INVARIANTS
  TypeOK
  AuditedBeforeRun
  SuccessMeansRun
PROPERTIES
  BlockedRunsNothing
  VerdictFollowsRecord
  EventuallyEnds
