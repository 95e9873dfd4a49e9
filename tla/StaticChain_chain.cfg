SPECIFICATION Spec
CONSTANTS
  Inputs <- Cases
  Plans <- SomePlans
  Pages <- SomePages
  Strays <- SomeStrays
  Checkpoints = {TRUE, FALSE}
  MaxRows = 2
  MaxRounds = 2
  MaxRetries = 1
INVARIANTS
  JudgedByOwnPlan
  FallbackDelivers
  GapNeverSucceeds
  EvidenceAccounted
PROPERTIES
  RunSeesInputs
CHECK_DEADLOCK FALSE
