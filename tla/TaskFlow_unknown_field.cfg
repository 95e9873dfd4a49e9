SPECIFICATION Spec
CONSTANTS
  Scenarios <- PlainScenario
  MaxRounds = 3
  MaxDebugRetries = 1
PROPERTY UnknownFieldsTolerated
