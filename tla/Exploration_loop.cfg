SPECIFICATION Spec
CONSTANTS
  RawPolicies <- TwoPolicies
  Envelopes <- TestEnvelopes
  Intents <- TestIntents
  Answers <- TestAnswers
  Callable <- TestCallable
  MaxSteps = 2
  MaxCalls = 2
  MaxTroubles = 1
INVARIANTS
  StopsOnFailures
  OffersAsRecorded
  GovernorsAgree
  StepsAsAnswered
PROPERTIES
  TraceKept
