SPECIFICATION Spec
CONSTANTS
  p1 = p1
  flow = flow
  api = api
  Process = {p1}
  Thread = {flow, api}
  ProcessOf <- OneProcess
  Runner = {flow}
  Section = {"execution"}
  Reads <- BothRead
  Edits <- HandlerEdits
  None = None
  MaxEvents = 2
  MaxEdits = 2
  MaxCrashes = 1
  MaxFaults = 1
INVARIANTS
  SeenInOrder
PROPERTIES
  EditsKept
  StatusAdvances
  StatusAnnouncedFirst
  EventuallySeen
CHECK_DEADLOCK FALSE
