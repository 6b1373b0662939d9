SPECIFICATION Spec
CONSTANTS
  Scenarios <- MCScenarios
  MaxLag = 1
INVARIANTS
  ContextsInStep
  TraceFollowsPacket
  EndsClean
PROPERTY EveryEventHandled
CHECK_DEADLOCK FALSE
