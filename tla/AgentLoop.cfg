SPECIFICATION Spec
CONSTANTS
  Messages = 2
  Options <- MCOptions
  MaxCalls = 2
  MaxLane = 1
  InboxLimit = 1
  FailureLimit = 2
  CheckLimit = 2
CHECK_DEADLOCK FALSE
INVARIANTS
  IndInv
  TurnsAnswered
  SteeringHeard
  OkIsEarned
PROPERTIES
  OwnViewerStopped
  EveryRunReturns
