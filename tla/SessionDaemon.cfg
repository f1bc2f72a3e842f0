SPECIFICATION FairSpec
CONSTANTS
  c1 = c1
  c2 = c2
  c3 = c3
  Client <- TwoClients
  None = None
  Fresh <- FreshClients
  Limit = 1
  Frames <- MCFrames
  MaxDrops = 1
  Flaky <- FlakyClients
  MaxUpsets = 1
CHECK_DEADLOCK FALSE
INVARIANTS
  IndInv
  OwnAnswer
PROPERTIES
  SettleExtends
  UnwatchedStops
  EveryExecAnswered
