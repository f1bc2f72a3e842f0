SPECIFICATION FairProfileSpec
CONSTANTS
  Proc = {p1, p2, p3}
  NoDir = NoDir
  NoProc = NoProc
  MaxTries = 2
  MayStall = TRUE
  MayDeny = TRUE
CHECK_DEADLOCK FALSE
INVARIANT ProfileTypeOK
PROPERTIES
  AloneRecovers
  OneHeartbeat
