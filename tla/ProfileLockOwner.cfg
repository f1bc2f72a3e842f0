SPECIFICATION ProfileSpec
CONSTANTS
  Proc = {p1, p2, p3}
  NoDir = NoDir
  NoProc = NoProc
  MaxTries = 4
  MayStall = FALSE
  MayDeny = FALSE
CHECK_DEADLOCK FALSE
SYMMETRY Symmetric
INVARIANT OneOwner
