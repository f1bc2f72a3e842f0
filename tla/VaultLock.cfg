SPECIFICATION FairSpec
CONSTANTS
  a = a
  b = b
  c = c
  Proc <- MCProc
  PidOf <- MCPidOf
  Identified <- MCProc
  NoDir = NoDir
  NoHolder = NoHolder
  MaxGrants = 1
  MaxBeats = 1
  Impatient <- MCImpatient
INVARIANTS
  HolderKeepsLock
  IndInv
PROPERTIES
  LeaseSpec
  AbandonedLockReclaimed
CHECK_DEADLOCK FALSE
