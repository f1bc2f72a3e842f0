SPECIFICATION Spec
CONSTANTS
  p1 = p1
  p2 = p2
  p3 = p3
  k1 = k1
  k2 = k2
  r1 = r1
  r2 = r2
  Proc <- MCProc
  Key <- MCKey
  Record <- MCRecord
  None = None
  NoHolder = NoHolder
  MaxStamp = 2
SYMMETRY Symmetry
INVARIANTS
  KeyOpensData
  SavedStays
  ClearKeyGone
  IndInv
PROPERTIES
  UnlockHonoured
