SPECIFICATION Spec
CONSTANTS
  s1 = s1
  s2 = s2
  Session <- MCSession
  Asked <- MCAsked
  Page <- MCSession
  Refusals = 1
  Nobody = Nobody
  Gone = Gone
INVARIANTS
  IndInv
  AwakeUnderSnippet
  ViewSeesLivePages
