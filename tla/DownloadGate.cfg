CONSTANTS
    s1 = s1
    s2 = s2
    Sessions <- TwoSessions
    MayClose = TRUE
    MayFail = TRUE
SPECIFICATION FairSpec
INVARIANTS IndInv
PROPERTIES AcceptedUnderApproval EveryRunEnds
