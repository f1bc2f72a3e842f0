CONSTANTS
    Callers = {c1, c2}
    Children = {w1, w2}
    None = None
SPECIFICATION FairSpec
INVARIANTS IndInv RedactionOwned
PROPERTIES OnlyOwnWorker EveryCallSettles ClosedStaysClosed
