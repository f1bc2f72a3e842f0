CONSTANTS
    Lanes = {a, b}
    Exclusive = Exclusive
    MaxJobs = 5
SPECIFICATION BoundedSpec
CHECK_DEADLOCK FALSE
INVARIANT LanesInv
PROPERTIES SerialSpec EveryJobRuns
