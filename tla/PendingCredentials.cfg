SPECIFICATION Spec
CONSTANTS
    Exec = {e1, e2}
    Finalizers = {f1, f2}
    NoExec = NoExec
    MaxTracked = 1
SYMMETRY Symmetric
CHECK_DEADLOCK FALSE
INVARIANTS IndInv TimelyEntryNamed RedirectFindsEntry
