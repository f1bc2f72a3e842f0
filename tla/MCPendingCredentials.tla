------------------------- MODULE MCPendingCredentials -------------------------
EXTENDS PendingCredentials, TLC

Symmetric == Permutations(Exec) \cup Permutations(Finalizers)
=============================================================================
