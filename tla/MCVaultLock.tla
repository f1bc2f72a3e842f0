----------------------------- MODULE MCVaultLock -----------------------------
\* Three processes; the third is given the pid of the first after its death,
\* and only the first may time out.
EXTENDS VaultLock, TLC

CONSTANTS a, b, c

MCProc == {a, b, c}
MCImpatient == {a}
MCPidOf == (a :> 1) @@ (b :> 2) @@ (c :> 1)
=============================================================================
