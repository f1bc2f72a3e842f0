---------------------------- MODULE MCVaultStore ----------------------------
\* Three process incarnations, two data keys, two records, and two envelopes:
\* of a setup that a power failure undoes and one that stays, or of a setup
\* and a lock.
EXTENDS VaultStore, TLC

CONSTANTS p1, p2, p3, k1, k2, r1, r2

MCProc == {p1, p2, p3}
MCKey == {k1, k2}
MCRecord == {r1, r2}

\* Processes are alike, and so are keys and records.
Symmetry ==
    Permutations(MCProc) \cup Permutations(MCKey) \cup Permutations(MCRecord)
=============================================================================
