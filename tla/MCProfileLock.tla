---------------------------- MODULE MCProfileLock ----------------------------
EXTENDS ProfileLock, TLC

Symmetric == Permutations(Proc)
=============================================================================
