----------------------------- MODULE VaultLease -----------------------------
(***************************************************************************)
(* What the credential vault's directory lock promises (src/src/vault.ts,  *)
(* acquireLock and the release function it returns): a lease that at most  *)
(* one process holds.  A free lease may be taken by any running process.   *)
(* While its holder works under it nobody takes it away; a held lease      *)
(* becomes free only because its holder has finished and gives it back, or *)
(* because its holder is dead and somebody reclaims it.  How directories,  *)
(* renames, heartbeats and pids bring this about is VaultLock's business.  *)
(***************************************************************************)
CONSTANTS
  Proc,       \* process incarnations that may use the vault directory
  NoHolder    \* the value of holder while the lease is free

VARIABLES
  holder,     \* the process that has the lease, or NoHolder
  working,    \* the processes that rely on having it
  dead        \* the processes that were killed or have exited

vars == <<holder, working, dead>>

Init == holder = NoHolder /\ working = {} /\ dead = {}

Acquire(p) ==
  /\ holder = NoHolder
  /\ p \notin dead
  /\ holder' = p
  /\ working' = working \cup {p}
  /\ UNCHANGED dead

Finish(p) ==
  /\ p \in working
  /\ working' = working \ {p}
  /\ UNCHANGED <<holder, dead>>

Release(p) ==
  /\ holder = p
  /\ p \notin dead \cup working
  /\ holder' = NoHolder
  /\ UNCHANGED <<working, dead>>

\* Processes P are killed or exit; a power failure takes several at once.
Die(P) ==
  /\ dead' = dead \cup P
  /\ working' = working \ P
  /\ UNCHANGED holder

Reclaim ==
  /\ holder \in dead
  /\ holder' = NoHolder
  /\ UNCHANGED <<working, dead>>

Next ==
  \/ Reclaim
  \/ \E p \in Proc : Acquire(p) \/ Finish(p) \/ Release(p)
  \/ \E P \in SUBSET Proc : Die(P)

Spec == Init /\ [][Next]_vars
=============================================================================
