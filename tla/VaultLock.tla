------------------------------ MODULE VaultLock ------------------------------
(***************************************************************************)
(* The advisory lock of the credential vault, src/src/vault.ts lines       *)
(* 810-1347.  The lock is a directory, vault.lock, holding an owner file   *)
(* with a pid, a process identity and a random token.  It is published by  *)
(* renaming a fully prepared candidate directory, renewed by touching the  *)
(* owner file, taken back by renaming it away, and stolen from a dead      *)
(* owner by renaming it to a tombstone whose name is the fingerprint of    *)
(* what the thief observed.                                                *)
(*                                                                         *)
(* A directory is named by its owner and the number of the grant, which    *)
(* stands for the inode and for the token in its owner file: neither is    *)
(* ever used again.  A modification time is the number of times the lease  *)
(* has been renewed.  Reading the lock takes three system calls, and the   *)
(* directory at the path may be another one at each of them.  Ages are not *)
(* computed: a lease whose owner is suspended may look stale at any time,  *)
(* so every judgement chooses whether it does.                             *)
(***************************************************************************)
EXTENDS Naturals

CONSTANTS
  Proc,         \* process incarnations (a restarted process is another one)
  PidOf,        \* the pid the operating system gives each of them
  Identified,   \* those whose start-time identity can be read
  NoDir,        \* no directory at the path
  NoHolder,     \* nobody holds the lease (for the abstract specification)
  MaxGrants,    \* bound: locks one process publishes
  MaxBeats,     \* bound: heartbeats of one lock
  Impatient     \* the contenders that may reach their lock timeout

Dir == [owner : Proc, n : 1..MaxGrants]

ASSUME ConstAssumption ==
  /\ Identified \subseteq Proc
  /\ NoDir \notin Dir
  /\ NoHolder \notin Proc
  /\ MaxGrants \in Nat /\ MaxBeats \in Nat
  /\ Impatient \subseteq Proc

VARIABLES
  pc,       \* where each process is in its vault operation
  lock,     \* the directory at vault.lock, or NoDir
  mine,     \* the directory whose lease handle each process has open
  grants,   \* how many directories each process has published
  beats,    \* how often the lease of each directory was renewed
  spoiled,  \* the operation found its lock compromised, or failed
  seen,     \* the reading of the lock each contender is making
  first,    \* the reading it wants to confirm (NoReading in the first pass)
  tombs     \* the fingerprints that name a tombstone

vars == <<pc, lock, mine, grants, beats, spoiled, seen, first, tombs>>

MaybeDir == Dir \cup {NoDir}
NoLease == <<NoDir, 0>>
Reading == [dir : MaybeDir, owner : MaybeDir, lease : MaybeDir \X (0..MaxBeats)]
NoReading == [dir |-> NoDir, owner |-> NoDir, lease |-> NoLease]

Holding == {"sync", "claim", "critical", "settle", "stop", "retire", "remove"}
Contending == {"publish", "contend", "stat", "owner", "lease", "judge", "quarantine"}

TypeOK ==
  /\ pc \in [Proc -> {"unborn", "idle", "dead"} \cup Holding \cup Contending]
  /\ lock \in MaybeDir
  /\ mine \in [Proc -> MaybeDir]
  /\ grants \in [Proc -> 0..MaxGrants]
  /\ beats \in [Dir -> 0..MaxBeats]
  /\ spoiled \in [Proc -> BOOLEAN]
  /\ seen \in [Proc -> Reading]
  /\ first \in [Proc -> Reading]
  /\ tombs \subseteq Reading

Init ==
  /\ pc = [p \in Proc |-> "unborn"]
  /\ lock = NoDir
  /\ mine = [p \in Proc |-> NoDir]
  /\ grants = [p \in Proc |-> 0]
  /\ beats = [d \in Dir |-> 0]
  /\ spoiled = [p \in Proc |-> FALSE]
  /\ seen = [p \in Proc |-> NoReading]
  /\ first = [p \in Proc |-> NoReading]
  /\ tombs = {}

Goto(p, label) == pc' = [pc EXCEPT ![p] = label]
Running(p) == pc[p] \notin {"unborn", "dead"}

-----------------------------------------------------------------------------
(***************************************************************************)
(* Processes.  The system never runs two processes with one pid, but it    *)
(* gives the pid of a dead process to a new one.                           *)
(***************************************************************************)
Boot(p) ==
  /\ pc[p] = "unborn"
  /\ \A q \in Proc : Running(q) => PidOf[q] # PidOf[p]
  /\ Goto(p, "idle")
  /\ UNCHANGED <<lock, mine, grants, beats, spoiled, seen, first, tombs>>

Crash(p) ==
  /\ Running(p)
  /\ Goto(p, "dead")
  /\ seen' = [seen EXCEPT ![p] = NoReading]
  /\ first' = [first EXCEPT ![p] = NoReading]
  /\ UNCHANGED <<lock, mine, grants, beats, spoiled, tombs>>

-----------------------------------------------------------------------------
(***************************************************************************)
(* Taking and holding the lock.                                            *)
(***************************************************************************)

\* serialize: one operation of a process at a time reaches acquireLock.
Begin(p) ==
  /\ pc[p] = "idle"
  /\ grants[p] < MaxGrants
  /\ Goto(p, "publish")
  /\ UNCHANGED <<lock, mine, grants, beats, spoiled, seen, first, tombs>>

\* The rename of a prepared candidate succeeds only if nothing is at the path.
Publish(p) ==
  LET d == [owner |-> p, n |-> grants[p] + 1] IN
  /\ pc[p] = "publish"
  /\ lock = NoDir
  /\ grants[p] < MaxGrants
  /\ lock' = d
  /\ mine' = [mine EXCEPT ![p] = d]
  /\ grants' = [grants EXCEPT ![p] = @ + 1]
  /\ spoiled' = [spoiled EXCEPT ![p] = FALSE]
  /\ Goto(p, "sync")
  /\ UNCHANGED <<beats, seen, first, tombs>>

Collide(p) ==
  /\ pc[p] = "publish"
  /\ lock # NoDir
  /\ Goto(p, "contend")
  /\ UNCHANGED <<lock, mine, grants, beats, spoiled, seen, first, tombs>>

\* afterPublish and syncDirectory: a failure retires the lock just published.
Sync(p) ==
  /\ pc[p] = "sync"
  /\ \/ Goto(p, "claim") /\ UNCHANGED spoiled
     \/ Goto(p, "retire") /\ spoiled' = [spoiled EXCEPT ![p] = TRUE]
  /\ UNCHANGED <<lock, mine, grants, beats, seen, first, tombs>>

\* Fault: verifyLockOwnership trusts the handle and never looks at the path.
OwnedUnchecked(p) == TRUE

\* verifyLockOwnership: token and inode at the path are those of the handle.
Owned(p) == lock = mine[p]

\* scheduleHeartbeat: renew the lease through the handle, or note the loss.
Heartbeat(p) ==
  /\ pc[p] \in {"claim", "critical", "settle"}
  /\ ~spoiled[p]
  /\ IF Owned(p)
     THEN /\ beats[mine[p]] < MaxBeats
          /\ beats' = [beats EXCEPT ![mine[p]] = @ + 1]
          /\ UNCHANGED spoiled
     ELSE /\ spoiled' = [spoiled EXCEPT ![p] = TRUE]
          /\ UNCHANGED beats
  /\ UNCHANGED <<pc, lock, mine, grants, seen, first, tombs>>

\* assertOwned before (at "claim") and after (at "settle") the operation.
AssertOwned(p) ==
  /\ pc[p] \in {"claim", "settle"}
  /\ spoiled' = [spoiled EXCEPT ![p] = @ \/ ~Owned(p)]
  /\ Goto(p, IF pc[p] = "claim" /\ ~spoiled'[p] THEN "critical" ELSE "stop")
  /\ UNCHANGED <<lock, mine, grants, beats, seen, first, tombs>>

\* handleRequest asserts again after a dispatch that returned; an owner
\* transaction, and a dispatch that threw, go straight to the release.
Work(p) ==
  /\ pc[p] = "critical"
  /\ \/ Goto(p, "settle") /\ UNCHANGED spoiled
     \/ Goto(p, "stop") /\ UNCHANGED spoiled
     \/ Goto(p, "stop") /\ spoiled' = [spoiled EXCEPT ![p] = TRUE]
  /\ UNCHANGED <<lock, mine, grants, beats, seen, first, tombs>>

\* heartbeat.stop at the start of release.
Stop(p) ==
  /\ pc[p] = "stop"
  /\ spoiled' = [spoiled EXCEPT ![p] = @ \/ ~Owned(p)]
  /\ Goto(p, "retire")
  /\ UNCHANGED <<lock, mine, grants, beats, seen, first, tombs>>

\* retireOwnedLock looks whose lock it is ...
Retire(p) ==
  /\ pc[p] = "retire"
  /\ IF Owned(p)
     THEN Goto(p, "remove") /\ UNCHANGED mine
     ELSE Goto(p, "idle") /\ mine' = [mine EXCEPT ![p] = NoDir]
  /\ UNCHANGED <<lock, grants, beats, spoiled, seen, first, tombs>>

\* ... and then renames whatever is at the path, if anything is.
Remove(p) ==
  /\ pc[p] = "remove"
  /\ lock' = NoDir
  /\ mine' = [mine EXCEPT ![p] = NoDir]
  /\ Goto(p, "idle")
  /\ UNCHANGED <<grants, beats, spoiled, seen, first, tombs>>

-----------------------------------------------------------------------------
(***************************************************************************)
(* Contending: quarantineStaleLock reads the lock, judges it, reads it     *)
(* again, and renames it only if both readings agree.  A contender that    *)
(* stands down comes back with a new candidate, as does one that found     *)
(* the lock gone; the pause between two attempts is not modelled.          *)
(***************************************************************************)
GiveUp(p) ==
  /\ p \in Impatient
  /\ pc[p] = "contend"
  /\ Goto(p, "idle")
  /\ UNCHANGED <<lock, mine, grants, beats, spoiled, seen, first, tombs>>

Observe(p) ==
  /\ pc[p] = "contend"
  /\ Goto(p, "stat")
  /\ UNCHANGED <<lock, mine, grants, beats, spoiled, seen, first, tombs>>

\* The attempt is over: forget both readings and try to publish again.
Retry(p) ==
  /\ Goto(p, "publish")
  /\ seen' = [seen EXCEPT ![p] = NoReading]
  /\ first' = [first EXCEPT ![p] = NoReading]

\* readLockDirectory, first call: which directory is at the path?
ReadStat(p) ==
  /\ pc[p] = "stat"
  /\ IF lock = NoDir
     THEN Retry(p)
     ELSE /\ seen' = [seen EXCEPT ![p] = [NoReading EXCEPT !.dir = lock]]
          /\ Goto(p, "owner")
          /\ UNCHANGED first
  /\ UNCHANGED <<lock, mine, grants, beats, spoiled, tombs>>

\* Second call: the owner file of whatever directory is there by now.
ReadOwner(p) ==
  /\ pc[p] = "owner"
  /\ seen' = [seen EXCEPT ![p].owner = lock]
  /\ Goto(p, IF lock = NoDir THEN "judge" ELSE "lease")
  /\ UNCHANGED <<lock, mine, grants, beats, spoiled, first, tombs>>

\* Third call: the modification time of the owner file.
ReadLease(p) ==
  /\ pc[p] = "lease"
  /\ seen' = [seen EXCEPT ![p].lease =
                IF lock = NoDir THEN NoLease ELSE <<lock, beats[lock]>>]
  /\ Goto(p, "judge")
  /\ UNCHANGED <<lock, mine, grants, beats, spoiled, first, tombs>>

PidAlive(pid) == \E q \in Proc : Running(q) /\ PidOf[q] = pid

\* The pid is in use by a process whose identity is not the recorded one.
Impersonated(o) ==
  /\ o \in Identified
  /\ \E q \in Identified \ {o} : Running(q) /\ PidOf[q] = PidOf[o]

\* Fault: an old lease is enough, as if only crashed processes stopped renewing.
ReclaimableByAge(r, aged) ==
  aged \/ (r.owner # NoDir /\ ~PidAlive(PidOf[r.owner.owner]))

\* Fault: a pid in use always stands for the process that wrote the owner file.
ReclaimableByPid(r, aged) ==
  \/ r.owner = NoDir /\ aged
  \/ r.owner # NoDir /\ ~PidAlive(PidOf[r.owner.owner])

\* lockIsReclaimable, given whether the lease looks older than staleMs.
LockIsReclaimable(r, aged) ==
  \/ r.owner = NoDir /\ aged
  \/ r.owner # NoDir /\ ~PidAlive(PidOf[r.owner.owner])
  \/ r.owner # NoDir /\ aged /\ Impersonated(r.owner.owner)

\* Fault: one reading is enough; the confirmation is dropped.
JudgeOnce(p, aged) ==
  /\ pc[p] = "judge"
  /\ IF LockIsReclaimable(seen[p], aged)
     THEN /\ first' = [first EXCEPT ![p] = seen[p]]
          /\ Goto(p, "quarantine")
          /\ UNCHANGED seen
     ELSE Retry(p)
  /\ UNCHANGED <<lock, mine, grants, beats, spoiled, tombs>>

\* lines 1001-1009: judge the reading, and in the second pass compare it.
Judge(p, aged) ==
  /\ pc[p] = "judge"
  /\ \/ /\ LockIsReclaimable(seen[p], aged)
        /\ first[p] = NoReading
        /\ first' = [first EXCEPT ![p] = seen[p]]
        /\ seen' = [seen EXCEPT ![p] = NoReading]
        /\ Goto(p, "stat")
     \/ /\ LockIsReclaimable(seen[p], aged)
        /\ first[p] = seen[p]
        /\ Goto(p, "quarantine")
        /\ UNCHANGED <<seen, first>>
     \/ /\ ~LockIsReclaimable(seen[p], aged) \/ first[p] \notin {NoReading, seen[p]}
        /\ Retry(p)
  /\ UNCHANGED <<lock, mine, grants, beats, spoiled, tombs>>

\* Fault: the tombstone has a random name, so the rename never collides.
QuarantineAnyName(p) ==
  /\ pc[p] = "quarantine"
  /\ lock' = NoDir
  /\ Retry(p)
  /\ UNCHANGED <<mine, grants, beats, spoiled, tombs>>

\* The rename collides with a tombstone of the same name, or moves whatever
\* is at the path by now.
Quarantine(p) ==
  /\ pc[p] = "quarantine"
  /\ IF lock = NoDir \/ first[p] \in tombs
     THEN UNCHANGED <<lock, tombs>>
     ELSE lock' = NoDir /\ tombs' = tombs \cup {first[p]}
  /\ Retry(p)
  /\ UNCHANGED <<mine, grants, beats, spoiled>>

-----------------------------------------------------------------------------
Hold(p) == Sync(p) \/ AssertOwned(p) \/ Work(p) \/ Stop(p) \/ Retire(p) \/ Remove(p)

Contend(p) ==
  \/ Publish(p) \/ Collide(p) \/ Observe(p)
  \/ ReadStat(p) \/ ReadOwner(p) \/ ReadLease(p)
  \/ \E aged \in BOOLEAN : Judge(p, aged)
  \/ Quarantine(p)

Next ==
  \E p \in Proc :
    Boot(p) \/ Crash(p) \/ Begin(p) \/ Heartbeat(p) \/ GiveUp(p)
      \/ Hold(p) \/ Contend(p)

Spec == Init /\ [][Next]_vars

\* A running process goes on with its operation.  Nobody has to start, to
\* crash or to time out.  The lease of a dead owner is never renewed again,
\* so once it is older than staleMs every judgement of it finds it aged, the
\* one that observes and the one that confirms.
Fairness ==
  \A p \in Proc :
    /\ WF_vars(Hold(p) \/ Contend(p))
    /\ SF_vars(Judge(p, TRUE) /\ first[p] = NoReading)
    /\ SF_vars(Judge(p, TRUE) /\ first[p] # NoReading)

FairSpec == Spec /\ Fairness

-----------------------------------------------------------------------------
(***************************************************************************)
(* Properties                                                              *)
(***************************************************************************)

\* While it runs, a process that has acquired the lock (lines 1252-1310)
\* still finds its own directory at the path: no contender, however late
\* its rename (line 1018), has taken it.  VAULT_LOCK_COMPROMISED is never
\* the fault of another vault process.
HolderKeepsLock == \A p \in Proc : pc[p] \in Holding => Owned(p)

\* Two operations never read and write the vault files at the same time.
MutualExclusion ==
  \A p, q \in Proc : pc[p] = "critical" /\ pc[q] = "critical" => p = q

\* The lock is a lease in the sense of VaultLease: it is taken only when
\* free, stays with a holder that works under it, and becomes free only when
\* the holder gives it back or is dead (lines 1001-1347).
Lease == INSTANCE VaultLease WITH
  holder <- IF lock = NoDir THEN NoHolder ELSE lock.owner,
  working <- {p \in Proc : pc[p] \in Holding \ {"remove"}},
  dead <- {p \in Proc : pc[p] = "dead"}

LeaseSpec == Lease!Spec

\* A lock left behind by a process that died (even one whose pid now belongs
\* to somebody else) does not stay while a process wants it: tombstones and
\* confirmations never wedge the vault.
AbandonedLockReclaimed ==
  \A d \in Dir :
    (lock = d /\ pc[d.owner] = "dead")
      ~> (lock # d \/ \A p \in Proc : pc[p] \notin Contending)

-----------------------------------------------------------------------------
(***************************************************************************)
(* The inductive invariant behind HolderKeepsLock.                         *)
(***************************************************************************)
Dead(p) == pc[p] = "dead"

Reads == {"owner", "lease", "judge", "quarantine"}

\* A directory that was at the path and has left it; it never comes back.
Gone(d) == d.n <= grants[d.owner] /\ lock # d

\* What every reading of a dead process's lock says, for good.
LastPrint(d) == [dir |-> d, owner |-> d, lease |-> <<d, beats[d]>>]

PidInv ==
  \A p, q \in Proc : Running(p) /\ Running(q) /\ PidOf[p] = PidOf[q] => p = q

OwnerInv ==
  /\ \A p \in Proc : pc[p] \in Holding => mine[p] \in Dir /\ mine[p].owner = p /\ lock = mine[p]
  /\ lock # NoDir => lock.n <= grants[lock.owner] /\ pc[lock.owner] \in Holding \cup {"dead"}
  /\ \A p \in Proc : pc[p] = "unborn" => grants[p] = 0

\* A reading names directories that have been published, and is torn only if
\* the directory it started from has left the path meanwhile.
SeenOK(p) ==
  /\ pc[p] \in Reads =>
       seen[p].dir \in Dir /\ seen[p].dir.n <= grants[seen[p].dir.owner]
  /\ pc[p] \in {"owner", "lease"} => seen[p].lease = NoLease
  /\ pc[p] \in {"lease", "judge"} =>
       /\ seen[p].owner # NoDir => seen[p].owner.n <= grants[seen[p].owner.owner]
       /\ seen[p].owner # seen[p].dir => Gone(seen[p].dir)
  /\ pc[p] = "judge" /\ seen[p].lease[1] # seen[p].dir => Gone(seen[p].dir)

\* What the first pass found reclaimable is a dead process's lock, or a
\* torn reading of a directory that has left the path.
FirstOK(p) ==
  first[p] # NoReading =>
    /\ first[p].dir \in Dir
    /\ \/ Gone(first[p].dir)
       \/ /\ Dead(first[p].dir.owner)
          /\ first[p].owner = first[p].dir
          /\ first[p].lease[1] = first[p].dir

\* Once the second pass has met the same directory again it is a dead
\* process's lock, and leaves the path only under its one tombstone name.
ConfirmOK(p) ==
  /\ first[p] # NoReading /\ pc[p] \in Reads /\ seen[p].dir = first[p].dir =>
       /\ Dead(first[p].dir.owner)
       /\ first[p].owner = first[p].dir
       /\ first[p].lease[1] = first[p].dir
       /\ lock = first[p].dir \/ LastPrint(first[p].dir) \in tombs
       /\ pc[p] \in {"judge", "quarantine"} /\ seen[p].lease[1] = first[p].dir =>
            seen[p].lease[2] = beats[first[p].dir]
  /\ pc[p] = "quarantine" => first[p] # NoReading /\ first[p] = seen[p]

\* The strengthening of HolderKeepsLock that every step preserves: the one
\* invariant that says why a late contender (lines 1001-1038) is harmless.
IndInv ==
  /\ TypeOK /\ PidInv /\ OwnerInv
  /\ \A p \in Proc : SeenOK(p) /\ FirstOK(p) /\ ConfirmOK(p)
=============================================================================
