----------------------------- MODULE ProfileLock -----------------------------
(***************************************************************************)
(* The advisory lock of the persistent browser profile,                    *)
(* src/src/profile-lock.ts, and its heartbeat in src/src/worker.ts lines   *)
(* 576-605.  The lock is a directory made with mkdir and then signed by    *)
(* writing owner.json into whatever directory is at the path; a stale one  *)
(* is renamed to a tombstone with a random name.  Each synchronous file    *)
(* system call of a process is one step: other processes run in between.   *)
(* A worker acquires the lock once; a relaunch is another Proc.            *)
(* Names that DownloadGate has too say that they are the profile's:        *)
(* WorkerProofs extends both.                                              *)
(***************************************************************************)
EXTENDS Naturals, FiniteSets

CONSTANTS
  Proc,        \* worker processes
  NoDir,       \* nothing at the lock path
  NoProc,      \* an owner file that is missing
  MaxTries,    \* attempts of acquireProfileLock (4 in the code)
  MayStall,    \* may a running owner miss heartbeats for staleMs?
  MayDeny      \* may the system refuse to create the lock or its owner file?

Dir == [maker : Proc, n : 1..MaxTries]

ASSUME ProfileConstants ==
  /\ NoDir \notin Dir /\ NoProc \notin Proc
  /\ MaxTries \in Nat \ {0}
  /\ MayStall \in BOOLEAN /\ MayDeny \in BOOLEAN

VARIABLES
  pc,       \* where each process is
  tries,    \* attempts it has made
  lock,     \* the directory at the lock path, or NoDir
  signer,   \* whose token the owner file of each directory holds
  stale,    \* directories whose lease is older than staleMs
  read,     \* the owner each contender has read
  beating   \* processes whose heartbeat timer runs

profileVars == <<pc, tries, lock, signer, stale, read, beating>>

Acquiring == {"mkdir", "inspect", "stat", "statdir", "rename", "write", "cleanup"}
Owning == {"own", "touch", "release"}
Final == {"ephemeral", "unlocked", "failed", "done", "dead"}

\* The types; a heartbeat timer never outlives its owner's hold on the lock.
ProfileTypeOK ==
  /\ pc \in [Proc -> {"new"} \cup Acquiring \cup Owning \cup Final]
  /\ tries \in [Proc -> 0..MaxTries]
  /\ lock \in Dir \cup {NoDir}
  /\ signer \in [Dir -> Proc \cup {NoProc}]
  /\ stale \subseteq Dir
  /\ read \in [Proc -> Proc \cup {NoProc}]
  /\ beating \subseteq {p \in Proc : pc[p] \in {"own", "touch"}}

ProfileInit ==
  /\ pc = [p \in Proc |-> "new"]
  /\ tries = [p \in Proc |-> 0]
  /\ lock = NoDir
  /\ signer = [d \in Dir |-> NoProc]
  /\ stale = {}
  /\ read = [p \in Proc |-> NoProc]
  /\ beating = {}

Running(p) == pc[p] \in Acquiring \cup Owning
Goto(p, label) == pc' = [pc EXCEPT ![p] = label]
Signed(d) == d # NoDir /\ signer[d] # NoProc
HeldByUs(p) == lock # NoDir /\ signer[lock] = p

-----------------------------------------------------------------------------
(***************************************************************************)
(* acquireProfileLock                                                      *)
(***************************************************************************)
BeginAcquire(p) ==
  /\ pc[p] = "new"
  /\ Goto(p, "mkdir")
  /\ UNCHANGED <<tries, lock, signer, stale, read, beating>>

\* Fault: one attempt and no more, so reclaiming a lock never pays.
MkDirOnce(p) ==
  /\ pc[p] = "mkdir"
  /\ tries[p] < MaxTries
  /\ tries' = [tries EXCEPT ![p] = MaxTries]
  /\ IF lock = NoDir
     THEN lock' = [maker |-> p, n |-> tries[p] + 1] /\ Goto(p, "write")
     ELSE Goto(p, "inspect") /\ UNCHANGED lock
  /\ UNCHANGED <<signer, stale, read, beating>>

MkDir(p) ==
  /\ pc[p] = "mkdir"
  /\ tries[p] < MaxTries
  /\ tries' = [tries EXCEPT ![p] = @ + 1]
  /\ IF lock = NoDir
     THEN lock' = [maker |-> p, n |-> tries[p] + 1] /\ Goto(p, "write")
     ELSE Goto(p, "inspect") /\ UNCHANGED lock
  /\ UNCHANGED <<signer, stale, read, beating>>

\* Four attempts met contention: run with a temporary, signed-out profile.
Exhaust(p) ==
  /\ pc[p] = "mkdir"
  /\ tries[p] = MaxTries
  /\ Goto(p, "ephemeral")
  /\ UNCHANGED <<tries, lock, signer, stale, read, beating>>

\* Creating the directory is refused: the saved profile without a lock.
Denied(p) ==
  /\ MayDeny
  /\ pc[p] = "mkdir"
  /\ lock = NoDir
  /\ Goto(p, "unlocked")
  /\ UNCHANGED <<tries, lock, signer, stale, read, beating>>

\* writeFileSync goes to the path: it signs whatever directory is there now.
Write(p) ==
  /\ pc[p] = "write"
  /\ \/ /\ lock # NoDir
        /\ signer' = [signer EXCEPT ![lock] = p]
        /\ stale' = stale \ {lock}
        /\ beating' = beating \cup {p}
        /\ Goto(p, "own")
     \/ /\ lock = NoDir \/ MayDeny
        /\ Goto(p, "cleanup")
        /\ UNCHANGED <<signer, stale, beating>>
  /\ UNCHANGED <<tries, lock, read>>

\* The failed write deletes whatever is at the path.
Cleanup(p) ==
  /\ pc[p] = "cleanup"
  /\ lock' = NoDir
  /\ Goto(p, IF MayDeny THEN "unlocked" ELSE "failed")
  /\ UNCHANGED <<tries, signer, stale, read, beating>>

\* inspectExistingLock: read the owner file, then its age, by path each time.
Inspect(p) ==
  /\ pc[p] = "inspect"
  /\ IF Signed(lock)
     THEN read' = [read EXCEPT ![p] = signer[lock]] /\ Goto(p, "stat")
     ELSE Goto(p, "statdir") /\ UNCHANGED read
  /\ UNCHANGED <<tries, lock, signer, stale, beating>>

\* The pid of a dead owner may belong to another process by now, or be one
\* of another host: then only the age counts.
PidDead(q) == pc[q] = "dead"

Stat(p) ==
  /\ pc[p] = "stat"
  /\ \/ Signed(lock) /\ (lock \in stale \/ PidDead(read[p])) /\ Goto(p, "rename")
     \/ Signed(lock) /\ lock \notin stale /\ Goto(p, "ephemeral")
     \/ ~Signed(lock) /\ Goto(p, "statdir")
  /\ read' = [read EXCEPT ![p] = NoProc]
  /\ UNCHANGED <<tries, lock, signer, stale, beating>>

\* No readable owner: only an old directory may be taken.
StatDir(p) ==
  /\ pc[p] = "statdir"
  /\ Goto(p, IF lock = NoDir \/ lock \in stale THEN "rename" ELSE "ephemeral")
  /\ UNCHANGED <<tries, lock, signer, stale, read, beating>>

\* reclaimStaleLock moves whatever is at the path by now.
Rename(p) ==
  /\ pc[p] = "rename"
  /\ lock' = NoDir
  /\ Goto(p, "mkdir")
  /\ UNCHANGED <<tries, signer, stale, read, beating>>

-----------------------------------------------------------------------------
(***************************************************************************)
(* The owner: heartbeat and release.  Both look at the token first, and    *)
(* then act on the path.                                                   *)
(***************************************************************************)

\* Fault: the heartbeat does not look whose lock it is.
TickBlindly(p) ==
  /\ pc[p] = "own"
  /\ p \in beating
  /\ Goto(p, "touch")
  /\ UNCHANGED <<tries, lock, signer, stale, read, beating>>

Tick(p) ==
  /\ pc[p] = "own"
  /\ p \in beating
  /\ IF HeldByUs(p)
     THEN Goto(p, "touch") /\ UNCHANGED beating
     ELSE beating' = beating \ {p} /\ UNCHANGED pc
  /\ UNCHANGED <<tries, lock, signer, stale, read>>

Touch(p) ==
  /\ pc[p] = "touch"
  /\ beating' = IF Signed(lock) THEN beating ELSE beating \ {p}
  /\ stale' = IF Signed(lock) THEN stale \ {lock} ELSE stale
  /\ Goto(p, "own")
  /\ UNCHANGED <<tries, lock, signer, read>>

\* Fault: the heartbeat timer is left running.
ReleaseBeating(p) ==
  /\ pc[p] = "own"
  /\ Goto(p, IF HeldByUs(p) THEN "release" ELSE "done")
  /\ UNCHANGED <<tries, lock, signer, stale, read, beating>>

Release(p) ==
  /\ pc[p] = "own"
  /\ Goto(p, IF HeldByUs(p) THEN "release" ELSE "done")
  /\ beating' = beating \ {p}
  /\ UNCHANGED <<tries, lock, signer, stale, read>>

Remove(p) ==
  /\ pc[p] = "release"
  /\ lock' = NoDir
  /\ Goto(p, "done")
  /\ UNCHANGED <<tries, signer, stale, read, beating>>

-----------------------------------------------------------------------------
Crash(p) ==
  /\ Running(p)
  /\ Goto(p, "dead")
  /\ beating' = beating \ {p}
  /\ UNCHANGED <<tries, lock, signer, stale, read>>

\* A running process is on its way to sign this directory, or keeps it fresh.
Tended(d) ==
  \/ signer[d] = NoProc /\ pc[d.maker] = "write"
  \/ signer[d] \in beating
  \/ \E p \in Proc : pc[p] = "release" /\ signer[d] = p

Expire ==
  /\ lock # NoDir
  /\ lock \notin stale
  /\ MayStall \/ ~Tended(lock)
  /\ stale' = stale \cup {lock}
  /\ UNCHANGED <<pc, tries, lock, signer, read, beating>>

Acquire(p) ==
  MkDir(p) \/ Exhaust(p) \/ Write(p) \/ Cleanup(p)
    \/ Inspect(p) \/ Stat(p) \/ StatDir(p) \/ Rename(p)

ProcNext(p) ==
  \/ BeginAcquire(p) \/ Acquire(p) \/ Denied(p)
  \/ Tick(p) \/ Touch(p) \/ Release(p) \/ Remove(p)
  \/ Crash(p)

ProfileNext == Expire \/ \E p \in Proc : ProcNext(p)

ProfileSpec == ProfileInit /\ [][ProfileNext]_profileVars

\* A process finishes the acquisition it began, and its heartbeat timer goes
\* off.  Nothing makes a process start, release, crash or be refused.
ProfileFairness ==
  \A p \in Proc : WF_profileVars(Acquire(p) \/ Tick(p) \/ Touch(p) \/ Remove(p))

FairProfileSpec == ProfileSpec /\ ProfileFairness

-----------------------------------------------------------------------------
(***************************************************************************)
(* Properties                                                              *)
(***************************************************************************)
Alone(p) == \A q \in Proc \ {p} : ~Running(q)
HasProfile(p) == pc[p] \in Owning \cup {"unlocked"}

\* A process that starts while nobody else runs and that finds no lock, or
\* one whose lease has expired, gets the saved profile and not a signed-out
\* temporary one, unless another process joins it: four attempts (line 194)
\* are enough to get past whatever crashed processes left behind.
AloneRecovers ==
  \A p \in Proc :
    (pc[p] = "mkdir" /\ tries[p] = 0 /\ Alone(p) /\ (lock = NoDir \/ lock \in stale))
      ~> (HasProfile(p) \/ pc[p] = "dead" \/ ~Alone(p))

\* p is past its start with a lock that is free or expired, and one reclaiming
\* away from the saved profile at most.
OnCourse(p) ==
  \/ pc[p] = "mkdir" /\ tries[p] < 2 /\ (lock = NoDir \/ (tries[p] = 0 /\ lock \in stale))
  \/ pc[p] \in {"inspect", "stat", "statdir"} /\ tries[p] = 1 /\ (lock = NoDir \/ lock \in stale)
  \/ pc[p] = "rename" /\ tries[p] = 1
  \/ pc[p] = "write" /\ lock # NoDir
  \/ pc[p] = "cleanup" /\ MayDeny

\* Alone, it does not get off that course, with two attempts to make: no step
\* of its own, no expiring lease and no refused call sends it to a temporary
\* profile.  This is the part of AloneRecovers that a step can violate.
KeepsCourse ==
  [][\A p \in Proc :
       OnCourse(p) /\ Alone(p) /\ Alone(p)'
         => OnCourse(p)' \/ HasProfile(p)' \/ pc'[p] = "dead"]_profileVars

\* Two processes do not both go on refreshing a lease: one whose lock was
\* taken finds out at a heartbeat and stops (worker.ts lines 578-582), so the
\* lease at the path ends up with at most one process that renews it.
OneHeartbeat == (Cardinality(beating) > 1) ~> (Cardinality(beating) <= 1)

\* "Only one process can own it at a time" (docs/architecture.md lines
\* 173-174): at most one running process has been given the saved profile
\* together with its lock (line 220) and is not giving it back.
OneOwner ==
  \A p, q \in Proc : {pc[p], pc[q]} \subseteq {"own", "touch"} => p = q
=============================================================================
