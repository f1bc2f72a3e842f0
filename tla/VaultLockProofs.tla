--------------------------- MODULE VaultLockProofs ---------------------------
(***************************************************************************)
(* Proofs about the vault lock for any set of processes, any assignment of *)
(* pids and any bounds.                                                    *)
(***************************************************************************)
EXTENDS VaultLock, TLAPS

\* An empty reading is a reading (readLockDirectory, lines 943-967).
LEMMA NoReadingType == NoReading \in Reading
BY ConstAssumption DEF NoReading, Reading, MaybeDir, NoLease

\* A step keeps the types.
LEMMA TypeStep == TypeOK /\ [Next]_vars => TypeOK'
<1> SUFFICES ASSUME TypeOK, [Next]_vars PROVE TypeOK'
  OBVIOUS
<1> USE ConstAssumption, NoReadingType DEF TypeOK, Holding, Contending, Goto
<1>1. ASSUME NEW p \in Proc, Boot(p) \/ Crash(p) \/ Begin(p) \/ GiveUp(p)
      PROVE TypeOK'
  <2>1. CASE Boot(p)
    BY <2>1 DEF Boot
  <2>2. CASE Crash(p)
    BY <2>2 DEF Crash
  <2>3. CASE Begin(p) \/ GiveUp(p)
    BY <2>3 DEF Begin, GiveUp
  <2>4. QED BY <1>1, <2>1, <2>2, <2>3
<1>2. ASSUME NEW p \in Proc, Heartbeat(p) PROVE TypeOK'
  <2>1. CASE Owned(p)
    <3>1. mine[p] \in MaybeDir
      OBVIOUS
    <3>2. beats' \in [Dir -> 0..MaxBeats]
      BY <1>2, <2>1, <3>1 DEF Heartbeat, MaybeDir
    <3>3. QED BY <1>2, <2>1, <3>2 DEF Heartbeat
  <2>2. CASE ~Owned(p)
    BY <1>2, <2>2 DEF Heartbeat
  <2>3. QED BY <2>1, <2>2
<1>3. ASSUME NEW p \in Proc, Hold(p) PROVE TypeOK'
  <2>1. CASE Sync(p)
    BY <2>1 DEF Sync
  <2>2. CASE AssertOwned(p)
    BY <2>2 DEF AssertOwned, Owned
  <2>3. CASE Work(p)
    BY <2>3 DEF Work
  <2>4. CASE Stop(p)
    BY <2>4 DEF Stop, Owned
  <2>5. CASE Retire(p)
    BY <2>5 DEF Retire, MaybeDir
  <2>6. CASE Remove(p)
    BY <2>6 DEF Remove, MaybeDir
  <2>7. QED BY <1>3, <2>1, <2>2, <2>3, <2>4, <2>5, <2>6 DEF Hold
<1>4. ASSUME NEW p \in Proc, Contend(p) PROVE TypeOK'
  <2>1. CASE Publish(p)
    <3> DEFINE d == [owner |-> p, n |-> grants[p] + 1]
    <3>1. grants'[p] \in 0..MaxGrants /\ d \in Dir
      BY <2>1 DEF Publish, Dir
    <3>2. QED BY <2>1, <3>1 DEF Publish, MaybeDir
  <2>2. CASE Collide(p) \/ Observe(p)
    BY <2>2 DEF Collide, Observe
  <2>3. CASE ReadStat(p)
    <3>1. [NoReading EXCEPT !.dir = lock] \in Reading
      BY DEF Reading, NoReading
    <3>2. QED BY <2>3, <3>1 DEF ReadStat, Retry
  <2>4. CASE ReadOwner(p)
    <3>1. [seen[p] EXCEPT !.owner = lock] \in Reading
      BY DEF Reading
    <3>2. QED BY <2>4, <3>1 DEF ReadOwner
  <2>5. CASE ReadLease(p)
    <3>1. (IF lock = NoDir THEN NoLease ELSE <<lock, beats[lock]>>)
            \in MaybeDir \X (0..MaxBeats)
      BY DEF MaybeDir, NoLease
    <3>2. [seen[p] EXCEPT !.lease =
             IF lock = NoDir THEN NoLease ELSE <<lock, beats[lock]>>] \in Reading
      BY <3>1 DEF Reading
    <3>3. QED BY <2>5, <3>2 DEF ReadLease
  <2>6. ASSUME NEW aged \in BOOLEAN, Judge(p, aged) PROVE TypeOK'
    BY <2>6 DEF Judge, Retry
  <2>7. CASE Quarantine(p)
    BY <2>7 DEF Quarantine, Retry, MaybeDir
  <2>8. QED BY <1>4, <2>1, <2>2, <2>3, <2>4, <2>5, <2>6, <2>7 DEF Contend
<1>5. CASE UNCHANGED vars
  BY <1>5 DEF vars
<1>6. QED BY <1>1, <1>2, <1>3, <1>4, <1>5 DEF Next

\* Every variable of the lock keeps the type VaultLock gives it, over all of
\* acquiring, renewing, stealing and releasing (lines 810-1347).
THEOREM TypeCorrect == Spec => []TypeOK
<1>1. Init => TypeOK
  BY NoReadingType, ConstAssumption DEF Init, TypeOK, MaybeDir
<1>2. QED BY <1>1, TypeStep, PTL DEF Spec

-----------------------------------------------------------------------------
(***************************************************************************)
(* Why a late contender is harmless                                        *)
(***************************************************************************)

\* A pid in use is the pid of one running process (Boot).
LEMMA PidStep == PidInv /\ TypeOK /\ [Next]_vars => PidInv'
<1> SUFFICES ASSUME PidInv, TypeOK, [Next]_vars PROVE PidInv'
  OBVIOUS
<1>1. ASSUME NEW p \in Proc, Boot(p) PROVE PidInv'
  BY <1>1 DEF PidInv, TypeOK, Boot, Goto, Running
<1>2. ASSUME \A q \in Proc : Running(q)' => Running(q) PROVE PidInv'
  BY <1>2 DEF PidInv
<1>3. ASSUME NEW p \in Proc, ~Boot(p),
             Crash(p) \/ Begin(p) \/ Heartbeat(p) \/ GiveUp(p) \/ Hold(p) \/ Contend(p)
      PROVE \A q \in Proc : Running(q)' => Running(q)
  <2>1. /\ Running(p)
        /\ \A q \in Proc : q # p => pc'[q] = pc[q]
    BY <1>3 DEF TypeOK, Running, Goto, Crash, Begin, Heartbeat, GiveUp, Hold,
       Sync, AssertOwned, Work, Stop, Retire, Remove, Contend, Publish, Collide,
       Observe, ReadStat, ReadOwner, ReadLease, Judge, Quarantine, Retry
  <2>2. QED BY <2>1 DEF Running
<1>4. CASE UNCHANGED vars
  BY <1>4 DEF PidInv, Running, vars
<1>5. QED BY <1>1, <1>2, <1>3, <1>4 DEF Next

\* lockIsReclaimable (lines 986-999) is right about the owner it reads: the
\* owner of a lock it lets go is dead, be it by its pid or by its identity.
LEMMA ReclaimableIsDead ==
  ASSUME IndInv, NEW p \in Proc, pc[p] = "judge", NEW aged \in BOOLEAN,
         LockIsReclaimable(seen[p], aged), seen[p].owner # NoDir
  PROVE  seen[p].owner \in Dir /\ Dead(seen[p].owner.owner)
<1> DEFINE o == seen[p].owner.owner
<1>1. seen[p].owner \in Dir /\ o \in Proc /\ seen[p].owner.n \in 1..MaxGrants
  BY DEF IndInv, TypeOK, Reading, MaybeDir, Dir
<1>2. pc[o] # "unborn"
  <2>1. seen[p].owner.n <= grants[o] /\ grants[o] \in 0..MaxGrants
    BY <1>1 DEF IndInv, SeenOK, TypeOK
  <2>2. pc[o] = "unborn" => grants[o] = 0
    BY <1>1 DEF IndInv, OwnerInv
  <2>3. QED BY <1>1, <2>1, <2>2, ConstAssumption
<1>3. ~Running(o)
  BY <1>1, ConstAssumption DEF LockIsReclaimable, PidAlive, Impersonated, IndInv, PidInv
<1>4. QED BY <1>1, <1>2, <1>3 DEF Running, Dead

\* The rename that takes a lock takes a dead process's lock, and gives it the
\* one name every other contender for that lock would give it (1011-1018).
LEMMA QuarantineTakesDead ==
  ASSUME IndInv, NEW p \in Proc, Quarantine(p), lock # NoDir, first[p] \notin tombs
  PROVE  lock \in Dir /\ Dead(lock.owner) /\ first[p] = LastPrint(lock)
<1>1. /\ first[p] # NoReading /\ first[p] = seen[p] /\ pc[p] = "quarantine"
      /\ first[p] \in Reading
  BY DEF IndInv, ConfirmOK, Quarantine, TypeOK
<1>2. /\ Dead(first[p].dir.owner)
      /\ first[p].owner = first[p].dir
      /\ first[p].lease[1] = first[p].dir
      /\ lock = first[p].dir \/ LastPrint(first[p].dir) \in tombs
      /\ first[p].lease[2] = beats[first[p].dir]
  BY <1>1 DEF IndInv, ConfirmOK, Reads
<1>3. first[p] = LastPrint(first[p].dir)
  BY <1>1, <1>2 DEF LastPrint, Reading
<1>4. QED BY <1>2, <1>3 DEF IndInv, TypeOK, MaybeDir

\* What no step undoes: grants grow, the dead stay dead, a directory that left
\* the path stays away, and a dead process's lock can only become a tombstone.
Lasting ==
  /\ \A d \in Dir : d.n <= grants[d.owner] => (d.n <= grants[d.owner])'
  /\ \A d \in Dir : Gone(d) => Gone(d)'
  /\ \A q \in Proc : Dead(q) => Dead(q)'
  /\ \A d \in Dir : Dead(d.owner) => beats'[d] = beats[d]
  /\ \A d \in Dir : Dead(d.owner) /\ (lock = d \/ LastPrint(d) \in tombs)
       => (lock = d \/ LastPrint(d) \in tombs)'

LEMMA LastingStep == ASSUME IndInv, [Next]_vars PROVE Lasting
<1> USE DEF IndInv, TypeOK, Lasting, Gone, Dead
<1>1. CASE UNCHANGED vars
  BY <1>1 DEF vars, LastPrint
<1>2. ASSUME NEW p \in Proc, Boot(p) \/ Begin(p) \/ GiveUp(p) PROVE Lasting
  BY <1>2 DEF Boot, Begin, GiveUp, Goto, LastPrint
<1>3. ASSUME NEW p \in Proc, Crash(p) PROVE Lasting
  BY <1>3 DEF Crash, Goto, LastPrint
<1>4. ASSUME NEW p \in Proc, Heartbeat(p) PROVE Lasting
  <2>1. mine[p] \in Dir /\ mine[p].owner = p /\ pc[p] # "dead"
    BY <1>4 DEF Heartbeat, OwnerInv, Holding
  <2>2. \A d \in Dir : Dead(d.owner) => beats'[d] = beats[d]
    BY <1>4, <2>1 DEF Heartbeat
  <2>3. QED BY <1>4, <2>2 DEF Heartbeat, LastPrint
<1>5. ASSUME NEW p \in Proc, Hold(p) PROVE Lasting
  <2>1. CASE Remove(p)
    <3>1. mine[p] \in Dir /\ mine[p].owner = p /\ lock = mine[p] /\ pc[p] # "dead"
      BY <2>1 DEF Remove, OwnerInv, Holding
    <3>2. NoDir \notin Dir
      BY ConstAssumption
    <3>3. QED BY <2>1, <3>1, <3>2 DEF Remove, Goto, LastPrint
  <2>2. CASE ~Remove(p)
    <3>1. UNCHANGED <<lock, grants, beats, tombs>> /\ pc[p] # "dead"
      BY <1>5, <2>2 DEF Hold, Sync, AssertOwned, Work, Stop, Retire
    <3>2. \A q \in Proc : q # p => pc'[q] = pc[q]
      BY <1>5, <2>2 DEF Hold, Sync, AssertOwned, Work, Stop, Retire, Goto
    <3>3. QED BY <3>1, <3>2 DEF LastPrint
  <2>3. QED BY <2>1, <2>2
<1>6. ASSUME NEW p \in Proc, Contend(p) PROVE Lasting
  <2>1. CASE Publish(p)
    <3>1. /\ lock = NoDir
          /\ lock' = [owner |-> p, n |-> grants[p] + 1]
          /\ grants' = [grants EXCEPT ![p] = @ + 1]
          /\ UNCHANGED <<beats, tombs>>
      BY <2>1 DEF Publish
    <3>2. \A q \in Proc : Dead(q) => Dead(q)'
      BY <2>1 DEF Publish, Goto
    <3>3. \A q \in Proc : grants[q] \in Nat /\ grants'[q] >= grants[q]
      BY <3>1, ConstAssumption
    <3>4. \A d \in Dir : d.n <= grants[d.owner] => d.n <= grants'[d.owner] /\ d # lock'
      <4> SUFFICES ASSUME NEW d \in Dir, d.n <= grants[d.owner]
                   PROVE  d.n <= grants'[d.owner] /\ d # lock'
        OBVIOUS
      <4>1. d.owner \in Proc /\ d.n \in Nat
        BY ConstAssumption DEF Dir
      <4>2. QED BY <4>1, <3>1, <3>3
    <3>5. NoDir \notin Dir
      BY ConstAssumption
    <3>6. QED BY <3>1, <3>2, <3>4, <3>5 DEF LastPrint
  <2>2. CASE Quarantine(p)
    <3>1. UNCHANGED <<grants, beats>> /\ \A q \in Proc : Dead(q) => Dead(q)'
      BY <2>2 DEF Quarantine, Retry, Goto
    <3>2. NoDir \notin Dir
      BY ConstAssumption
    <3>3. CASE lock = NoDir \/ first[p] \in tombs
      BY <2>2, <3>1, <3>3 DEF Quarantine, LastPrint
    <3>4. CASE ~(lock = NoDir \/ first[p] \in tombs)
      <4>1. first[p] = LastPrint(lock)
        BY <2>2, <3>4, QuarantineTakesDead
      <4>2. lock' = NoDir /\ tombs' = tombs \cup {LastPrint(lock)}
        BY <2>2, <3>4, <4>1 DEF Quarantine
      <4>3. QED BY <3>1, <3>2, <4>2 DEF LastPrint
    <3>5. QED BY <3>3, <3>4
  <2>3. CASE ~Publish(p) /\ ~Quarantine(p)
    <3>1. UNCHANGED <<lock, grants, beats, tombs>> /\ pc[p] # "dead"
      BY <1>6, <2>3 DEF Contend, Collide, Observe, ReadStat, ReadOwner, ReadLease, Judge
    <3>2. \A q \in Proc : q # p => pc'[q] = pc[q]
      BY <1>6, <2>3 DEF Contend, Collide, Observe, ReadStat, ReadOwner, ReadLease,
         Judge, Retry, Goto
    <3>3. QED BY <3>1, <3>2 DEF LastPrint
  <2>4. QED BY <2>1, <2>2, <2>3
<1>7. QED BY <1>1, <1>2, <1>3, <1>4, <1>5, <1>6 DEF Next

\* The lock at the path is the one its running owner holds, or a dead one's.
LEMMA OwnerStep == ASSUME IndInv, [Next]_vars PROVE OwnerInv'
<1> USE DEF IndInv, TypeOK, OwnerInv, Holding
<1>0. lock # NoDir => lock \in Dir /\ lock.owner \in Proc
  BY DEF MaybeDir, Dir
<1>1. CASE UNCHANGED vars
  BY <1>1 DEF vars
<1>2. ASSUME NEW p \in Proc, Boot(p) \/ Begin(p) \/ GiveUp(p) \/ Crash(p)
      PROVE OwnerInv'
  <2>1. UNCHANGED <<lock, mine, grants>>
    BY <1>2 DEF Boot, Begin, GiveUp, Crash
  <2>2. /\ pc'[p] \notin Holding /\ pc'[p] # "unborn"
        /\ pc[p] \in Holding => pc'[p] = "dead"
        /\ pc[p] # "dead"
        /\ \A q \in Proc : q # p => pc'[q] = pc[q]
    BY <1>2 DEF Boot, Begin, GiveUp, Crash, Goto, Running
  <2>3. QED BY <2>1, <2>2, <1>0
<1>3. ASSUME NEW p \in Proc, Heartbeat(p) PROVE OwnerInv'
  BY <1>3 DEF Heartbeat
<1>4. ASSUME NEW p \in Proc, Hold(p) PROVE OwnerInv'
  <2>1. /\ mine[p] \in Dir /\ mine[p].owner = p /\ lock = mine[p]
        /\ \A q \in Proc \ {p} : pc[q] \notin Holding
    BY <1>4 DEF Hold, Sync, AssertOwned, Work, Stop, Retire, Remove
  <2>2. \A q \in Proc : q # p => pc'[q] = pc[q]
    BY <1>4 DEF Hold, Sync, AssertOwned, Work, Stop, Retire, Remove, Goto
  <2>3. CASE Remove(p)
    BY <2>1, <2>2, <2>3 DEF Remove, Goto
  <2>4. CASE ~Remove(p)
    <3>1. UNCHANGED <<lock, mine, grants>> /\ pc'[p] \in Holding
      BY <1>4, <2>1, <2>4 DEF Hold, Sync, AssertOwned, Work, Stop, Retire, Goto, Owned
    <3>2. QED BY <2>1, <2>2, <3>1
  <2>5. QED BY <2>3, <2>4
<1>5. ASSUME NEW p \in Proc, Contend(p) PROVE OwnerInv'
  <2>1. CASE Publish(p)
    <3> DEFINE d == [owner |-> p, n |-> grants[p] + 1]
    <3>1. /\ lock = NoDir /\ lock' = d /\ mine'[p] = d /\ grants'[p] = grants[p] + 1
          /\ pc'[p] = "sync" /\ d \in Dir
          /\ \A q \in Proc \ {p} : mine'[q] = mine[q] /\ pc'[q] = pc[q] /\ grants'[q] = grants[q]
      BY <2>1, ConstAssumption DEF Publish, Goto, Dir
    <3>2. \A q \in Proc : pc[q] \notin Holding
      BY <3>1, ConstAssumption
    <3>3. QED BY <3>1, <3>2, ConstAssumption
  <2>2. CASE ~Publish(p)
    <3>1. UNCHANGED <<mine, grants>> /\ pc[p] \in Contending /\ pc'[p] \in Contending
      BY <1>5, <2>2 DEF Contend, Collide, Observe, ReadStat, ReadOwner, ReadLease,
         Judge, Quarantine, Retry, Goto, Contending
    <3>2. \A q \in Proc : q # p => pc'[q] = pc[q]
      BY <1>5, <2>2 DEF Contend, Collide, Observe, ReadStat, ReadOwner, ReadLease,
         Judge, Quarantine, Retry, Goto
    <3>3. lock' = lock \/ (lock' = NoDir /\ lock \in Dir /\ Dead(lock.owner))
      <4>1. CASE Quarantine(p) /\ lock # NoDir /\ first[p] \notin tombs
        BY <4>1, QuarantineTakesDead DEF Quarantine
      <4>2. CASE ~(Quarantine(p) /\ lock # NoDir /\ first[p] \notin tombs)
        BY <1>5, <2>2, <4>2 DEF Contend, Collide, Observe, ReadStat, ReadOwner,
           ReadLease, Judge, Quarantine
      <4>3. QED BY <4>1, <4>2
    <3>4. pc[p] \notin Holding \cup {"dead", "unborn"} /\ pc'[p] \notin Holding \cup {"unborn"}
      BY <3>1 DEF Contending
    <3>5. QED BY <3>1, <3>2, <3>3, <3>4, <1>0 DEF Dead
  <2>3. QED BY <2>1, <2>2
<1>6. QED BY <1>1, <1>2, <1>3, <1>4, <1>5 DEF Next

-----------------------------------------------------------------------------
\* Every step but a contender's own leaves its readings and its place alone.
LEMMA OthersReadings ==
  ASSUME TypeOK, NEW p \in Proc, [Next]_vars, ~Contend(p)
  PROVE  /\ seen'[p] = seen[p] \/ (seen'[p] = NoReading /\ pc'[p] = "dead")
         /\ first'[p] = first[p] \/ (first'[p] = NoReading /\ pc'[p] = "dead")
         /\ pc'[p] = pc[p] \/ pc'[p] \notin Reads
<1> USE DEF TypeOK, Reads
<1>1. CASE UNCHANGED vars
  BY <1>1 DEF vars
<1>2. ASSUME NEW q \in Proc, Boot(q) \/ Crash(q) \/ Begin(q) \/ Heartbeat(q) \/ GiveUp(q)
      PROVE /\ seen'[p] = seen[p] \/ (seen'[p] = NoReading /\ pc'[p] = "dead")
            /\ first'[p] = first[p] \/ (first'[p] = NoReading /\ pc'[p] = "dead")
            /\ pc'[p] = pc[p] \/ pc'[p] \notin Reads
  BY <1>2 DEF Boot, Crash, Begin, Heartbeat, GiveUp, Goto
<1>3. ASSUME NEW q \in Proc, Hold(q)
      PROVE /\ UNCHANGED <<seen, first>>
            /\ pc'[p] = pc[p] \/ pc'[p] \notin Reads
  BY <1>3 DEF Hold, Sync, AssertOwned, Work, Stop, Retire, Remove, Goto
<1>4. ASSUME NEW q \in Proc, q # p, Contend(q)
      PROVE seen'[p] = seen[p] /\ first'[p] = first[p] /\ pc'[p] = pc[p]
  BY <1>4 DEF Contend, Publish, Collide, Observe, ReadStat, ReadOwner, ReadLease,
     Judge, Quarantine, Retry, Goto
<1>5. QED BY <1>1, <1>2, <1>3, <1>4 DEF Next

\* What a contender has read stays true of its readings, whatever others do
\* between its system calls.
LEMMA OwnReadingsStep ==
  ASSUME IndInv, [Next]_vars, NEW p \in Proc, ~Contend(p)
  PROVE  (SeenOK(p) /\ FirstOK(p) /\ ConfirmOK(p))'
<1>1. Lasting /\ TypeOK /\ TypeOK'
  BY LastingStep, TypeStep DEF IndInv
<1>2. /\ seen'[p] = seen[p] \/ (seen'[p] = NoReading /\ pc'[p] = "dead")
      /\ first'[p] = first[p] \/ (first'[p] = NoReading /\ pc'[p] = "dead")
      /\ pc'[p] = pc[p] \/ pc'[p] \notin Reads
  BY <1>1, OthersReadings
<1>3. seen[p] \in Reading /\ first[p] \in Reading /\ SeenOK(p) /\ FirstOK(p) /\ ConfirmOK(p)
  BY <1>1 DEF IndInv, TypeOK
<1>4. \A d \in Dir : d.owner \in Proc
  BY DEF Dir
<1>5. SeenOK(p)'
  BY <1>1, <1>2, <1>3, <1>4 DEF SeenOK, Reads, Reading, MaybeDir, Lasting
<1>6. FirstOK(p)'
  BY <1>1, <1>2, <1>3, <1>4 DEF FirstOK, Lasting
<1>7. ConfirmOK(p)'
  <2>1. CASE pc'[p] \notin Reads
    BY <2>1 DEF ConfirmOK, Reads
  <2>2. CASE pc'[p] = pc[p] /\ first'[p] = first[p] /\ seen'[p] = seen[p]
    <3>1. first[p] # NoReading => first[p].dir \in Dir
      BY <1>3 DEF FirstOK
    <3>2. QED BY <1>1, <1>3, <1>4, <2>2, <3>1 DEF ConfirmOK, Reads, Lasting
  <2>3. QED BY <1>2, <2>1, <2>2 DEF Reads
<1>8. QED BY <1>5, <1>6, <1>7

\* Each of a contender's own calls keeps its readings honest.
LEMMA ContendStep ==
  ASSUME IndInv, NEW p \in Proc, Contend(p)
  PROVE  (SeenOK(p) /\ FirstOK(p) /\ ConfirmOK(p))'
<1>1. [Next]_vars /\ Lasting /\ TypeOK /\ TypeOK'
  BY LastingStep, TypeStep DEF IndInv, Next
<1>2. seen[p] \in Reading /\ first[p] \in Reading /\ SeenOK(p) /\ FirstOK(p) /\ ConfirmOK(p)
  BY <1>1 DEF IndInv, TypeOK
<1>3. /\ NoDir \notin Dir
      /\ \A d \in Dir : d.owner \in Proc
      /\ lock # NoDir => lock \in Dir /\ lock.n <= grants[lock.owner]
      /\ NoReading.dir = NoDir
  BY <1>1, ConstAssumption DEF Dir, IndInv, OwnerInv, TypeOK, MaybeDir, NoReading
<1>4. CASE first'[p] = first[p] /\ pc'[p] \notin Reads
  BY <1>1, <1>2, <1>3, <1>4 DEF SeenOK, FirstOK, ConfirmOK, Reads, Lasting
<1>5. CASE first'[p] = NoReading /\ pc'[p] = "publish"
  BY <1>5 DEF SeenOK, FirstOK, ConfirmOK, Reads
<1>6. CASE Publish(p) \/ Collide(p) \/ Observe(p)
  BY <1>1, <1>4, <1>6 DEF TypeOK, Publish, Collide, Observe, Goto, Reads
<1>7. ASSUME Retry(p) PROVE first'[p] = NoReading /\ pc'[p] = "publish"
  BY <1>1, <1>7 DEF TypeOK, Retry, Goto
<1>8. CASE ReadStat(p)
  <2>1. CASE lock = NoDir
    BY <1>5, <1>7, <1>8, <2>1 DEF ReadStat
  <2>2. CASE lock # NoDir
    <3>1. /\ seen'[p].dir = lock /\ seen'[p].lease = NoLease /\ pc'[p] = "owner"
          /\ UNCHANGED <<first, lock, grants, tombs, beats>>
          /\ \A q \in Proc : Dead(q) => Dead(q)'
      BY <1>1, <1>8, <2>2 DEF ReadStat, TypeOK, Goto, NoReading, Lasting
    <3>2. SeenOK(p)'
      BY <1>3, <2>2, <3>1 DEF SeenOK, Reads
    <3>3. FirstOK(p)'
      BY <1>1, <1>2, <1>3, <3>1 DEF FirstOK, Lasting
    <3>4. ConfirmOK(p)'
      BY <1>2, <1>3, <3>1, <2>2 DEF ConfirmOK, FirstOK, Gone
    <3>5. QED BY <3>2, <3>3, <3>4
  <2>3. QED BY <2>1, <2>2
<1>9. CASE ReadOwner(p)
  <2>1. /\ seen'[p] = [seen[p] EXCEPT !.owner = lock]
        /\ pc[p] = "owner" /\ pc'[p] = IF lock = NoDir THEN "judge" ELSE "lease"
        /\ UNCHANGED <<first, lock, grants, tombs, beats>>
    BY <1>1, <1>9 DEF ReadOwner, TypeOK, Goto
  <2>2. /\ seen'[p].dir = seen[p].dir /\ seen'[p].owner = lock
        /\ seen'[p].lease = seen[p].lease
    BY <1>2, <2>1 DEF Reading
  <2>3. /\ seen[p].dir \in Dir /\ seen[p].dir.n <= grants[seen[p].dir.owner]
        /\ lock # seen[p].dir => Gone(seen[p].dir)'
    BY <1>2, <2>1 DEF SeenOK, Reads, Gone
  <2>4. SeenOK(p)'
    <3>1. seen'[p].lease = NoLease /\ NoLease[1] = NoDir
      BY <1>2, <2>1, <2>2 DEF SeenOK, NoLease
    <3>2. lock = NoDir => Gone(seen[p].dir)'
      BY <1>3, <2>3
    <3>3. QED BY <1>3, <2>1, <2>2, <2>3, <3>1, <3>2 DEF SeenOK, Reads
  <2>5. FirstOK(p)'
    BY <1>1, <1>2, <1>3, <2>1 DEF FirstOK, Lasting
  <2>6. ConfirmOK(p)'
    <3>1. seen'[p].lease[1] = NoDir
      BY <1>2, <2>1, <2>2 DEF SeenOK, NoLease
    <3>2. QED BY <1>1, <1>2, <1>3, <2>1, <2>2, <3>1 DEF ConfirmOK, FirstOK, Reads, Lasting
  <2>7. QED BY <2>4, <2>5, <2>6
<1>10. CASE ReadLease(p)
  <2> DEFINE stamp == IF lock = NoDir THEN NoLease ELSE <<lock, beats[lock]>>
  <2>1. /\ seen'[p] = [seen[p] EXCEPT !.lease = stamp]
        /\ pc[p] = "lease" /\ pc'[p] = "judge"
        /\ UNCHANGED <<first, lock, grants, tombs, beats>>
    BY <1>1, <1>10 DEF ReadLease, TypeOK, Goto
  <2>2. /\ seen'[p].dir = seen[p].dir /\ seen'[p].owner = seen[p].owner
        /\ seen'[p].lease = stamp
    BY <1>2, <2>1 DEF Reading
  <2>3. stamp[1] = lock /\ (lock # NoDir => stamp[2] = beats[lock])
    BY DEF NoLease
  <2>4. SeenOK(p)'
    BY <1>2, <1>3, <2>1, <2>2, <2>3 DEF SeenOK, Reads, Gone
  <2>5. FirstOK(p)'
    BY <1>1, <1>2, <1>3, <2>1 DEF FirstOK, Lasting
  <2>6. ConfirmOK(p)'
    BY <1>1, <1>2, <1>3, <2>1, <2>2, <2>3 DEF ConfirmOK, FirstOK, Reads, Lasting
  <2>7. QED BY <2>4, <2>5, <2>6
<1>11. ASSUME NEW aged \in BOOLEAN, Judge(p, aged)
       PROVE  (SeenOK(p) /\ FirstOK(p) /\ ConfirmOK(p))'
  <2>1. /\ pc[p] = "judge" /\ UNCHANGED <<lock, grants, tombs, beats>>
        /\ seen[p].dir \in Dir
    BY <1>2, <1>11 DEF Judge, SeenOK, Reads
  <2>2. CASE /\ LockIsReclaimable(seen[p], aged)
             /\ first'[p] = seen[p] /\ pc'[p] = "stat"
    <3>1. FirstOK(p)'
      <4>1. CASE Gone(seen[p].dir)
        BY <1>1, <2>1, <2>2, <4>1 DEF FirstOK, Lasting
      <4>2. CASE ~Gone(seen[p].dir)
        <5>1. seen[p].owner = seen[p].dir /\ seen[p].lease[1] = seen[p].dir
          BY <1>2, <2>1, <4>2 DEF SeenOK
        <5>2. Dead(seen[p].dir.owner)
          BY <1>3, <2>1, <2>2, <5>1, ReclaimableIsDead
        <5>3. QED BY <1>1, <1>3, <2>1, <2>2, <5>1, <5>2 DEF FirstOK, Lasting
      <4>3. QED BY <4>1, <4>2
    <3>2. QED BY <2>2, <3>1 DEF SeenOK, ConfirmOK, Reads
  <2>3. CASE first[p] = seen[p] /\ pc'[p] = "quarantine" /\ UNCHANGED <<seen, first>>
    <3>1. first[p] # NoReading
      BY <1>3, <2>1, <2>3
    <3>2. SeenOK(p)'
      BY <1>2, <2>1, <2>3 DEF SeenOK, Reads
    <3>3. FirstOK(p)'
      BY <1>1, <1>2, <1>3, <2>1, <2>3 DEF FirstOK, Lasting
    <3>4. ConfirmOK(p)'
      BY <1>1, <1>2, <1>3, <2>1, <2>3, <3>1 DEF ConfirmOK, FirstOK, Reads, Lasting
    <3>5. QED BY <3>2, <3>3, <3>4
  <2>4. CASE Retry(p)
    BY <1>5, <1>7, <2>4
  <2>5. QED BY <1>1, <1>11, <2>2, <2>3, <2>4 DEF Judge, Goto, TypeOK
<1>12. CASE Quarantine(p)
  BY <1>5, <1>7, <1>12 DEF Quarantine
<1>13. QED
  BY <1>6, <1>8, <1>9, <1>10, <1>11, <1>12 DEF Contend

-----------------------------------------------------------------------------
(***************************************************************************)
(* The theorems                                                            *)
(***************************************************************************)

LEMMA IndInit == Init => IndInv
<1> SUFFICES ASSUME Init PROVE IndInv
  OBVIOUS
<1>1. TypeOK
  BY NoReadingType, ConstAssumption DEF Init, TypeOK, MaybeDir
<1>2. PidInv /\ OwnerInv
  BY DEF Init, PidInv, OwnerInv, Running, Holding
<1>3. \A p \in Proc : SeenOK(p) /\ FirstOK(p) /\ ConfirmOK(p)
  BY DEF Init, SeenOK, FirstOK, ConfirmOK, Reads
<1>4. QED BY <1>1, <1>2, <1>3 DEF IndInv

LEMMA IndStep == IndInv /\ [Next]_vars => IndInv'
<1> SUFFICES ASSUME IndInv, [Next]_vars PROVE IndInv'
  OBVIOUS
<1>1. TypeOK' /\ PidInv' /\ OwnerInv'
  BY TypeStep, PidStep, OwnerStep DEF IndInv
<1>2. ASSUME NEW p \in Proc PROVE (SeenOK(p) /\ FirstOK(p) /\ ConfirmOK(p))'
  BY OwnReadingsStep, ContendStep
<1>3. QED BY <1>1, <1>2 DEF IndInv

\* The inductive invariant holds in every state of the specification, as long
\* as only the vault's own code (lines 1001-1347) moves the lock directory.
THEOREM Inductive == Spec => []IndInv
BY IndInit, IndStep, PTL DEF Spec

\* No contender, however late, takes the lock of a running process
\* (quarantineStaleLock, lines 1001-1038).
THEOREM HolderSafe == Spec => []HolderKeepsLock
<1>1. IndInv => HolderKeepsLock
  BY DEF IndInv, OwnerInv, HolderKeepsLock, Owned
<1>2. QED BY <1>1, Inductive, PTL

\* Two processes are never inside the vault at once (acquireLock, lines
\* 1228-1310), for any number of processes, crashes and reused pids.
THEOREM Exclusive == Spec => []MutualExclusion
<1>1. IndInv => MutualExclusion
  BY DEF IndInv, OwnerInv, MutualExclusion, Holding
<1>2. QED BY <1>1, Inductive, PTL

-----------------------------------------------------------------------------
(***************************************************************************)
(* The directory lock implements the lease.                                *)
(***************************************************************************)
DeadSet == {p \in Proc : pc[p] = "dead"}
WorkingSet == {p \in Proc : pc[p] \in Holding \ {"remove"}}

\* A step of the lock is a step of the lease, or leaves the lease alone.
LEMMA LeaseStep ==
  ASSUME IndInv, IndInv', [Next]_vars
  PROVE  [Lease!Next]_(Lease!vars)
<1> USE DEF IndInv, TypeOK, Lease!vars, Lease!Next
<1>0. NoDir \notin Dir /\ NoHolder \notin Proc /\ \A d \in Dir : d.owner \in Proc
  BY ConstAssumption DEF Dir
<1>1. CASE UNCHANGED vars
  BY <1>1 DEF vars
<1>2. ASSUME NEW p \in Proc, Crash(p) PROVE Lease!Die({p})
  BY <1>2 DEF Crash, Goto, Lease!Die, Holding
<1>3. ASSUME NEW p \in Proc, Publish(p) PROVE Lease!Acquire(p)
  <2>1. lock = NoDir /\ lock' # NoDir /\ lock'.owner = p /\ pc[p] # "dead"
    BY <1>0, <1>3 DEF Publish, MaybeDir, Dir
  <2>2. DeadSet' = DeadSet /\ WorkingSet' = WorkingSet \cup {p}
    BY <1>3 DEF Publish, Goto, DeadSet, WorkingSet, Holding
  <2>3. QED BY <2>1, <2>2 DEF Lease!Acquire, DeadSet, WorkingSet
<1>4. ASSUME NEW p \in Proc, Remove(p) PROVE Lease!Release(p)
  <2>1. lock \in Dir /\ lock.owner = p /\ pc[p] = "remove" /\ lock' = NoDir
    BY <1>4 DEF Remove, OwnerInv, Holding
  <2>2. DeadSet' = DeadSet /\ WorkingSet' = WorkingSet
    BY <1>4 DEF Remove, Goto, DeadSet, WorkingSet, Holding
  <2>3. QED BY <1>0, <2>1, <2>2 DEF Lease!Release, DeadSet, WorkingSet
<1>5. ASSUME NEW p \in Proc, Quarantine(p), lock # NoDir, first[p] \notin tombs
      PROVE Lease!Reclaim
  <2>1. lock \in Dir /\ Dead(lock.owner) /\ lock' = NoDir
    BY <1>5, QuarantineTakesDead DEF Quarantine
  <2>2. DeadSet' = DeadSet /\ WorkingSet' = WorkingSet
    BY <1>5 DEF Quarantine, Retry, Goto, DeadSet, WorkingSet, Holding
  <2>3. QED BY <1>0, <2>1, <2>2 DEF Lease!Reclaim, DeadSet, WorkingSet, Dead
<1>6. ASSUME NEW p \in Proc, lock' = lock, pc'[p] # "dead", pc[p] # "dead",
             pc'[p] \in Holding \ {"remove"} <=> pc[p] \in Holding \ {"remove"},
             \A q \in Proc : q # p => pc'[q] = pc[q]
      PROVE UNCHANGED Lease!vars
  BY <1>6
<1>7. ASSUME NEW p \in Proc, Boot(p) \/ Begin(p) \/ Heartbeat(p) \/ GiveUp(p)
      PROVE UNCHANGED Lease!vars
  BY <1>6, <1>7 DEF Boot, Begin, Heartbeat, GiveUp, Goto, Holding
<1>8. ASSUME NEW p \in Proc, Retire(p) PROVE Lease!Finish(p)
  <2>1. pc[p] = "retire" /\ pc' = [pc EXCEPT ![p] = "remove"] /\ lock' = lock
    BY <1>8 DEF Retire, OwnerInv, Holding, Owned, Goto
  <2>2. DeadSet' = DeadSet /\ WorkingSet' = WorkingSet \ {p} /\ p \in WorkingSet
    BY <2>1 DEF DeadSet, WorkingSet, Holding
  <2>3. QED BY <2>1, <2>2 DEF Lease!Finish, DeadSet, WorkingSet
<1>9. ASSUME NEW p \in Proc, Sync(p) \/ AssertOwned(p) \/ Work(p) \/ Stop(p)
      PROVE UNCHANGED Lease!vars
  BY <1>6, <1>9 DEF Sync, AssertOwned, Work, Stop, Goto, Holding
<1>10. ASSUME NEW p \in Proc, Contend(p), ~Publish(p),
              ~(Quarantine(p) /\ lock # NoDir /\ first[p] \notin tombs)
       PROVE UNCHANGED Lease!vars
  BY <1>6, <1>10 DEF Contend, Collide, Observe, ReadStat, ReadOwner, ReadLease,
     Judge, Quarantine, Retry, Goto, Holding
<1>11. QED
  BY <1>1, <1>2, <1>3, <1>4, <1>5, <1>7, <1>8, <1>9, <1>10 DEF Next, Hold

\* The rename protocol of acquireLock, its heartbeat and its tombstones (lines
\* 943-1347) implements the lease: nobody takes it from a holder that works,
\* and it becomes free only when the holder gives it back or is dead.
THEOREM ImplementsLease == Spec => LeaseSpec
<1>1. Init => Lease!Init
  BY DEF Init, Lease!Init, Holding
<1>2. QED
  BY <1>1, Inductive, LeaseStep, PTL DEF Spec, LeaseSpec, Lease!Spec
=============================================================================
