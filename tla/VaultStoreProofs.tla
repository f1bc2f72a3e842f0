-------------------------- MODULE VaultStoreProofs --------------------------
(***************************************************************************)
(* Proofs about the vault's files for any set of processes, keys and       *)
(* records and any number of envelopes.                                    *)
(***************************************************************************)
EXTENDS VaultStore, TLAPS

\* What the directory is written with is a directory.
LEMMA PutType ==
    ASSUME TypeOK, NEW d \in Disk, Put(d)
    PROVE  now' \in Disk /\ past' \subseteq Disk
BY DEF TypeOK, Put

\* What is left in memory has its type.
LEMMA LoseType ==
    ASSUME TypeOK, NEW P \in SUBSET Proc, Lose(P)
    PROVE  /\ pc' \in [Proc -> Step] /\ op' \in [Proc -> Op]
           /\ key' \in [Proc -> Key \cup {None}]
           /\ snapshot' \in [Proc -> SUBSET Record]
           /\ masterKey' \in [Proc -> Key \cup {None}]
           /\ envelope' \in [Proc -> 0 .. MaxStamp]
<1> USE StoreAssumption DEF Lose, TypeOK
<1>1. pc' \in [Proc -> Step]
  BY DEF Step
<1>2. op' \in [Proc -> Op]
  BY DEF Op
<1>3. /\ key' \in [Proc -> Key \cup {None}]
      /\ snapshot' \in [Proc -> SUBSET Record]
  OBVIOUS
<1>4. /\ masterKey' \in [Proc -> Key \cup {None}]
      /\ envelope' \in [Proc -> 0 .. MaxStamp]
  OBVIOUS
<1>5. QED BY <1>1, <1>2, <1>3, <1>4

\* The initial state satisfies the invariant.
LEMMA InitInv == Init => IndInv
<1> SUFFICES ASSUME Init PROVE IndInv
  OBVIOUS
<1> USE StoreAssumption DEF Init, Lease!Init
<1>1. Empty \in Disk
  BY DEF Empty, Disk
<1>2. TypeOK
  <2>1. /\ now \in Disk /\ past \subseteq Disk
        /\ stamps \in 0 .. MaxStamp
    BY <1>1
  <2>2. pc \in [Proc -> Step] /\ op \in [Proc -> Op]
    BY DEF Step, Op
  <2>3. /\ key \in [Proc -> Key \cup {None}]
        /\ snapshot \in [Proc -> SUBSET Record]
        /\ masterKey \in [Proc -> Key \cup {None}]
        /\ envelope \in [Proc -> 0 .. MaxStamp]
    OBVIOUS
  <2>4. QED BY <2>1, <2>2, <2>3 DEF TypeOK
<1>3. \A d \in Disks : d = Empty
  BY DEF Disks
<1>4. Alone /\ Stamped /\ Entitled
  BY <1>3 DEF Alone, Stamped, Entitled, Empty
<1>5. \A p \in Proc : Knows(p)
  BY DEF Knows
<1>6. NoDataNoRecord /\ KeyOpensData /\ SavedStays /\ ClearKeyGone
  BY <1>3 DEF NoDataNoRecord, KeyOpensData, Openable, SavedStays, ClearKeyGone, Empty
<1>7. QED BY <1>2, <1>4, <1>5, <1>6 DEF IndInv

\* A step keeps the types.
LEMMA TypeStep == TypeOK /\ [Next]_vars => TypeOK'
<1> SUFFICES ASSUME TypeOK, [Next]_vars PROVE TypeOK'
  OBVIOUS
<1> USE StoreAssumption DEF fileVars, leaseVars, opVars, masterVars, histVars
<1> USE DEF Lease!vars, Lease!Acquire, Lease!Finish, Lease!Release, Lease!Die, Lease!Reclaim
<1>1. CASE UNCHANGED vars
  BY <1>1 DEF vars, TypeOK
<1>2. ASSUME NEW p \in Proc, NEW o \in Op, Begin(p, o) PROVE TypeOK'
  BY <1>2 DEF Begin, TypeOK, Step
<1>3. ASSUME NEW p \in Proc, End(p) \/ Release(p) \/ Locked(p) \/ AutoLock(p)
      PROVE TypeOK'
  BY <1>3 DEF End, Release, Locked, AutoLock, Done, TypeOK, Step, Op
<1>4. ASSUME NEW p \in Proc, ReadKey(p) \/ UseMaster(p) \/ Unwrap(p) PROVE TypeOK'
  <2>1. PICK k \in Key \cup {None} : Opened(p, k)
    BY <1>4 DEF ReadKey, UseMaster, Unwrap, TypeOK, Disk
  <2>2. now.saved \subseteq Record
    BY DEF TypeOK, Disk
  <2>3. QED BY <2>1, <2>2 DEF Opened, TypeOK, Step
<1>5. ASSUME NEW p \in Proc, DrawKey(p) PROVE TypeOK'
  <2>1. PICK k \in Key \ used : /\ used' = used \cup {k}
                                /\ key' = [key EXCEPT ![p] = k]
                                /\ Put([now EXCEPT !.key = k])
    BY <1>5 DEF DrawKey
  <2>2. [now EXCEPT !.key = k] \in Disk
    BY DEF TypeOK, Disk
  <2>3. now' \in Disk /\ past' \subseteq Disk
    BY <2>1, <2>2, PutType
  <2>4. QED BY <1>5, <2>1, <2>3 DEF DrawKey, Goto, TypeOK, Step
<1>6. ASSUME NEW p \in Proc, KeyDurable(p) \/ EmptyDurable(p) PROVE TypeOK'
  BY <1>6 DEF KeyDurable, EmptyDurable, Fsync, Goto, TypeOK, Step
<1>7. ASSUME NEW p \in Proc, WriteEmpty(p) PROVE TypeOK'
  <2>1. [now EXCEPT !.data = key[p], !.saved = {}] \in Disk
    BY DEF TypeOK, Disk
  <2>2. now' \in Disk /\ past' \subseteq Disk
    BY <1>7, <2>1, PutType DEF WriteEmpty
  <2>3. QED BY <1>7, <2>2 DEF WriteEmpty, Goto, TypeOK, Step
<1>8. ASSUME NEW p \in Proc, Save(p) PROVE TypeOK'
  <2>1. PICK r \in Record \ snapshot[p] :
           /\ snapshot' = [snapshot EXCEPT ![p] = @ \cup {r}]
           /\ Put([now EXCEPT !.data = key[p], !.saved = snapshot[p] \cup {r}])
    BY <1>8 DEF Save
  <2>2. [now EXCEPT !.data = key[p], !.saved = snapshot[p] \cup {r}] \in Disk
    BY DEF TypeOK, Disk
  <2>3. now' \in Disk /\ past' \subseteq Disk
    BY <2>1, <2>2, PutType
  <2>4. QED BY <1>8, <2>1, <2>3 DEF Save, Goto, TypeOK, Step
<1>9. ASSUME NEW p \in Proc, Saved(p) \/ LockDurable(p) PROVE TypeOK'
  <2>1. snapshot[p] \subseteq Record
    BY DEF TypeOK
  <2>2. CASE Saved(p)
    BY <2>1, <2>2 DEF Saved, Fsync, Done, TypeOK, Step, Op
  <2>3. CASE LockDurable(p)
    BY <2>3 DEF LockDurable, Fsync, Done, TypeOK, Step, Op
  <2>4. QED BY <1>9, <2>2, <2>3
<1>10. ASSUME NEW p \in Proc, WrapKey(p) \/ Relock(p) PROVE TypeOK'
  <2>0. NewStamp
    BY <1>10 DEF WrapKey, Relock
  <2>1. /\ stamps + 1 \in 0 .. MaxStamp
        /\ stamps' = stamps + 1
    BY <2>0 DEF NewStamp, TypeOK
  <2>2. /\ [now EXCEPT !.master = key[p], !.stamp = stamps + 1] \in Disk
        /\ [now EXCEPT !.stamp = stamps + 1] \in Disk
    BY <2>1 DEF TypeOK, Disk
  <2>3. now' \in Disk /\ past' \subseteq Disk
    BY <1>10, <2>2, PutType DEF WrapKey, Relock
  <2>4. QED BY <1>10, <2>1, <2>3 DEF WrapKey, Relock, Goto, TypeOK, Step
<1>11. ASSUME NEW p \in Proc,
              WrapDurable(p) \/ KeyRetired(p) \/ Unlocked(p) PROVE TypeOK'
  <2>1. now.stamp \in 0 .. MaxStamp
    BY DEF TypeOK, Disk
  <2>2. CASE WrapDurable(p)
    BY <2>1, <2>2 DEF WrapDurable, Remember, Fsync, Goto, TypeOK, Step
  <2>3. CASE KeyRetired(p)
    BY <2>1, <2>3 DEF KeyRetired, Remember, Fsync, Done, TypeOK, Step, Op
  <2>4. CASE Unlocked(p)
    BY <2>1, <2>4 DEF Unlocked, Remember, Done, TypeOK, Step, Op
  <2>5. QED BY <1>11, <2>2, <2>3, <2>4
<1>12. ASSUME NEW p \in Proc, RetireKey(p) \/ RetireLegacy(p) PROVE TypeOK'
  <2>1. [now EXCEPT !.key = None] \in Disk
    BY DEF TypeOK, Disk
  <2>2. now' \in Disk /\ past' \subseteq Disk
    BY <1>12, <2>1, PutType DEF RetireKey, RetireLegacy
  <2>3. QED BY <1>12, <2>2 DEF RetireKey, RetireLegacy, Goto, TypeOK, Step
<1>13. ASSUME NEW p \in Proc, Die(p) PROVE TypeOK'
  BY <1>13, LoseType DEF Die, TypeOK
<1>14. CASE Reclaim
  BY <1>14 DEF Reclaim, TypeOK
<1>15. CASE PowerCut
  BY <1>15, LoseType DEF PowerCut, Disks, Started, TypeOK
<1>16. QED
  BY <1>1, <1>2, <1>3, <1>4, <1>5, <1>6, <1>7, <1>8, <1>9, <1>10, <1>11,
     <1>12, <1>13, <1>14, <1>15 DEF Next

-----------------------------------------------------------------------------
(* What the directory may be taken back to *)

\* What the invariant says of each directory the vault may have after a power
\* failure, and of the envelopes' numbers.
Files == Stamped /\ NoDataNoRecord /\ KeyOpensData /\ SavedStays /\ ClearKeyGone

\* A directory that may be written.
Fits(disk) ==
    /\ Openable(disk)
    /\ disk.data = None => disk.saved = {}
    /\ acked \subseteq disk.saved
    /\ retired => disk.key = None /\ disk.master # None

\* Writing a directory that fits keeps what the files promise.
LEMMA FilesPut ==
    ASSUME IndInv, TypeOK', NEW d \in Disk, Put(d), Fits(d), d.stamp <= stamps',
           stamps' >= stamps, UNCHANGED <<acked, retired, envelope>>
    PROVE  Files'
<1> USE DEF IndInv
<1>1. Disks' = Disks \cup {d}
  BY DEF Disks, Put
<1>2. Stamped'
  <2>1. \A e \in Disks : e.stamp \in Nat /\ e.stamp <= stamps
    BY DEF Stamped, TypeOK, Disk, Disks
  <2>2. \A p \in Proc : envelope[p] \in Nat /\ envelope[p] <= stamps
    BY DEF Stamped, TypeOK
  <2>3. stamps \in Nat /\ stamps' \in Nat
    BY DEF TypeOK
  <2>4. \A e \in Disks' : e.stamp <= stamps'
    BY <1>1, <2>1, <2>3
  <2>5. \A p \in Proc : envelope'[p] <= stamps'
    BY <2>2, <2>3
  <2>6. QED BY <2>4, <2>5 DEF Stamped
<1>3. NoDataNoRecord' /\ KeyOpensData'
  BY <1>1 DEF NoDataNoRecord, KeyOpensData, Fits, Openable
<1>4. SavedStays' /\ ClearKeyGone'
  BY <1>1 DEF SavedStays, ClearKeyGone, Fits
<1>5. QED BY <1>2, <1>3, <1>4 DEF Files

\* An fsync leaves one directory; what is then promised of it holds.
LEMMA FilesFsync ==
    ASSUME IndInv, Fsync, UNCHANGED stamps, acked' \subseteq now.saved,
           retired' => now.key = None /\ now.master # None,
           \A p \in Proc : envelope'[p] \in {envelope[p], now.stamp}
    PROVE  Files'
<1> USE DEF IndInv
<1>1. Disks' = {now} /\ now \in Disks
  BY DEF Disks, Fsync
<1>2. Stamped'
  BY <1>1 DEF Stamped
<1>3. NoDataNoRecord' /\ KeyOpensData'
  BY <1>1 DEF NoDataNoRecord, KeyOpensData, Openable
<1>4. SavedStays' /\ ClearKeyGone'
  BY <1>1 DEF SavedStays, ClearKeyGone
<1>5. QED BY <1>2, <1>3, <1>4 DEF Files

\* A step that leaves the files alone keeps what they promise.
LEMMA FilesSame ==
    ASSUME IndInv, UNCHANGED <<fileVars, acked, retired>>,
           \A p \in Proc : envelope'[p] \in {envelope[p], now.stamp, 0}
    PROVE  Files'
<1> USE DEF IndInv
<1>1. Disks' = Disks /\ now \in Disks
  BY DEF Disks, fileVars
<1>2. stamps \in Nat /\ stamps' = stamps
  BY DEF TypeOK, fileVars
<1>3. Stamped'
  BY <1>1, <1>2 DEF Stamped
<1>4. NoDataNoRecord' /\ KeyOpensData'
  BY <1>1 DEF NoDataNoRecord, KeyOpensData, Openable
<1>5. SavedStays' /\ ClearKeyGone'
  BY <1>1 DEF SavedStays, ClearKeyGone
<1>6. QED BY <1>3, <1>4, <1>5 DEF Files

\* The directory now is one of those.
LEMMA NowFits == IndInv => Fits(now) /\ now \in Disk
BY DEF IndInv, Disks, Fits, NoDataNoRecord, KeyOpensData, SavedStays, ClearKeyGone, TypeOK
-----------------------------------------------------------------------------
(* One operation at a time *)

Active == Step \ {"unborn", "idle"}

\* While an operation runs there is no other.
LEMMA Others ==
    ASSUME IndInv, NEW p \in Proc, pc[p] \in Active, NEW q \in Proc, q # p
    PROVE  pc[q] \in {"unborn", "idle"} /\ holder = p
<1>1. pc[q] \in Step /\ Alone
  BY DEF IndInv, TypeOK
<1>2. p \in working
  BY <1>1 DEF Alone, Active
<1>3. q \notin working /\ holder = p
  BY <1>1, <1>2 DEF Alone
<1>4. QED BY <1>1, <1>3 DEF Alone

\* The operation of p takes a step within itself.
LEMMA Inner ==
    ASSUME IndInv, NEW p \in Proc, pc[p] \in Active, NEW s \in Active,
           pc' = [pc EXCEPT ![p] = s], UNCHANGED leaseVars,
           \A q \in Proc : q # p => masterKey'[q] = masterKey[q],
           Knows(p)'
    PROVE  Alone' /\ \A q \in Proc : Knows(q)'
<1>1. TypeOK /\ Alone
  BY DEF IndInv
<1>2. \A q \in Proc : q # p => pc'[q] = pc[q]
  BY <1>1 DEF TypeOK
<1>3. pc'[p] = s
  BY <1>1 DEF TypeOK
<1>4. Alone'
  BY <1>1, <1>2, <1>3 DEF Alone, Active, leaseVars
<1>5. ASSUME NEW q \in Proc, q # p PROVE Knows(q)'
  <2>1. pc'[q] \in {"unborn", "idle"}
    BY <1>2, <1>5, Others
  <2>2. QED BY <2>1 DEF Knows
<1>6. QED BY <1>4, <1>5

\* The operation of p ends.
LEMMA Outer ==
    ASSUME IndInv, NEW p \in Proc, Done(p),
           \A q \in Proc : q # p => masterKey'[q] = masterKey[q]
    PROVE  Alone' /\ \A q \in Proc : Knows(q)'
<1>1. TypeOK /\ Alone
  BY DEF IndInv
<1>2. /\ \A q \in Proc : q # p => pc'[q] = pc[q]
      /\ pc'[p] = "idle"
      /\ p \in working /\ working' = working \ {p} /\ holder' = holder
  BY <1>1 DEF TypeOK, Done, Lease!Finish
<1>3. Alone'
  BY <1>1, <1>2 DEF Alone
<1>4. \A q \in Proc : pc'[q] \in {"unborn", "idle"}
  <2>1. pc[p] \in Active
    BY <1>1, <1>2 DEF Alone, Active, TypeOK
  <2>2. QED BY <1>2, <2>1, Others
<1>5. QED BY <1>3, <1>4 DEF Knows

\* A step that unlocks nothing and writes no envelope entitles nobody.
LEMMA EntitledKept ==
    ASSUME IndInv, now'.stamp = now.stamp, UNCHANGED <<envelope, entered>>,
           \A q \in Proc : masterKey'[q] \in {masterKey[q], None},
           \A q \in Proc : pc'[q] = "lock fsync" => pc[q] = "lock fsync"
    PROVE  Entitled'
BY DEF IndInv, Entitled

\* A process that has just verified the password is entitled.
LEMMA EntitledRemember ==
    ASSUME IndInv, NEW p \in Proc, Remember(p), now'.stamp = now.stamp,
           pc[p] \in Active, pc'[p] # "lock fsync",
           \A q \in Proc : q # p => pc'[q] = pc[q]
    PROVE  Entitled'
<1>1. \A q \in Proc : q # p => masterKey'[q] = masterKey[q] /\ envelope'[q] = envelope[q]
  BY DEF Remember, IndInv, TypeOK
<1>2. p \in entered' /\ entered \subseteq entered'
  BY DEF Remember
<1>3. \A q \in Proc : pc'[q] # "lock fsync"
  <2>1. \A q \in Proc : q # p => pc[q] \in {"unborn", "idle"}
    BY Others
  <2>2. QED BY <2>1
<1>4. QED BY <1>1, <1>2, <1>3 DEF IndInv, Entitled
-----------------------------------------------------------------------------
(* The steps *)

\* The parts of the invariant, put together.
LEMMA Parts ==
    TypeOK' /\ Alone' /\ (\A q \in Proc : Knows(q)') /\ Entitled' /\ Files' => IndInv'
BY DEF IndInv, Files

\* Beginning, ending and giving back the lock.
LEMMA StepBorders ==
    ASSUME IndInv, TypeOK', NEW p \in Proc,
           (\E o \in Op : Begin(p, o)) \/ End(p) \/ Release(p) \/ Locked(p) \/ Reclaim
    PROVE  IndInv'
<1> USE DEF fileVars, leaseVars, opVars, masterVars, histVars
<1>1. Files'
  BY FilesSame DEF Begin, End, Release, Locked, Reclaim
<1>2. Entitled'
  <2>1. pc'[p] # "lock fsync" \/ UNCHANGED pc
    BY DEF Begin, End, Release, Locked, Reclaim, Done, IndInv, TypeOK
  <2>2. \A q \in Proc : q # p => pc'[q] = pc[q]
    BY DEF Begin, End, Release, Locked, Reclaim, Done, IndInv, TypeOK
  <2>3. \A q \in Proc : masterKey'[q] \in {masterKey[q], None}
    BY DEF Begin, End, Release, Locked, Reclaim, IndInv, TypeOK
  <2>4. UNCHANGED <<now, envelope, entered>>
    BY DEF Begin, End, Release, Locked, Reclaim
  <2>5. QED BY <2>1, <2>2, <2>3, <2>4, EntitledKept
<1>3. Alone' /\ \A q \in Proc : Knows(q)'
  <2>1. CASE End(p) \/ Locked(p)
    BY <2>1, Outer DEF End, Locked, IndInv, TypeOK
  <2>2. ASSUME NEW o \in Op, Begin(p, o) PROVE Alone' /\ \A q \in Proc : Knows(q)'
    <3>1. /\ holder = NoHolder /\ holder' = p /\ working' = working \cup {p}
          /\ pc' = [pc EXCEPT ![p] = "load"]
          /\ p \notin dead /\ dead' = dead
      BY <2>2 DEF Begin, Lease!Acquire
    <3>2. TypeOK /\ Alone
      BY DEF IndInv
    <3>3. working = {}
      BY <3>1, <3>2, StoreAssumption DEF Alone, TypeOK
    <3>4. Alone'
      BY <2>2, <3>1, <3>2, <3>3 DEF Alone, Begin, TypeOK
    <3>5. \A q \in Proc : pc'[q] \in {"unborn", "idle", "load"}
      BY <3>1, <3>2, <3>3 DEF Alone, TypeOK
    <3>6. QED BY <3>4, <3>5 DEF Knows
  <2>3. CASE Release(p) \/ Reclaim
    <3>1. /\ UNCHANGED <<working, pc, op, key, snapshot, now, masterKey>>
          /\ holder' = NoHolder /\ holder \notin working
      BY <2>3, StoreAssumption
         DEF Release, Reclaim, Lease!Release, Lease!Reclaim, IndInv, Alone, TypeOK
    <3>2. QED BY <3>1, StoreAssumption DEF IndInv, Alone, Knows, TypeOK
  <2>4. QED BY <2>1, <2>2, <2>3
<1>4. QED BY <1>1, <1>2, <1>3, Parts

\* #load: the key is read, drawn or taken from memory or the envelope, and
\* the ciphertext is opened or begun.
LEMMA StepLoad ==
    ASSUME IndInv, TypeOK', NEW p \in Proc,
           \/ ReadKey(p) \/ UseMaster(p) \/ Unwrap(p)
           \/ KeyDurable(p) \/ EmptyDurable(p)
    PROVE  IndInv'
<1> USE DEF IndInv
<1>1. pc[p] \in Active
  BY DEF ReadKey, UseMaster, Unwrap, Unprotected, KeyDurable, EmptyDurable, Goto,
         Active, Step
<1>2. now.data \in Key \cup {None} /\ now.master \in Key \cup {None}
  BY DEF TypeOK, Disk
<1>3. CASE ReadKey(p) \/ UseMaster(p) \/ Unwrap(p)
  <2>1. PICK k \in Key : Opened(p, k)
    BY <1>3 DEF ReadKey, UseMaster, Unwrap, TypeOK, Disk
  <2>2. /\ now.data = None => now.master = None
        /\ now.master # None => now.data = now.master
        /\ now.data = None => now.saved = {}
    BY NowFits DEF Fits, Openable
  <2>3. Files'
    BY <2>1, FilesSame DEF Opened, histVars, masterVars
  <2>4. Entitled'
    BY <2>1, EntitledKept DEF Opened, fileVars, masterVars, histVars, TypeOK
  <2>5. PICK s \in {"data", "loaded"} : pc' = [pc EXCEPT ![p] = s]
    BY <2>1 DEF Opened
  <2>6. pc'[p] = s /\ key'[p] = k /\ snapshot'[p] = now.saved /\ k # None
        /\ (s = "data" <=> now.data = None)
    BY <2>1, <2>5, StoreAssumption DEF Opened, TypeOK
  <2>7. UNCHANGED <<now, op>>
    BY <2>1 DEF Opened, fileVars
  <2>8. s = "data" => now.key = k
    BY <1>3, <2>1, <2>2, <2>6 DEF ReadKey, UseMaster, Unwrap, Opened, TypeOK
  <2>9. s = "loaded" => now.data = k
    BY <2>1, <2>6 DEF Opened
  <2>10. s = "loaded" /\ op[p] = "setup" => now.master = None
    BY <1>3 DEF ReadKey, Unprotected, UseMaster, Unwrap
  <2>11. op[p] = "unlock" => now.master = k
    <3>1. op[p] = "unlock" => Unwrap(p)
      BY <1>3 DEF ReadKey, Unprotected, UseMaster
    <3>2. op[p] = "unlock" => now.master # None /\ now.data = now.master
      BY <2>2, <3>1 DEF Unwrap
    <3>3. now.data \in {None, k}
      BY <2>1 DEF Opened
    <3>4. QED BY <3>2, <3>3
  <2>12. s = "data" => now.master = None /\ op[p] # "unlock"
    BY <2>2, <2>6, <2>11
  <2>13. Knows(p)'
    BY <2>6, <2>7, <2>8, <2>9, <2>10, <2>11, <2>12 DEF Knows
  <2>14. s \in Active
    BY <2>5 DEF Active, Step
  <2>15. Alone' /\ \A q \in Proc : Knows(q)'
    BY <1>1, <2>1, <2>5, <2>13, <2>14, Inner DEF Opened, masterVars
  <2>16. QED BY <2>3, <2>4, <2>15, Parts
<1>4. CASE KeyDurable(p) \/ EmptyDurable(p)
  <2>1. Knows(p)
    OBVIOUS
  <2>2. PICK s \in {"data", "loaded"} : pc' = [pc EXCEPT ![p] = s]
    BY <1>4 DEF KeyDurable, EmptyDurable, Goto
  <2>3. pc'[p] = s /\ s \in Active
    BY <2>2 DEF TypeOK, Active, Step
  <2>4. UNCHANGED <<now, op, key, snapshot, stamps, masterVars, histVars, leaseVars>>
        /\ Fsync
    BY <1>4 DEF KeyDurable, EmptyDurable, Fsync
  <2>5. Files'
    BY <2>4, NowFits, FilesFsync DEF Fits, masterVars, histVars
  <2>6. Entitled'
    BY <2>2, <2>4, EntitledKept DEF masterVars, histVars, TypeOK
  <2>7. Knows(p)'
    <3>1. \/ pc[p] = "key fsync" /\ pc'[p] = "data"
          \/ pc[p] = "data fsync" /\ pc'[p] = "loaded"
      BY <1>4 DEF KeyDurable, EmptyDurable, Goto, TypeOK
    <3>2. QED BY <2>1, <2>4, <3>1 DEF Knows
  <2>8. Alone' /\ \A q \in Proc : Knows(q)'
    BY <1>1, <2>2, <2>3, <2>4, <2>7, Inner DEF masterVars
  <2>9. QED BY <2>5, <2>6, <2>8, Parts
<1>5. QED BY <1>3, <1>4

\* Envelopes are numbered, none higher than the last.
LEMMA Numbers ==
    IndInv => /\ stamps \in Nat
              /\ now.stamp \in Nat /\ now.stamp <= stamps
              /\ \A p \in Proc : envelope[p] \in Nat /\ envelope[p] <= stamps
BY StoreAssumption DEF IndInv, Stamped, Disks, TypeOK, Disk

\* The directory d has the current envelope or the next.
Numbered(d) ==
    /\ stamps' \in Nat /\ stamps' >= stamps
    /\ d.stamp \in Nat /\ d.stamp <= stamps'
    /\ d.stamp = now.stamp \/ d.stamp > stamps

\* A file written with the current envelope left alone, or with the next.
LEMMA NumberedSame ==
    ASSUME IndInv, UNCHANGED stamps, NEW d, d.stamp = now.stamp
    PROVE  Numbered(d)
BY Numbers DEF Numbered

LEMMA NumberedNext ==
    ASSUME IndInv, NewStamp, NEW d, d.stamp = stamps + 1
    PROVE  Numbered(d)
BY Numbers DEF Numbered, NewStamp

\* The operation of p goes on to its step s, which is not that of a lock.
GoesOn(p, s) ==
    /\ pc[p] \in Active /\ s \in Active \ {"lock fsync"}
    /\ pc' = [pc EXCEPT ![p] = s]

\* A file is written or removed within an operation.
LEMMA StepWrite ==
    ASSUME IndInv, TypeOK', NEW p \in Proc, NEW d \in Disk, NEW s, GoesOn(p, s),
           Put(d), Fits(d), Numbered(d),
           UNCHANGED <<leaseVars, masterVars, histVars>>,
           Knows(p)'
    PROVE  IndInv'
<1>1. Files'
  BY FilesPut DEF masterVars, histVars, Numbered
<1>2. Alone' /\ \A q \in Proc : Knows(q)'
  BY Inner DEF masterVars, GoesOn
<1>3. Entitled'
  <2>1. masterKey' = masterKey /\ envelope' = envelope /\ entered' = entered /\ now' = d
    BY DEF masterVars, histVars, Put
  <2>2. \A q \in Proc : pc'[q] # "lock fsync"
    BY Others DEF GoesOn, TypeOK, IndInv
  <2>3. /\ d.stamp \in Nat /\ now.stamp \in Nat
        /\ d.stamp = now.stamp \/ d.stamp > stamps
    BY Numbers DEF Numbered
  <2>4. ASSUME NEW q \in Proc, masterKey[q] # None, envelope[q] = d.stamp
        PROVE  q \in entered
    <3>1. envelope[q] \in Nat /\ stamps \in Nat /\ envelope[q] <= stamps
      BY Numbers
    <3>2. d.stamp = now.stamp
      BY <2>3, <2>4, <3>1
    <3>3. QED BY <2>4, <3>2 DEF Entitled, IndInv
  <2>5. QED BY <2>1, <2>2, <2>4 DEF Entitled
<1>4. QED BY <1>1, <1>2, <1>3, Parts

\* The first key and the empty snapshot.
LEMMA StepFirst ==
    ASSUME IndInv, TypeOK', NEW p \in Proc, DrawKey(p) \/ WriteEmpty(p)
    PROVE  IndInv'
<1>1. /\ TypeOK /\ Knows(p) /\ Fits(now)
      /\ now \in Disk /\ stamps \in Nat /\ now.stamp \in Nat /\ now.stamp <= stamps
  BY NowFits, Numbers DEF IndInv
<1>2. CASE DrawKey(p)
  <2>1. PICK k \in Key \ used : /\ key' = [key EXCEPT ![p] = k]
                                /\ Put([now EXCEPT !.key = k])
    BY <1>2 DEF DrawKey
  <2> DEFINE d == [now EXCEPT !.key = k]
  <2>2. d \in Disk /\ d.key = k /\ d.data = None /\ d.master = None
        /\ d.saved = now.saved /\ d.stamp = now.stamp
    BY <1>1, <1>2 DEF Disk, DrawKey, Unprotected
  <2>3. Fits(d)
    BY <1>1, <1>2, <2>2 DEF Fits, Openable, DrawKey, Unprotected
  <2>4. Numbered(d)
    BY <1>2, <2>2, NumberedSame DEF DrawKey
  <2>5. /\ pc[p] = "load" /\ pc' = [pc EXCEPT ![p] = "key fsync"]
        /\ UNCHANGED <<op, snapshot, stamps, leaseVars, masterVars, histVars>>
    BY <1>2 DEF DrawKey, Goto
  <2>6. op[p] # "unlock"
    BY <1>2 DEF DrawKey, Unprotected
  <2>7. pc'[p] = "key fsync" /\ key'[p] = k /\ k # None /\ now' = d
    BY <2>1, <2>5, StoreAssumption DEF TypeOK, Put
  <2>8. Knows(p)'
    BY <2>2, <2>5, <2>6, <2>7 DEF Knows
  <2>9. GoesOn(p, "key fsync")
    BY <2>5 DEF GoesOn, Active, Step
  <2> HIDE DEF d
  <2>10. Put(d)
    BY <2>1 DEF d
  <2>11. QED BY <2>2, <2>3, <2>5, <2>8, <2>9, <2>10, <2>4, StepWrite
<1>3. CASE WriteEmpty(p)
  <2> DEFINE d == [now EXCEPT !.data = key[p], !.saved = {}]
  <2>1. /\ Put(d) /\ pc[p] = "data" /\ pc' = [pc EXCEPT ![p] = "data fsync"]
        /\ snapshot' = [snapshot EXCEPT ![p] = {}]
        /\ UNCHANGED <<op, key, stamps, leaseVars, masterVars, histVars>>
    BY <1>3 DEF WriteEmpty, Goto
  <2>2. /\ key[p] # None /\ now.key = key[p] /\ now.data = None
        /\ now.master = None /\ op[p] # "unlock"
    BY <1>1, <2>1 DEF Knows
  <2>3. d \in Disk /\ d.key = now.key /\ d.data = key[p] /\ d.master = now.master
        /\ d.saved = {} /\ d.stamp = now.stamp
    BY <1>1 DEF Disk, TypeOK
  <2>4. Fits(d)
    BY <1>1, <2>2, <2>3 DEF Fits, Openable
  <2>5. Numbered(d)
    BY <2>1, <2>3, NumberedSame
  <2>6. pc'[p] = "data fsync" /\ snapshot'[p] = {} /\ now' = d
    BY <2>1 DEF TypeOK, Put
  <2>7. Knows(p)'
    BY <2>1, <2>2, <2>3, <2>6 DEF Knows
  <2>8. GoesOn(p, "data fsync")
    BY <2>1 DEF GoesOn, Active, Step
  <2> HIDE DEF d
  <2>9. QED BY <2>1, <2>3, <2>4, <2>7, <2>8, <2>5, StepWrite
<1>4. QED BY <1>2, <1>3

\* Records are saved.
LEMMA StepSave ==
    ASSUME IndInv, TypeOK', NEW p \in Proc, Save(p)
    PROVE  IndInv'
<1>1. /\ TypeOK /\ Knows(p) /\ Fits(now)
      /\ now \in Disk /\ stamps \in Nat /\ now.stamp \in Nat /\ now.stamp <= stamps
  BY NowFits, Numbers DEF IndInv
<1>2. PICK r \in Record \ snapshot[p] :
         /\ snapshot' = [snapshot EXCEPT ![p] = @ \cup {r}]
         /\ Put([now EXCEPT !.data = key[p], !.saved = snapshot[p] \cup {r}])
  BY DEF Save
<1> DEFINE d == [now EXCEPT !.data = key[p], !.saved = snapshot[p] \cup {r}]
<1>3. /\ pc[p] = "loaded" /\ pc' = [pc EXCEPT ![p] = "save fsync"] /\ op[p] = "use"
      /\ UNCHANGED <<op, key, stamps, leaseVars, masterVars, histVars>>
  BY DEF Save, Goto
<1>4. key[p] # None /\ now.data = key[p] /\ now.saved = snapshot[p]
  BY <1>1, <1>3 DEF Knows
<1>5. d \in Disk /\ d.key = now.key /\ d.data = now.data /\ d.master = now.master
      /\ d.saved = now.saved \cup {r} /\ d.stamp = now.stamp
  BY <1>1, <1>4 DEF Disk, TypeOK
<1>6. Fits(d)
  BY <1>1, <1>4, <1>5 DEF Fits, Openable
<1>7. Numbered(d)
  BY <1>3, <1>5, NumberedSame
<1>8. pc'[p] = "save fsync" /\ snapshot'[p] = snapshot[p] \cup {r} /\ now' = d
  BY <1>2, <1>3 DEF TypeOK, Put
<1>9. Knows(p)'
  BY <1>3, <1>4, <1>5, <1>8 DEF Knows
<1>10. GoesOn(p, "save fsync")
  BY <1>3 DEF GoesOn, Active, Step
<1> HIDE DEF d
<1>11. Put(d)
  BY <1>2 DEF d
<1>12. QED BY <1>3, <1>5, <1>6, <1>9, <1>10, <1>11, <1>7, StepWrite

\* The envelope is written, or the key in the clear removed.
LEMMA StepMaster ==
    ASSUME IndInv, TypeOK', NEW p \in Proc,
           WrapKey(p) \/ RetireKey(p) \/ RetireLegacy(p)
    PROVE  IndInv'
<1>1. /\ TypeOK /\ Knows(p) /\ Fits(now)
      /\ now \in Disk /\ stamps \in Nat /\ now.stamp \in Nat /\ now.stamp <= stamps
  BY NowFits, Numbers DEF IndInv
<1>2. CASE WrapKey(p)
  <2> DEFINE d == [now EXCEPT !.master = key[p], !.stamp = stamps + 1]
  <2>1. /\ Put(d) /\ pc[p] = "loaded" /\ pc' = [pc EXCEPT ![p] = "wrap fsync"]
        /\ op[p] = "setup" /\ stamps' = stamps + 1
        /\ UNCHANGED <<op, key, snapshot, leaseVars, masterVars, histVars>>
    BY <1>2 DEF WrapKey, Goto, NewStamp
  <2>2. key[p] # None /\ now.data = key[p] /\ now.saved = snapshot[p]
        /\ now.master = None
    BY <1>1, <2>1 DEF Knows
  <2>3. stamps + 1 \in 0 .. MaxStamp
    BY <2>1 DEF TypeOK
  <2>4. d \in Disk /\ d.key = now.key /\ d.data = now.data /\ d.master = key[p]
        /\ d.saved = now.saved /\ d.stamp = stamps + 1
    BY <1>1, <2>3 DEF Disk, TypeOK
  <2>5. Fits(d)
    BY <1>1, <2>2, <2>4 DEF Fits, Openable
  <2>6. pc'[p] = "wrap fsync" /\ now' = d
    BY <2>1 DEF TypeOK, Put
  <2>7. Knows(p)'
    BY <2>1, <2>2, <2>4, <2>6 DEF Knows
  <2>8. GoesOn(p, "wrap fsync")
    BY <2>1 DEF GoesOn, Active, Step
  <2> HIDE DEF d
  <2>9. Numbered(d)
    BY <1>2, <2>4, NumberedNext DEF WrapKey
  <2>10. QED BY <2>1, <2>4, <2>5, <2>7, <2>8, <2>9, StepWrite
<1>3. CASE RetireKey(p) \/ RetireLegacy(p)
  <2> DEFINE d == [now EXCEPT !.key = None]
  <2>1. /\ Put(d) /\ pc' = [pc EXCEPT ![p] = "retire fsync"]
        /\ pc[p] \in {"retire", "loaded"}
        /\ UNCHANGED <<op, key, snapshot, stamps, leaseVars, masterVars, histVars>>
    BY <1>3 DEF RetireKey, RetireLegacy, Goto
  <2>2. /\ key[p] # None /\ now.data = key[p] /\ now.master = key[p]
        /\ op[p] \in {"setup", "unlock"}
    BY <1>1, <1>3 DEF Knows, RetireKey, RetireLegacy, Goto
  <2>3. d \in Disk /\ d.key = None /\ d.data = now.data /\ d.master = now.master
        /\ d.saved = now.saved /\ d.stamp = now.stamp
    BY <1>1 DEF Disk
  <2>4. Fits(d)
    BY <1>1, <2>2, <2>3 DEF Fits, Openable
  <2>5. Numbered(d)
    BY <2>1, <2>3, NumberedSame
  <2>6. pc'[p] = "retire fsync" /\ now' = d
    BY <2>1 DEF TypeOK, Put
  <2>7. Knows(p)'
    BY <2>1, <2>2, <2>3, <2>6 DEF Knows
  <2>8. GoesOn(p, "retire fsync")
    BY <2>1 DEF GoesOn, Active, Step
  <2> HIDE DEF d
  <2>9. QED BY <2>1, <2>3, <2>4, <2>7, <2>8, <2>5, StepWrite
<1>4. QED BY <1>2, <1>3

\* A step that ends in a report: what it has made durable or found durable.
LEMMA StepReport ==
    ASSUME IndInv, TypeOK', NEW p \in Proc, Saved(p) \/ KeyRetired(p) \/ Unlocked(p)
    PROVE  IndInv'
<1>1. /\ TypeOK /\ Knows(p) /\ Fits(now) /\ pc[p] \in Active
      /\ now'.stamp = now.stamp
  BY NowFits DEF IndInv, Saved, KeyRetired, Unlocked, Active, Step, Fsync, fileVars
<1>2. pc'[p] = "idle" /\ \A q \in Proc : q # p => pc'[q] = pc[q]
  BY <1>1 DEF Saved, KeyRetired, Unlocked, Done, TypeOK
<1>3. \A q \in Proc : q # p => masterKey'[q] = masterKey[q]
  BY <1>1 DEF Saved, KeyRetired, Unlocked, Remember, masterVars, TypeOK
<1>4. Alone' /\ \A q \in Proc : Knows(q)'
  BY <1>3, Outer DEF Saved, KeyRetired, Unlocked
<1>5. CASE Saved(p)
  <2>1. now.saved = snapshot[p]
    BY <1>1, <1>5 DEF Knows, Saved
  <2>2. acked' \subseteq now.saved /\ retired' = retired /\ UNCHANGED <<stamps, masterVars, entered>>
    BY <1>1, <1>5, <2>1 DEF Saved, Fits
  <2>3. Files'
    <3>1. \A q \in Proc : envelope'[q] = envelope[q]
      BY <2>2 DEF masterVars
    <3>2. Fsync /\ UNCHANGED stamps
      BY <1>5, <2>2 DEF Saved
    <3>3. retired' => now.key = None /\ now.master # None
      BY <1>1, <2>2 DEF Fits
    <3>4. QED BY <2>2, <3>1, <3>2, <3>3, FilesFsync
  <2>4. Entitled'
    BY <1>1, <1>2, <2>2, EntitledKept, Others DEF masterVars
  <2>5. QED BY <1>4, <2>3, <2>4, Parts
<1>6. CASE KeyRetired(p)
  <2>1. now.key = None /\ now.master # None
    BY <1>1, <1>6 DEF Knows, KeyRetired
  <2>2. acked' \subseteq now.saved /\ UNCHANGED stamps /\ Fsync
    BY <1>1, <1>6 DEF KeyRetired, Fits
  <2>3. \A q \in Proc : envelope'[q] \in {envelope[q], now.stamp}
    BY <1>1, <1>6 DEF KeyRetired, Remember, masterVars, TypeOK
  <2>4. Files'
    BY <2>1, <2>2, <2>3, FilesFsync
  <2>5. Entitled'
    <3>1. CASE Remember(p)
      BY <1>1, <1>2, <3>1, EntitledRemember
    <3>2. CASE UNCHANGED <<masterVars, entered>>
      BY <1>1, <1>2, <3>2, EntitledKept DEF masterVars
    <3>3. QED BY <1>6, <3>1, <3>2 DEF KeyRetired
  <2>6. QED BY <1>4, <2>4, <2>5, Parts
<1>7. CASE Unlocked(p)
  <2>1. \A q \in Proc : envelope'[q] \in {envelope[q], now.stamp}
    BY <1>1, <1>7 DEF Unlocked, Remember, TypeOK
  <2>2. Files'
    BY <1>7, <2>1, FilesSame DEF Unlocked
  <2>3. Entitled'
    BY <1>1, <1>2, <1>7, EntitledRemember DEF Unlocked
  <2>4. QED BY <1>4, <2>2, <2>3, Parts
<1>8. QED BY <1>5, <1>6, <1>7

\* Setup's envelope is durable, and setup goes on to remove the clear key.
LEMMA StepWrapDurable ==
    ASSUME IndInv, TypeOK', NEW p \in Proc, WrapDurable(p)
    PROVE  IndInv'
<1>1. TypeOK /\ Knows(p) /\ Fits(now)
  BY NowFits DEF IndInv
<1>2. /\ pc[p] = "wrap fsync" /\ pc' = [pc EXCEPT ![p] = "retire"]
      /\ Fsync /\ Remember(p)
      /\ UNCHANGED <<stamps, op, key, snapshot, leaseVars, acked, retired>>
  BY DEF WrapDurable, Goto
<1>3. now' = now /\ pc'[p] = "retire" /\ \A q \in Proc : q # p => pc'[q] = pc[q]
  BY <1>1, <1>2 DEF Fsync, TypeOK
<1>4. /\ \A q \in Proc : envelope'[q] \in {envelope[q], now.stamp}
      /\ \A q \in Proc : q # p => masterKey'[q] = masterKey[q]
  BY <1>1, <1>2 DEF Remember, TypeOK
<1>5. Files'
  BY <1>1, <1>2, <1>4, FilesFsync DEF Fits
<1>6. Knows(p)'
  BY <1>1, <1>2, <1>3 DEF Knows
<1>7. pc[p] \in Active /\ "retire" \in Active
  BY <1>2 DEF Active, Step
<1>8. Alone' /\ \A q \in Proc : Knows(q)'
  BY <1>2, <1>4, <1>6, <1>7, Inner
<1>9. Entitled'
  BY <1>2, <1>3, <1>7, EntitledRemember
<1>10. QED BY <1>5, <1>8, <1>9, Parts

\* Locking: the envelope of another number entitles nobody, so that nobody is
\* to be honoured once it is durable.
LEMMA StepLock ==
    ASSUME IndInv, TypeOK', NEW p \in Proc, Relock(p) \/ LockDurable(p)
    PROVE  IndInv'
<1>1. /\ TypeOK /\ Knows(p) /\ Fits(now) /\ now \in Disk
  BY NowFits DEF IndInv
<1>2. CASE Relock(p)
  <2> DEFINE d == [now EXCEPT !.stamp = stamps + 1]
  <2>1. /\ pc[p] = "load" /\ pc' = [pc EXCEPT ![p] = "lock fsync"] /\ Put(d) /\ NewStamp
        /\ masterKey' = [masterKey EXCEPT ![p] = None]
        /\ UNCHANGED <<op, key, snapshot, envelope, leaseVars, histVars>>
    BY <1>2 DEF Relock, Goto
  <2>2. stamps + 1 \in 0 .. MaxStamp
    BY <1>1, <2>1, StoreAssumption DEF TypeOK, NewStamp
  <2>3. d \in Disk /\ d.key = now.key /\ d.data = now.data /\ d.master = now.master
        /\ d.saved = now.saved /\ d.stamp = stamps + 1
    BY <1>1, <2>2 DEF Disk
  <2>4. Fits(d)
    BY <1>1, <2>3 DEF Fits, Openable
  <2>5. Numbered(d)
    BY <2>1, <2>3, NumberedNext
  <2>6. now' = d
    BY <2>1 DEF Put
  <2> HIDE DEF d
  <2>7. Files'
    BY <2>1, <2>3, <2>4, <2>5, FilesPut DEF Numbered, histVars
  <2>8. pc'[p] = "lock fsync" /\ pc[p] \in Active /\ "lock fsync" \in Active
    BY <1>1, <2>1 DEF TypeOK, Active, Step
  <2>9. Knows(p)'
    BY <2>8 DEF Knows
  <2>10. \A q \in Proc : q # p => masterKey'[q] = masterKey[q]
    BY <1>1, <2>1 DEF TypeOK
  <2>11. Alone' /\ \A q \in Proc : Knows(q)'
    BY <2>1, <2>8, <2>9, <2>10, Inner
  <2>12. \A q \in Proc : envelope'[q] # now'.stamp
    <3>1. \A q \in Proc : envelope[q] \in Nat /\ envelope[q] <= stamps
      BY Numbers
    <3>2. stamps \in Nat
      BY Numbers
    <3>3. \A q \in Proc : envelope[q] # stamps + 1
      BY <3>1, <3>2
    <3>4. envelope' = envelope /\ now'.stamp = stamps + 1
      BY <2>1, <2>3, <2>6
    <3>5. QED BY <3>3, <3>4
  <2>13. Entitled'
    BY <2>12 DEF Entitled
  <2>14. QED BY <2>7, <2>11, <2>13, Parts
<1>3. CASE LockDurable(p)
  <2>1. Fsync /\ Done(p) /\ UNCHANGED <<stamps, masterVars, acked, retired>>
        /\ pc[p] = "lock fsync" /\ entered' = {}
    BY <1>3 DEF LockDurable
  <2>2. Files'
    BY <1>1, <2>1, FilesFsync DEF Fits, masterVars
  <2>3. Alone' /\ \A q \in Proc : Knows(q)'
    BY <2>1, Outer DEF masterVars
  <2>4. pc[p] \in Active
    BY <2>1 DEF Active, Step
  <2>5. /\ pc'[p] = "idle"
        /\ \A q \in Proc : q # p => pc'[q] = pc[q] /\ pc[q] \in {"unborn", "idle"}
    BY <1>1, <2>1, <2>4, Others DEF Done, TypeOK
  <2>6. Entitled'
    BY <2>1, <2>5 DEF Entitled, IndInv, masterVars, Fsync
  <2>7. QED BY <2>2, <2>3, <2>6, Parts
<1>4. QED BY <1>2, <1>3

\* A key that expires entitles nobody.
LEMMA StepAutoLock ==
    ASSUME IndInv, TypeOK', NEW p \in Proc, AutoLock(p)
    PROVE  IndInv'
<1>1. TypeOK /\ Alone /\ Entitled /\ \A q \in Proc : Knows(q)
  BY DEF IndInv
<1>2. /\ masterKey' = [masterKey EXCEPT ![p] = None] /\ entered' = entered \ {p}
      /\ UNCHANGED <<fileVars, leaseVars, opVars, envelope, acked, retired>>
  BY DEF AutoLock
<1>3. Files'
  BY <1>2, FilesSame
<1>4. masterKey'[p] = None /\ \A q \in Proc : q # p => masterKey'[q] = masterKey[q]
  BY <1>1, <1>2 DEF TypeOK
<1>5. Alone'
  BY <1>1, <1>2, <1>4 DEF Alone, leaseVars, opVars
<1>6. \A q \in Proc : Knows(q)'
  BY <1>1, <1>2 DEF Knows, fileVars, opVars
<1>7. Entitled'
  BY <1>1, <1>2, <1>4 DEF Entitled, fileVars, opVars
<1>8. QED BY <1>3, <1>5, <1>6, <1>7, Parts

\* The memory of processes P, every one of them dead, is lost.
LEMMA StepLose ==
    ASSUME IndInv, TypeOK', NEW P \in SUBSET Proc, Lose(P),
           dead' = dead \cup P, working' = working \ P, UNCHANGED <<holder, histVars, stamps>>,
           \/ UNCHANGED <<now, past>>
           \/ now' \in Disks /\ past' = {} /\ \A q \in Proc \ P : pc[q] = "unborn"
    PROVE  IndInv'
<1>1. TypeOK /\ Alone /\ Entitled /\ \A q \in Proc : Knows(q)
  BY DEF IndInv
<1>2. /\ \A q \in P : pc'[q] = "idle" /\ masterKey'[q] = None /\ envelope'[q] = 0
      /\ \A q \in Proc \ P : /\ pc'[q] = pc[q] /\ op'[q] = op[q] /\ key'[q] = key[q]
                              /\ snapshot'[q] = snapshot[q]
                              /\ masterKey'[q] = masterKey[q] /\ envelope'[q] = envelope[q]
  BY <1>1 DEF Lose, TypeOK
<1>3. Alone'
  BY <1>1, <1>2 DEF Alone
<1>4. \A q \in P : Knows(q)'
  BY <1>2 DEF Knows
<1>5. CASE UNCHANGED <<now, past>>
  <2>1. Disks' = Disks
    BY <1>5 DEF Disks
  <2>2. Stamped'
    <3>1. \A q \in Proc : envelope'[q] <= stamps
      BY <1>2, Numbers
    <3>2. \A e \in Disks : e.stamp <= stamps
      BY DEF IndInv, Stamped
    <3>3. QED BY <2>1, <3>1, <3>2 DEF Stamped
  <2>3. NoDataNoRecord' /\ KeyOpensData' /\ SavedStays' /\ ClearKeyGone'
    <3>1. acked' = acked /\ retired' = retired
      BY DEF histVars
    <3>2. QED BY <2>1, <3>1 DEF IndInv, NoDataNoRecord, KeyOpensData, Openable,
              SavedStays, ClearKeyGone
  <2>4. ASSUME NEW q \in Proc \ P PROVE Knows(q)'
    <3>1. /\ pc'[q] = pc[q] /\ op'[q] = op[q] /\ key'[q] = key[q]
          /\ snapshot'[q] = snapshot[q] /\ now' = now
      BY <1>2, <1>5
    <3>2. QED BY <1>1, <3>1 DEF Knows
  <2>5. Entitled'
    BY <1>1, <1>2, <1>5 DEF Entitled, histVars
  <2>6. QED BY <1>3, <1>4, <2>2, <2>3, <2>4, <2>5, Parts DEF Files
<1>6. CASE now' \in Disks /\ past' = {} /\ \A q \in Proc \ P : pc[q] = "unborn"
  <2>1. Disks' \subseteq Disks
    BY <1>6 DEF Disks
  <2>2. Stamped'
    <3>1. \A q \in Proc : envelope'[q] <= stamps
      BY <1>2, Numbers
    <3>2. \A e \in Disks : e.stamp <= stamps
      BY DEF IndInv, Stamped
    <3>3. QED BY <2>1, <3>1, <3>2 DEF Stamped
  <2>3. NoDataNoRecord' /\ KeyOpensData' /\ SavedStays' /\ ClearKeyGone'
    <3>1. acked' = acked /\ retired' = retired
      BY DEF histVars
    <3>2. QED BY <2>1, <3>1 DEF IndInv, NoDataNoRecord, KeyOpensData, Openable,
              SavedStays, ClearKeyGone
  <2>4. \A q \in Proc \ P : pc'[q] = "unborn" /\ masterKey'[q] = None
    BY <1>1, <1>2, <1>6 DEF Alone
  <2>5. \A q \in Proc \ P : Knows(q)'
    BY <2>4 DEF Knows
  <2>6. Entitled'
    BY <1>2, <2>4 DEF Entitled
  <2>7. QED BY <1>3, <1>4, <2>2, <2>3, <2>5, <2>6, Parts DEF Files
<1>7. QED BY <1>5, <1>6

\* A process dies, or all that run do in a power failure.
LEMMA StepFailure ==
    ASSUME IndInv, TypeOK', PowerCut \/ \E p \in Proc : Die(p)
    PROVE  IndInv'
<1>1. ASSUME NEW p \in Proc, Die(p) PROVE IndInv'
  <2>1. /\ Lose({p}) /\ dead' = dead \cup {p} /\ working' = working \ {p}
        /\ UNCHANGED <<holder, histVars, stamps, now, past>>
    BY <1>1 DEF Die, Lease!Die, fileVars
  <2>2. {p} \in SUBSET Proc
    OBVIOUS
  <2>3. QED BY <2>1, <2>2, StepLose
<1>2. CASE PowerCut
  <2>1. /\ Lose(Started) /\ dead' = dead \cup Started /\ working' = working \ Started
        /\ UNCHANGED <<holder, histVars, stamps>>
        /\ now' \in Disks /\ past' = {}
    BY <1>2 DEF PowerCut, Lease!Die
  <2>2. Started \in SUBSET Proc /\ \A q \in Proc \ Started : pc[q] = "unborn"
    BY DEF Started
  <2>3. QED BY <2>1, <2>2, StepLose
<1>3. QED BY <1>1, <1>2
-----------------------------------------------------------------------------
(* The theorems *)

\* Every step keeps the invariant.
LEMMA StepInv == IndInv /\ [Next]_vars => IndInv'
<1> SUFFICES ASSUME IndInv, [Next]_vars PROVE IndInv'
  OBVIOUS
<1>1. TypeOK'
  BY TypeStep DEF IndInv
<1>2. CASE UNCHANGED vars
  <2>1. UNCHANGED <<fileVars, leaseVars, opVars, masterVars, histVars>>
    BY <1>2 DEF vars
  <2>2. Files'
    BY <2>1, FilesSame DEF masterVars, histVars
  <2>3. Alone' /\ Entitled' /\ \A q \in Proc : Knows(q)'
    BY <2>1 DEF IndInv, Alone, Entitled, Knows, fileVars, leaseVars, opVars, masterVars,
       histVars
  <2>4. QED BY <1>1, <2>2, <2>3, Parts
<1>3. CASE Next
  <2>1. ASSUME NEW p \in Proc,
               \/ \E o \in Op : Begin(p, o)
               \/ End(p) \/ Release(p) \/ Locked(p)
        PROVE  IndInv'
    BY <1>1, <2>1, StepBorders
  <2>2. ASSUME NEW p \in Proc,
               \/ ReadKey(p) \/ UseMaster(p) \/ Unwrap(p)
               \/ KeyDurable(p) \/ EmptyDurable(p)
        PROVE  IndInv'
    BY <1>1, <2>2, StepLoad
  <2>3. ASSUME NEW p \in Proc,
               \/ DrawKey(p) \/ WriteEmpty(p) \/ Save(p)
               \/ WrapKey(p) \/ RetireKey(p) \/ RetireLegacy(p)
        PROVE  IndInv'
    BY <1>1, <2>3, StepFirst, StepSave, StepMaster
  <2>4. ASSUME NEW p \in Proc,
               \/ Saved(p) \/ KeyRetired(p) \/ Unlocked(p) \/ WrapDurable(p)
               \/ Relock(p) \/ LockDurable(p) \/ AutoLock(p)
        PROVE  IndInv'
    BY <1>1, <2>4, StepReport, StepWrapDurable, StepLock, StepAutoLock
  <2>5. CASE PowerCut \/ \E p \in Proc : Die(p)
    BY <1>1, <2>5, StepFailure
  <2>6. CASE Reclaim
    <3>1. CASE Proc = {}
      BY <2>6, <3>1, StoreAssumption DEF Reclaim, Lease!Reclaim, IndInv, TypeOK
    <3>2. CASE Proc # {}
      BY <1>1, <2>6, <3>2, StepBorders
    <3>3. QED BY <3>1, <3>2
  <2>7. QED BY <1>3, <2>1, <2>2, <2>3, <2>4, <2>5, <2>6 DEF Next
<1>4. QED BY <1>2, <1>3

\* The inductive invariant holds in every reachable state.
THEOREM Inductive == Spec => []IndInv
<1>1. IndInv /\ [Next]_vars => IndInv'
  BY StepInv
<1>2. QED BY InitInv, <1>1, PTL DEF Spec

\* Whichever process dies at whichever step, and whatever a power failure
\* takes back, the files on disk hold the key of the records on disk.
THEOREM DataCanBeOpened == Spec => []KeyOpensData
<1>1. IndInv => KeyOpensData
  BY DEF IndInv
<1>2. QED BY Inductive, <1>1, PTL

\* A record whose save was reported survives all of that.
THEOREM RecordsSurvive == Spec => []SavedStays
<1>1. IndInv => SavedStays
  BY DEF IndInv
<1>2. QED BY Inductive, <1>1, PTL

\* The key in the clear never comes back after it was reported removed.
THEOREM ClearKeyStaysGone == Spec => []ClearKeyGone
<1>1. IndInv => ClearKeyGone
  BY DEF IndInv
<1>2. QED BY Inductive, <1>1, PTL

\* Nobody gets at the records of a locked vault without the password: a key
\* that was unlocked before the last reported lock is refused.
THEOREM LockRevokes == Spec => UnlockHonoured
<1>1. ASSUME IndInv, [Next]_vars
      PROVE  [\A p \in Proc :
                 op[p] = "use" /\ now.master # None
                    /\ pc[p] = "load" /\ pc'[p] \in {"data", "loaded"}
                 => p \in entered]_vars
  <2> SUFFICES ASSUME Next, NEW p \in Proc, op[p] = "use", now.master # None,
                      pc[p] = "load", pc'[p] \in {"data", "loaded"}
               PROVE  p \in entered
    BY <1>1
  <2>1. TypeOK /\ Entitled
    BY <1>1 DEF IndInv
  <2>2. ASSUME NEW q \in Proc,
               \/ \E o \in Op : Begin(q, o)
               \/ End(q) \/ Release(q) \/ Locked(q) \/ AutoLock(q) \/ Die(q)
               \/ Saved(q) \/ KeyRetired(q) \/ Unlocked(q) \/ LockDurable(q)
        PROVE  FALSE
    BY <2>1, <2>2 DEF Begin, End, Release, Locked, AutoLock, Die, Lose, Saved,
       KeyRetired, Unlocked, LockDurable, Done, opVars, TypeOK
  <2>3. ASSUME NEW q \in Proc,
               \/ DrawKey(q) \/ KeyDurable(q) \/ WriteEmpty(q) \/ EmptyDurable(q)
               \/ Save(q) \/ WrapKey(q) \/ WrapDurable(q) \/ RetireKey(q)
               \/ RetireLegacy(q) \/ Relock(q)
        PROVE  FALSE
    BY <2>1, <2>3 DEF DrawKey, KeyDurable, WriteEmpty, EmptyDurable, Save, WrapKey,
       WrapDurable, RetireKey, RetireLegacy, Relock, Goto, TypeOK
  <2>4. ASSUME NEW q \in Proc, ReadKey(q) \/ Unwrap(q) PROVE FALSE
    BY <2>1, <2>4 DEF ReadKey, Unwrap, Unprotected, Opened, TypeOK
  <2>5. ASSUME NEW q \in Proc, UseMaster(q) PROVE p \in entered
    <3>1. q = p
      BY <2>1, <2>5 DEF UseMaster, Opened, TypeOK
    <3>2. QED BY <2>1, <2>5, <3>1 DEF UseMaster, Entitled
  <2>6. CASE Reclaim \/ PowerCut
    BY <2>1, <2>6 DEF Reclaim, PowerCut, Lose, opVars, TypeOK
  <2>7. QED BY <2>2, <2>3, <2>4, <2>5, <2>6 DEF Next
<1>2. QED BY Inductive, <1>1, PTL DEF Spec, UnlockHonoured
-----------------------------------------------------------------------------
(***************************************************************************)
(* The operations of the vault, with their deaths and power failures, do   *)
(* with the lock what VaultLease says and no more: VaultLockProofs shows   *)
(* that the directory lock keeps that promise, and this, that the theorems *)
(* above rely on nothing else.                                             *)
(***************************************************************************)

\* A step of the store is a step of the lease, or leaves the lease alone.
LEMMA LeaseStep ==
    ASSUME [Next]_vars
    PROVE  [Lease!Next]_(Lease!vars)
<1> USE DEF leaseVars, Lease!vars, Lease!Next
<1>1. CASE UNCHANGED vars
  BY <1>1 DEF vars
<1>2. ASSUME NEW p \in Proc, NEW o \in Op, Begin(p, o) PROVE Lease!Acquire(p)
  BY <1>2 DEF Begin
<1>3. ASSUME NEW p \in Proc,
             \/ End(p) \/ Locked(p) \/ Saved(p)
             \/ KeyRetired(p) \/ Unlocked(p) \/ LockDurable(p)
      PROVE  Lease!Finish(p)
  BY <1>3 DEF End, Locked, Saved, KeyRetired, Unlocked, LockDurable, Done
<1>4. ASSUME NEW p \in Proc, Release(p) PROVE Lease!Release(p)
  BY <1>4 DEF Release
<1>5. CASE Reclaim
  BY <1>5 DEF Reclaim
<1>6. ASSUME NEW p \in Proc, Die(p) PROVE \E P \in SUBSET Proc : Lease!Die(P)
  <2>1. {p} \in SUBSET Proc /\ Lease!Die({p})
    BY <1>6 DEF Die
  <2>2. QED BY <2>1
<1>7. CASE PowerCut
  <2>1. Started \in SUBSET Proc /\ Lease!Die(Started)
    BY <1>7 DEF PowerCut, Started
  <2>2. QED BY <2>1
<1>8. ASSUME NEW p \in Proc,
             \/ ReadKey(p) \/ DrawKey(p) \/ KeyDurable(p)
             \/ WriteEmpty(p) \/ EmptyDurable(p) \/ UseMaster(p) \/ Save(p)
             \/ WrapKey(p) \/ WrapDurable(p) \/ RetireKey(p)
             \/ Unwrap(p) \/ RetireLegacy(p) \/ Relock(p) \/ AutoLock(p)
      PROVE  UNCHANGED leaseVars
  BY <1>8
  DEF ReadKey, DrawKey, KeyDurable, WriteEmpty, EmptyDurable, UseMaster, Save, WrapKey,
      WrapDurable, RetireKey, Unwrap, RetireLegacy, Relock, AutoLock, Opened
<1>9. QED
  BY <1>1, <1>2, <1>3, <1>4, <1>5, <1>6, <1>7, <1>8 DEF Next

\* Every operation takes the vault's lock before it touches a file and gives it
\* back when it is done, whichever process dies where (#ownerTransaction and
\* acquireLock): the store is a client of the lease.
THEOREM UsesTheLease == Spec => Lease!Spec
<1>1. Init => Lease!Init
  BY DEF Init
<1>2. QED BY <1>1, LeaseStep, PTL DEF Spec, Lease!Spec

\* An operation has the lock from its first step to its last, and so is the only
\* one: what it has read is what it writes over.
THEOREM OperationsAreAlone ==
    Spec => [](\A p \in Proc : pc[p] \notin {"unborn", "idle"} =>
                 /\ holder = p /\ p \notin dead
                 /\ \A q \in Proc \ {p} : pc[q] \in {"unborn", "idle"})
<1>1. IndInv => \A p \in Proc : pc[p] \notin {"unborn", "idle"} =>
                  /\ holder = p /\ p \notin dead
                  /\ \A q \in Proc \ {p} : pc[q] \in {"unborn", "idle"}
  BY DEF IndInv, Alone
<1>2. QED BY Inductive, <1>1, PTL
=============================================================================
