----------------------------- MODULE VaultStore -----------------------------
(***************************************************************************)
(* The files of the credential vault (src/src/vault.ts): the data key in   *)
(* the clear, the records encrypted with it, and, once the owner has set a *)
(* master password, the envelope that wraps the data key.  Every operation *)
(* holds the directory lock, of which only VaultLease's promise is used    *)
(* here, and changes one file at a time: rename or unlink, then fsync of   *)
(* the directory.  A process may be killed between any two of these steps, *)
(* any of them may fail, and the power may fail: the directory then goes   *)
(* back to what it was after some step since its last fsync.               *)
(***************************************************************************)
EXTENDS Naturals

CONSTANTS
    Proc,       \* process incarnations that use the vault
    NoHolder,   \* nobody has the vault lock
    Key,        \* data keys that may be drawn
    None,       \* no key: a file that is missing, a key not in memory
    Record,     \* what is saved in the vault
    MaxStamp    \* how many envelopes are ever written

ASSUME StoreAssumption ==
    None \notin Key /\ NoHolder \notin Proc /\ MaxStamp \in Nat

VARIABLES
    holder, working, dead,  \* the vault lock, see VaultLease
    now,        \* the vault's directory
    past,       \* what a power failure may take it back to, beside `now`
    used,       \* the data keys drawn so far
    stamps,     \* how many envelopes have been written
    pc,         \* the next step of each process
    op,         \* the operation it is in
    key,        \* the data key that operation has loaded
    snapshot,   \* the records that operation has loaded
    masterKey,  \* #masterKey, the data key of an unlocked vault
    envelope,   \* #masterEnvelope, the envelope it was unlocked from
    acked,      \* history: the records of every snapshot reported saved
    entered,    \* history: processes whose unlock is still to be honoured
    retired     \* history: a setup or unlock reported the clear key removed

fileVars == <<now, past, used, stamps>>
leaseVars == <<holder, working, dead>>
opVars == <<pc, op, key, snapshot>>
masterVars == <<masterKey, envelope>>
histVars == <<acked, entered, retired>>
vars == <<fileVars, leaseVars, opVars, masterVars, histVars>>

Lease == INSTANCE VaultLease

\* Operations: "use" is any operation of an agent or the owner that loads the
\* records, and may save some; the others are the owner's.
Op == {"use", "setup", "unlock", "lock"}

Disk == [key : Key \cup {None},     \* the data key in the clear
         data : Key \cup {None},    \* the key that the ciphertext opens with
         saved : SUBSET Record,     \* the records in it
         master : Key \cup {None},  \* the data key that the envelope wraps
         stamp : 0 .. MaxStamp]     \* which envelope that is

Empty == [key |-> None, data |-> None, saved |-> {}, master |-> None,
          stamp |-> 0]

\* Not started yet, between operations, or before the step it is named for.
Step == {"unborn", "idle", "load", "key fsync", "data", "data fsync", "loaded",
         "save fsync", "wrap fsync", "retire", "retire fsync", "lock fsync"}

Disks == past \cup {now}

Init ==
    /\ Lease!Init
    /\ now = Empty /\ past = {} /\ used = {} /\ stamps = 0
    /\ pc = [p \in Proc |-> "unborn"] /\ op = [p \in Proc |-> "use"]
    /\ key = [p \in Proc |-> None] /\ snapshot = [p \in Proc |-> {}]
    /\ masterKey = [p \in Proc |-> None] /\ envelope = [p \in Proc |-> 0]
    /\ acked = {} /\ entered = {} /\ retired = FALSE

-----------------------------------------------------------------------------
(* Steps that operations share *)

Goto(p, from, to) == pc[p] = from /\ pc' = [pc EXCEPT ![p] = to]

\* A rename or unlink: visible at once, durable only after Fsync.
Put(disk) == now' = disk /\ past' = past \cup {now}
Fsync == past' = {} /\ UNCHANGED now

\* #ownerTransaction and its like: the operation runs under the vault lock,
\* whose own fsyncs of the directory no promise of the store relies on ...
Begin(p, o) ==
    /\ pc[p] \in {"unborn", "idle"}
    /\ Lease!Acquire(p)
    /\ pc' = [pc EXCEPT ![p] = "load"]
    /\ op' = [op EXCEPT ![p] = o]
    /\ UNCHANGED <<fileVars, key, snapshot, masterVars, histVars>>

\* ... is over ...
Done(p) ==
    /\ Lease!Finish(p)
    /\ pc' = [pc EXCEPT ![p] = "idle"]
    /\ key' = [key EXCEPT ![p] = None]
    /\ snapshot' = [snapshot EXCEPT ![p] = {}]
    /\ op' = [op EXCEPT ![p] = "use"]

\* ... and gives the lock back; the lock of a dead process is reclaimed.
Release(p) == Lease!Release(p) /\ UNCHANGED <<fileVars, opVars, masterVars, histVars>>
Reclaim == Lease!Reclaim /\ UNCHANGED <<fileVars, opVars, masterVars, histVars>>

\* The operation is refused, fails at whatever file it was about to touch, or
\* has nothing to save.
End(p) ==
    /\ Done(p)
    /\ UNCHANGED <<fileVars, masterVars, histVars>>
-----------------------------------------------------------------------------
(* #load and loadKeyAndSnapshot *)

\* The data key is there, and opens the ciphertext if there is one.
Opened(p, k) ==
    /\ now.data \in {None, k}
    /\ pc' = [pc EXCEPT ![p] = IF now.data = None THEN "data" ELSE "loaded"]
    /\ key' = [key EXCEPT ![p] = k]
    /\ snapshot' = [snapshot EXCEPT ![p] = now.saved]
    /\ UNCHANGED <<op, leaseVars, fileVars, masterVars, histVars>>

\* No envelope, and this process has never seen one.
Unprotected(p) ==
    /\ pc[p] = "load" /\ op[p] \in {"use", "setup"}
    /\ now.master = None
    /\ envelope[p] = 0

ReadKey(p) ==
    /\ Unprotected(p)
    /\ now.key # None
    /\ Opened(p, now.key)

\* The first key is drawn; never while there is ciphertext.
DrawKey(p) ==
    /\ Unprotected(p)
    /\ now.key = None /\ now.data = None
    /\ \E k \in Key \ used :
          /\ used' = used \cup {k}
          /\ key' = [key EXCEPT ![p] = k]
          /\ Put([now EXCEPT !.key = k])
    /\ Goto(p, "load", "key fsync")
    /\ UNCHANGED <<stamps, op, snapshot, leaseVars, masterVars, histVars>>

KeyDurable(p) ==
    /\ Goto(p, "key fsync", "data")
    /\ Fsync
    /\ UNCHANGED <<used, stamps, op, key, snapshot, leaseVars, masterVars, histVars>>

\* The empty snapshot is written.
WriteEmpty(p) ==
    /\ Goto(p, "data", "data fsync")
    /\ Put([now EXCEPT !.data = key[p], !.saved = {}])
    /\ snapshot' = [snapshot EXCEPT ![p] = {}]
    /\ UNCHANGED <<used, stamps, op, key, leaseVars, masterVars, histVars>>

EmptyDurable(p) ==
    /\ Goto(p, "data fsync", "loaded")
    /\ Fsync
    /\ UNCHANGED <<used, stamps, op, key, snapshot, leaseVars, masterVars, histVars>>

\* Fault: the envelope is not compared with the one that was unlocked.
UseMasterStale(p) ==
    /\ pc[p] = "load" /\ op[p] = "use"
    /\ now.master # None
    /\ masterKey[p] # None
    /\ Opened(p, masterKey[p])

\* The vault is unlocked in this process, and nobody has locked it since.
UseMaster(p) ==
    /\ pc[p] = "load" /\ op[p] = "use"
    /\ now.master # None
    /\ masterKey[p] # None /\ envelope[p] = now.stamp
    /\ Opened(p, masterKey[p])

\* VAULT_LOCKED: the key, if there is one, was unlocked from an envelope that
\* is no longer the current one, and is forgotten.
Locked(p) ==
    /\ pc[p] = "load" /\ op[p] = "use"
    /\ now.master # None
    /\ masterKey[p] = None \/ envelope[p] # now.stamp
    /\ masterKey' = [masterKey EXCEPT ![p] = None]
    /\ Done(p)
    /\ UNCHANGED <<fileVars, envelope, histVars>>
-----------------------------------------------------------------------------
(* persistSnapshot *)

\* The records are written with the loaded key, over what is there now.
Save(p) ==
    /\ op[p] = "use"
    /\ \E r \in Record \ snapshot[p] :
          /\ snapshot' = [snapshot EXCEPT ![p] = @ \cup {r}]
          /\ Put([now EXCEPT !.data = key[p], !.saved = snapshot[p] \cup {r}])
    /\ Goto(p, "loaded", "save fsync")
    /\ UNCHANGED <<used, stamps, op, key, leaseVars, masterVars, histVars>>

\* Fault: the save is reported without an fsync of the directory.
SaveReported(p) ==
    /\ pc[p] = "save fsync"
    /\ acked' = acked \cup snapshot[p]
    /\ Done(p)
    /\ UNCHANGED <<fileVars, masterVars, entered, retired>>

\* The save is durable, and is reported.
Saved(p) ==
    /\ pc[p] = "save fsync"
    /\ Fsync
    /\ acked' = acked \cup snapshot[p]
    /\ Done(p)
    /\ UNCHANGED <<used, stamps, masterVars, entered, retired>>
-----------------------------------------------------------------------------
(* ownerSetupMaster, ownerUnlock *)

\* rememberKey
Remember(p) ==
    /\ masterKey' = [masterKey EXCEPT ![p] = key[p]]
    /\ envelope' = [envelope EXCEPT ![p] = now.stamp]
    /\ entered' = entered \cup {p}

NewStamp == stamps < MaxStamp /\ stamps' = stamps + 1

\* Fault: the key in the clear goes first.
WrapKeyLast(p) ==
    /\ op[p] = "setup"
    /\ NewStamp
    /\ now' = [now EXCEPT !.master = key[p], !.stamp = stamps + 1, !.key = None]
    /\ past' = past \cup {now, [now EXCEPT !.key = None]}
    /\ Goto(p, "loaded", "wrap fsync")
    /\ UNCHANGED <<used, op, key, snapshot, leaseVars, masterVars, histVars>>

\* Setup writes the envelope, which wraps the loaded key ...
WrapKey(p) ==
    /\ op[p] = "setup"
    /\ NewStamp
    /\ Put([now EXCEPT !.master = key[p], !.stamp = stamps + 1])
    /\ Goto(p, "loaded", "wrap fsync")
    /\ UNCHANGED <<used, op, key, snapshot, leaseVars, masterVars, histVars>>

\* ... remembers the key once that is durable ...
WrapDurable(p) ==
    /\ Goto(p, "wrap fsync", "retire")
    /\ Fsync
    /\ Remember(p)
    /\ UNCHANGED <<used, stamps, op, key, snapshot, leaseVars, acked, retired>>

\* ... and only then removes the key in the clear.
RetireKey(p) ==
    /\ Goto(p, "retire", "retire fsync")
    /\ Put([now EXCEPT !.key = None])
    /\ UNCHANGED <<used, stamps, op, key, snapshot, leaseVars, masterVars, histVars>>

\* Unlock takes the key out of the envelope and has it open the ciphertext.  A
\* wrong password is an End.
Unwrap(p) ==
    /\ pc[p] = "load" /\ op[p] = "unlock"
    /\ now.master # None
    /\ Opened(p, now.master)

\* It finishes what an interrupted setup left, if the keys agree.
RetireLegacy(p) ==
    /\ op[p] = "unlock"
    /\ now.key = key[p]
    /\ Goto(p, "loaded", "retire fsync")
    /\ Put([now EXCEPT !.key = None])
    /\ UNCHANGED <<used, stamps, op, key, snapshot, leaseVars, masterVars, histVars>>

\* Fault: the removal is not made durable before success is reported.
RetireReported(p) ==
    /\ pc[p] = "retire fsync"
    /\ retired' = TRUE
    /\ Remember(p)
    /\ Done(p)
    /\ UNCHANGED <<fileVars, acked>>

\* The removal is durable and success is reported.  Unlock remembers the key
\* only now; setup has it already.
KeyRetired(p) ==
    /\ pc[p] = "retire fsync"
    /\ Fsync
    /\ retired' = TRUE
    /\ IF op[p] = "unlock" THEN Remember(p) ELSE UNCHANGED <<masterVars, entered>>
    /\ Done(p)
    /\ UNCHANGED <<used, stamps, acked>>

\* No key in the clear: nothing to finish.
Unlocked(p) ==
    /\ pc[p] = "loaded" /\ op[p] = "unlock"
    /\ now.key = None
    /\ Remember(p)
    /\ Done(p)
    /\ UNCHANGED <<fileVars, acked, retired>>
-----------------------------------------------------------------------------
(* ownerLock, dispose *)

\* Fault: the envelope is written as it was.
RelockInPlace(p) ==
    /\ op[p] = "lock"
    /\ now.master # None
    /\ masterKey' = [masterKey EXCEPT ![p] = None]
    /\ Put(now)
    /\ Goto(p, "load", "lock fsync")
    /\ UNCHANGED <<used, stamps, op, key, snapshot, envelope, leaseVars, histVars>>

\* The same key in an envelope with a new epoch.
Relock(p) ==
    /\ op[p] = "lock"
    /\ now.master # None
    /\ NewStamp
    /\ masterKey' = [masterKey EXCEPT ![p] = None]
    /\ Put([now EXCEPT !.stamp = stamps + 1])
    /\ Goto(p, "load", "lock fsync")
    /\ UNCHANGED <<used, op, key, snapshot, envelope, leaseVars, histVars>>

\* Once the lock is reported, no earlier unlock counts any more.
LockDurable(p) ==
    /\ pc[p] = "lock fsync"
    /\ Fsync
    /\ entered' = {}
    /\ Done(p)
    /\ UNCHANGED <<used, stamps, masterVars, acked, retired>>

\* The auto-lock timer, at any moment; a loaded operation keeps its copy.
AutoLock(p) ==
    /\ masterKey[p] # None
    /\ masterKey' = [masterKey EXCEPT ![p] = None]
    /\ entered' = entered \ {p}
    /\ UNCHANGED <<fileVars, leaseVars, opVars, envelope, acked, retired>>
-----------------------------------------------------------------------------
(* Failures *)

\* The memory of processes P is lost.
Lose(P) ==
    /\ pc' = [p \in Proc |-> IF p \in P THEN "idle" ELSE pc[p]]
    /\ key' = [p \in Proc |-> IF p \in P THEN None ELSE key[p]]
    /\ snapshot' = [p \in Proc |-> IF p \in P THEN {} ELSE snapshot[p]]
    /\ masterKey' = [p \in Proc |-> IF p \in P THEN None ELSE masterKey[p]]
    /\ envelope' = [p \in Proc |-> IF p \in P THEN 0 ELSE envelope[p]]
    /\ op' = [p \in Proc |-> IF p \in P THEN "use" ELSE op[p]]

\* A process is killed, or exits.
Die(p) ==
    /\ p \notin dead
    /\ Lease!Die({p})
    /\ Lose({p})
    /\ UNCHANGED <<fileVars, histVars>>

Started == {p \in Proc : pc[p] # "unborn"}

\* The power fails: every running process is gone, and so may be the steps
\* since the last fsync.
PowerCut ==
    /\ now' \in Disks
    /\ past' = {}
    /\ Lease!Die(Started)
    /\ Lose(Started)
    /\ UNCHANGED <<used, stamps, histVars>>
-----------------------------------------------------------------------------
Next ==
    \/ \E p \in Proc :
          \/ \E o \in Op : Begin(p, o)
          \/ End(p) \/ Release(p)
          \/ ReadKey(p) \/ DrawKey(p) \/ KeyDurable(p)
          \/ WriteEmpty(p) \/ EmptyDurable(p)
          \/ UseMaster(p) \/ Locked(p) \/ Save(p) \/ Saved(p)
          \/ WrapKey(p) \/ WrapDurable(p) \/ RetireKey(p)
          \/ Unwrap(p) \/ RetireLegacy(p) \/ KeyRetired(p) \/ Unlocked(p)
          \/ Relock(p) \/ LockDurable(p) \/ AutoLock(p)
          \/ Die(p)
    \/ Reclaim \/ PowerCut

Spec == Init /\ [][Next]_vars
-----------------------------------------------------------------------------
TypeOK ==
    /\ holder \in Proc \cup {NoHolder}
    /\ working \subseteq Proc /\ dead \subseteq Proc
    /\ now \in Disk /\ past \subseteq Disk
    /\ used \subseteq Key /\ stamps \in 0 .. MaxStamp
    /\ pc \in [Proc -> Step] /\ op \in [Proc -> Op]
    /\ key \in [Proc -> Key \cup {None}]
    /\ snapshot \in [Proc -> SUBSET Record]
    /\ masterKey \in [Proc -> Key \cup {None}]
    /\ envelope \in [Proc -> 0 .. MaxStamp]
    /\ acked \subseteq Record /\ entered \subseteq Proc /\ retired \in BOOLEAN

\* The records can always be opened with what is on disk, whichever process
\* was killed at whichever step and whatever a power failure takes back: an
\* envelope wraps the key of the ciphertext, and without an envelope the key
\* in the clear is that key.
Openable(disk) ==
    /\ disk.master # None => disk.data = disk.master
    /\ disk.data # None /\ disk.master = None => disk.key = disk.data

KeyOpensData == \A disk \in Disks : Openable(disk)

\* A record that a save has reported is never lost.
SavedStays == \A disk \in Disks : acked \subseteq disk.saved

\* Once a setup or an unlock has reported the key in the clear removed, it is
\* not on disk and never comes back.
ClearKeyGone ==
    retired => \A disk \in Disks : disk.key = None /\ disk.master # None

\* Under a master password an operation loads the records only in a process
\* that has unlocked the vault since the last lock by anyone was reported, and
\* whose unlock has not expired.
UnlockHonoured ==
    [][\A p \in Proc :
          op[p] = "use" /\ now.master # None
             /\ pc[p] = "load" /\ pc'[p] \in {"data", "loaded"}
          => p \in entered]_vars
-----------------------------------------------------------------------------
(* The inductive invariant *)

\* The vault lock: the processes in an operation are the working ones, and
\* there is no other than the holder.  The unborn know nothing.
Alone ==
    /\ \A p \in Proc : p \in working <=> pc[p] \notin {"unborn", "idle"}
    /\ \A p \in working : holder = p /\ p \notin dead
    /\ \A p \in Proc : pc[p] = "unborn" => masterKey[p] = None /\ p # holder

\* What an operation knows of the directory at each of its steps.
Knows(p) ==
    /\ pc[p] \in {"key fsync", "data"} =>
          /\ key[p] # None
          /\ now.key = key[p] /\ now.data = None
    /\ pc[p] \in {"data fsync", "loaded", "save fsync"} =>
          /\ key[p] # None
          /\ now.data = key[p] /\ now.saved = snapshot[p]
    /\ pc[p] \in {"key fsync", "data", "data fsync"} =>
          now.master = None /\ op[p] # "unlock"
    /\ pc[p] = "loaded" /\ op[p] = "setup" => now.master = None
    /\ pc[p] \in {"wrap fsync", "retire", "retire fsync"} =>
          /\ key[p] # None
          /\ now.data = key[p] /\ now.master = key[p]
          /\ op[p] \in {"setup", "unlock"}
    /\ pc[p] = "retire fsync" => now.key = None
    /\ pc[p] = "loaded" /\ op[p] = "unlock" => now.master = key[p]

\* Envelopes are numbered as they are written.
Stamped ==
    /\ \A disk \in Disks : disk.stamp <= stamps
    /\ \A p \in Proc : envelope[p] <= stamps

\* A process that could use its unlocked key may.
Entitled ==
    /\ \A p \in Proc :
          masterKey[p] # None /\ envelope[p] = now.stamp => p \in entered
    /\ \A p \in Proc : pc[p] = "lock fsync" =>
          \A q \in Proc : masterKey[q] # None => envelope[q] # now.stamp

NoDataNoRecord == \A disk \in Disks : disk.data = None => disk.saved = {}

IndInv ==
    /\ TypeOK
    /\ Alone
    /\ \A p \in Proc : Knows(p)
    /\ Stamped
    /\ Entitled
    /\ NoDataNoRecord
    /\ KeyOpensData
    /\ SavedStays
    /\ ClearKeyGone
=============================================================================
