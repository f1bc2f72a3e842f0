----------------------------- MODULE SessionLanes -----------------------------
(***************************************************************************)
(* The host client's queues (src/src/client.ts, _enqueue and               *)
(* _enqueueExclusive).  A job of a session's lane starts when the lane's   *)
(* last job and the last exclusive job have finished; an exclusive job     *)
(* (Cookie Sync, every run of a host-owned browser) starts when the last   *)
(* exclusive job and the last job of every lane have.  A lane is forgotten *)
(* once it has drained, and a failed job counts as finished.               *)
(*                                                                         *)
(* Jobs are numbered in the order in which they were enqueued.  Names that *)
(* WorkerLifecycle has too say that they are the queues', so that the      *)
(* proofs about the client can extend both modules.                        *)
(***************************************************************************)
EXTENDS Naturals, FiniteSets

CONSTANTS
    Lanes,      \* session names, and HOST_LANE
    Exclusive   \* the "lane" of an exclusive job

ASSUME ExclusiveIsNoLane == Exclusive \notin Lanes

VARIABLES
    last,       \* the number of jobs enqueued so far
    lane,       \* the lane of each job
    state,      \* "waiting", "running" or "done"
    waits,      \* the jobs whose promises each job was chained to
    tail,       \* _queues: the last job of each lane, or 0
    gate        \* _exclusiveGate: the last exclusive job, or 0

lanesVars == <<last, lane, state, waits, tail, gate>>

Jobs == 1 .. last

LanesInit ==
    /\ last = 0
    /\ lane = [j \in {} |-> Exclusive]
    /\ state = [j \in {} |-> "waiting"]
    /\ waits = [j \in {} |-> {}]
    /\ tail = [l \in Lanes |-> 0]
    /\ gate = 0

\* A job chained to the promises of the jobs in deps joins the queues.
Chain(l, deps) ==
    /\ last' = last + 1
    /\ lane' = [j \in 1 .. last + 1 |-> IF j \in Jobs THEN lane[j] ELSE l]
    /\ state' = [j \in 1 .. last + 1 |-> IF j \in Jobs THEN state[j] ELSE "waiting"]
    /\ waits' = [j \in 1 .. last + 1 |-> IF j \in Jobs THEN waits[j] ELSE deps]

Enqueue(l) ==
    /\ Chain(l, {tail[l], gate} \ {0})
    /\ tail' = [tail EXCEPT ![l] = last + 1]
    /\ UNCHANGED gate

\* Fault: the gate is replaced before the promise to wait for is read.
EnqueueExclusiveOwnGate ==
    /\ Chain(Exclusive, ({last + 1} \cup {tail[l] : l \in Lanes}) \ {0})
    /\ gate' = last + 1
    /\ UNCHANGED tail

\* Fault: an exclusive job replaces the gate without waiting for the last one.
EnqueueExclusiveUngated ==
    /\ Chain(Exclusive, {tail[l] : l \in Lanes} \ {0})
    /\ gate' = last + 1
    /\ UNCHANGED tail

EnqueueExclusive ==
    /\ Chain(Exclusive, ({gate} \cup {tail[l] : l \in Lanes}) \ {0})
    /\ gate' = last + 1
    /\ UNCHANGED tail

\* Promise.all of the awaited promises has settled.
StartJob(j) ==
    /\ state[j] = "waiting"
    /\ \A i \in waits[j] : state[i] = "done"
    /\ state' = [state EXCEPT ![j] = "running"]
    /\ UNCHANGED <<last, lane, waits, tail, gate>>

\* Fault: a lane is forgotten when any of its jobs ends.
ForgetAlways(j) ==
    tail' = [l \in Lanes |-> IF l = lane[j] THEN 0 ELSE tail[l]]

\* The lane whose last job this is drains.
ForgetDrained(j) ==
    tail' = [l \in Lanes |-> IF tail[l] = j THEN 0 ELSE tail[l]]

\* The job resolves or rejects.
Finish(j) ==
    /\ state[j] = "running"
    /\ state' = [state EXCEPT ![j] = "done"]
    /\ ForgetDrained(j)
    /\ UNCHANGED <<last, lane, waits, gate>>

LanesNext ==
    \/ \E l \in Lanes : Enqueue(l)
    \/ EnqueueExclusive
    \/ \E j \in Jobs : StartJob(j) \/ Finish(j)

LanesSpec == LanesInit /\ [][LanesNext]_lanesVars

-----------------------------------------------------------------------------
\* The queues keep the promise of SerialLanes: although a job is chained only to
\* the tails it finds, it starts when every job it may not overtake has finished.
Serial == INSTANCE SerialLanes
SerialSpec == Serial!Spec

\* The types: a job is chained to jobs that exist, and so are the queues.
LanesTypeOK ==
    /\ last \in Nat
    /\ lane \in [Jobs -> Lanes \cup {Exclusive}]
    /\ state \in [Jobs -> {"waiting", "running", "done"}]
    /\ waits \in [Jobs -> SUBSET Jobs]
    /\ tail \in [Lanes -> 0 .. last]
    /\ gate \in 0 .. last

Conflict(i, j) ==
    lane[i] = lane[j] \/ lane[i] = Exclusive \/ lane[j] = Exclusive

\* Jobs of one session, and an exclusive job and any other, run one at a time
\* and in the order they were enqueued.
InOrder ==
    \A i, j \in Jobs :
        i < j /\ Conflict(i, j) /\ state[j] # "waiting" => state[i] = "done"

\* What a waiting job is chained to stands for every job it must follow.
Covered ==
    \A i, j \in Jobs :
        i < j /\ Conflict(i, j) /\ state[i] # "done" =>
            \E k \in waits[j] : k = i \/ (i < k /\ Conflict(i, k))

\* A job is chained only to earlier jobs of its own lane or kind.
Backward == \A j \in Jobs : \A k \in waits[j] : k < j /\ Conflict(k, j)

\* The queues remember the last job of a lane until it is done, and the gate
\* the last exclusive job.
TailsAndGate ==
    /\ \A l \in Lanes :
          /\ tail[l] # 0 => lane[tail[l]] = l
          /\ \A i \in Jobs : lane[i] = l => i <= tail[l] \/ state[i] = "done"
    /\ gate # 0 => lane[gate] = Exclusive
    /\ \A i \in Jobs : lane[i] = Exclusive => i <= gate

\* The inductive invariant behind InOrder.
LanesInv == LanesTypeOK /\ InOrder /\ Covered /\ Backward /\ TailsAndGate
=============================================================================
