------------------------------ MODULE SerialLanes ------------------------------
(***************************************************************************)
(* What the host client's queues promise (src/src/client.ts, _enqueue and  *)
(* _enqueueExclusive): jobs of one session, and an exclusive job and any   *)
(* other, run one at a time in the order in which they were handed in; any *)
(* two others may overlap, and a job waits for nothing else.  Which        *)
(* promises bring this about is SessionLanes' business.                    *)
(***************************************************************************)
EXTENDS Naturals

CONSTANTS
    Lanes,      \* session names, and HOST_LANE
    Exclusive   \* the "lane" of an exclusive job

VARIABLES
    last,       \* the number of jobs handed in so far
    lane,       \* the lane of each
    state       \* "waiting", "running" or "done"

vars == <<last, lane, state>>

Jobs == 1 .. last

Conflict(i, j) ==
    lane[i] = lane[j] \/ lane[i] = Exclusive \/ lane[j] = Exclusive

\* Every job it may not overtake has finished.
Due(j) == \A i \in Jobs : i < j /\ Conflict(i, j) => state[i] = "done"

Init ==
    /\ last = 0
    /\ lane = [j \in {} |-> Exclusive]
    /\ state = [j \in {} |-> "waiting"]

Submit(l) ==
    /\ last' = last + 1
    /\ lane' = [j \in 1 .. last + 1 |-> IF j \in Jobs THEN lane[j] ELSE l]
    /\ state' = [j \in 1 .. last + 1 |-> IF j \in Jobs THEN state[j] ELSE "waiting"]

Start(j) ==
    /\ state[j] = "waiting" /\ Due(j)
    /\ state' = [state EXCEPT ![j] = "running"]
    /\ UNCHANGED <<last, lane>>

Finish(j) ==
    /\ state[j] = "running"
    /\ state' = [state EXCEPT ![j] = "done"]
    /\ UNCHANGED <<last, lane>>

Next ==
    \/ \E l \in Lanes \cup {Exclusive} : Submit(l)
    \/ \E j \in Jobs : Start(j) \/ Finish(j)

Spec == Init /\ [][Next]_vars
=============================================================================
