---------------------------- MODULE MCSessionLanes ----------------------------
\* The queues with at most MaxJobs jobs enqueued.
EXTENDS SessionLanes

CONSTANT MaxJobs

BoundedNext ==
    \/ last < MaxJobs /\ \E l \in Lanes : Enqueue(l)
    \/ last < MaxJobs /\ EnqueueExclusive
    \/ \E j \in Jobs : StartJob(j)
    \/ \E j \in Jobs : Finish(j)

\* A job that can start does, and a job that runs ends: every call of the
\* client has a timer.
BoundedSpec ==
    /\ LanesInit /\ [][BoundedNext]_lanesVars
    /\ \A j \in 1 .. MaxJobs :
          WF_lanesVars(j \in Jobs /\ StartJob(j)) /\ WF_lanesVars(j \in Jobs /\ Finish(j))

\* No job waits for ever, whatever mixture of lanes and exclusive jobs
\* surrounds it.
EveryJobRuns ==
    \A j \in 1 .. MaxJobs : j \in Jobs ~> (j \in Jobs /\ state[j] = "done")
=============================================================================
