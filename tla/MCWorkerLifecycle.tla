------------------------- MODULE MCWorkerLifecycle -------------------------
\* The worker lifecycle for a few sessions and enough process tokens that a
\* free one always exists.
EXTENDS WorkerLifecycle

=============================================================================
