-------------------------- MODULE MCWorkerSessions --------------------------
\* Two sessions; a human is asked in one of them; one command may be refused.
EXTENDS WorkerSessions

CONSTANTS s1, s2

MCSession == {s1, s2}
MCAsked == {s1}
=============================================================================
