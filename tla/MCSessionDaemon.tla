--------------------------- MODULE MCSessionDaemon ---------------------------
\* Two or three clients of one session.
EXTENDS SessionDaemon, TLC

CONSTANTS c1, c2, c3

TwoClients == {c1, c2}
ThreeClients == {c1, c2, c3}
FreshClients == {c2}
FlakyClients == {c1}
MCFrames == (c1 :> 3) @@ (c2 :> 1)
NoFrames == [c \in Client |-> 0]
Symmetric == Permutations(Client)
=============================================================================
