--------------------------- MODULE MCDownloadGate ---------------------------
\* The download gate on a small set of sessions.
EXTENDS DownloadGate

CONSTANTS s1, s2

TwoSessions == {s1, s2}

=============================================================================
