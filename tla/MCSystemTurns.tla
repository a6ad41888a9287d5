--------------------------- MODULE MCSystemTurns ---------------------------
\* Instances of SystemTurns small enough to explore.
EXTENDS SystemTurns
=============================================================================
