--------------------------- MODULE MCInputBoundaries ---------------------------
\* The instances of MCAgentLoop, with the host that watches its inputs.
EXTENDS InputBoundaries, MCAgentLoop
=============================================================================
