--------------------------- MODULE MCTermination ----------------------------
\* Three quits: one to defer, one that overlaps it, one that comes too late.
EXTENDS Termination
=============================================================================
