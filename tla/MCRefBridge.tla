----------------------------- MODULE MCRefBridge ----------------------------
\* Three threads, and an object that crosses the boundary twice.
EXTENDS RefBridge
CONSTANTS main, io, worker, w1, w2
=============================================================================
