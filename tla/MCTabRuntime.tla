---------------------------- MODULE MCTabRuntime ----------------------------
\* Model values for TabRuntime and, under it, NavigationMirror.
EXTENDS TabRuntime
CONSTANTS t1, t2, w1, w2, w3, p1, p2
=============================================================================
