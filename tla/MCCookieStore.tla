---------------------------- MODULE MCCookieStore ---------------------------
\* Three calls, enough to set, list and delete around each other.
EXTENDS CookieStore
CONSTANTS k1, k2
=============================================================================
