------------------------- MODULE MCBrowserLifecycle -------------------------
\* Two or three views and as many browsers; a view may be zero-sized, and then
\* have one of two real sizes.
EXTENDS BrowserLifecycle
CONSTANTS v1, v2, v3, b1, b2, b3, u1, u2
=============================================================================
