----------------------------- MODULE MCDownload ------------------------------
\* Two downloads of one view, reported up to two or three blocks ahead.
EXTENDS Download
CONSTANTS d1, d2
MCHost == {"cancel", "pause", "close"}
=============================================================================
