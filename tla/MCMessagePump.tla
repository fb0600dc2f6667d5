--------------------------- MODULE MCMessagePump ----------------------------
\* A heartbeat of two ticks; CEF asks for an immediate pump, for one within the
\* heartbeat, for one at the heartbeat and for one that has to be clamped.
EXTENDS MessagePump
MCDelays == {0, 1, 2, 3}
=============================================================================
