---------------------------- MODULE MCRtpSender -----------------------------
EXTENDS RtpSender
MCPackets == {"small", "large"}
MCSize == [p \in MCPackets |-> IF p = "small" THEN 1 ELSE 2]
\* All zeroes, a maximum that leaves room behind a frame, and the reserved value.
MCGarbage == {0, 4, 6}
=============================================================================
