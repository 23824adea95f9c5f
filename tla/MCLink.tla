------------------------------- MODULE MCLink -------------------------------
(* Small instances of Link for TLC.                                         *)
EXTENDS Link

\* Long packets, as of data, and then short ones, as of ACKs: a limit that has
\* grown by the long ones admits more short ones than the quota.
MCSizeOf(p) == IF p <= 4 THEN 4 ELSE 1
=============================================================================
