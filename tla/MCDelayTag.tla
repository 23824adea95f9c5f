----------------------------- MODULE MCDelayTag -----------------------------
(* Small instances of DelayTag for TLC.                                     *)
EXTENDS DelayTag, TLC

CONSTANTS p1, p2
MCPackets == {p1, p2}
MCSymmetry == Permutations(MCPackets)
\* The memory was zero, or held something.
MCGarbage == {0, 2}
=============================================================================
