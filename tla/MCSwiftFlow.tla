---------------------------- MODULE MCSwiftFlow -----------------------------
(* Small instances of SwiftFlow for TLC.                                    *)
EXTENDS SwiftFlow

\* Windows PRR may choose: none, less than a segment, some, many segments.
MCRecoveryWindows == {0, 3, 9, 22}
\* Below every target, between the targets, above every target.
MCRtts == {2000, 7000, 40000}
MCTicks == {20000}
MCHops == {2}
=============================================================================
