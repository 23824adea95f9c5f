---------------------------- MODULE MCTcpSender -----------------------------
(* Small instances of TcpSender for TLC.                                    *)
EXTENDS TcpSender

\* One RTT below every target of the instance and one above.
MCRtts == {2000, 40000}

MCPath(segments, losses, marks, overtake, spurious) ==
    [segments |-> segments, losses |-> losses, marks |-> marks,
     overtake |-> overtake, spurious |-> spurious]

\* A long transfer over a path that drops twice, a short one over a path that
\* drops, overtakes and lets the timer fire early, one that is marked, and a
\* short one that is marked and overtaken.
MCSenderPaths ==
    {MCPath(7, 2, 0, 0, FALSE), MCPath(4, 1, 0, 1, TRUE), MCPath(8, 0, 2, 0, FALSE),
     MCPath(5, 0, 1, 1, FALSE)}

\* A path that drops twice and one that marks.
MCLivePaths == {MCPath(5, 2, 0, 0, FALSE), MCPath(5, 0, 2, 0, FALSE)}

\* One mark and a path that overtakes.
MCEcnPaths == {MCPath(7, 0, 1, 1, FALSE)}
=============================================================================
