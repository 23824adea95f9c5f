-------------------------- MODULE MCTcpConnection ---------------------------
(* Small instances of TcpConnection for TLC.                                *)
EXTENDS TcpConnection

Pair(c, s) == [p \in Peers |-> IF p = "client" THEN c ELSE s]

\* Data both ways, and a half close by each side, with data from either.
MCScripts ==
    {Pair({"Send", "Close"}, {"Send", "Close"}),
     Pair({"Send", "Close"}, {"ShutdownSend", "Close"}),
     Pair({"ShutdownSend", "Close"}, {"Send", "Close"}),
     Pair({"Send", "ShutdownSend", "Close"}, {"Close"})}
=============================================================================
