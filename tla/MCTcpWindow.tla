---------------------------- MODULE MCTcpWindow -----------------------------
(* Small instances of TcpWindow for TLC.                                    *)
EXTENDS TcpWindow
=============================================================================
