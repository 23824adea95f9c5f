---------------------------- MODULE MCScoreboard ----------------------------
(* Small instances of Scoreboard for TLC.                                   *)
EXTENDS Scoreboard
=============================================================================
