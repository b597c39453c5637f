--------------------------- MODULE MCServerManager ---------------------------
(* A socket server with two clients and some of its administrators' commands. *)
EXTENDS ServerManager, TLC

CONSTANTS s1, s2

MCSession == {s1, s2}
MCDuration == {2, 3, 6}
MCReminders == {1, 3}
=============================================================================
