--------------------------- MODULE MCPlatform ---------------------------
(* Two handlers beside the worker, three runs over restarts, two snapshot dates. *)
EXTENDS Platform, TLC

CONSTANTS c1, c2

MCClients == {c1, c2}
MCDates == {1, 2}
=============================================================================
