-------------------------- MODULE MCClientLifecycle --------------------------
(* Two clients, enough for configure() to open one while the other closes, *)
(* and two callers that share a ready() or overlap a close.                *)
EXTENDS ClientLifecycle

CONSTANTS k1, k2

ClientsHere == {1, 2}
CallsHere == {k1, k2}
LevelsHere == {1, 4}
=============================================================================
