---------------------------- MODULE MCWebSocket ----------------------------
(* Instances of WebSocket for TLC. *)
EXTENDS WebSocket, TLC

CONSTANTS l1, l2

MCLog == {l1, l2}
Symmetry == Permutations(MCLog)
=============================================================================
