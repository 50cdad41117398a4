----------------------------- MODULE MCService -----------------------------
(* Instances of Service for TLC. *)
EXTENDS Service

CONSTANTS c1, c2, c3

MCChains == <<c1, c2, c3>>
MCPolled == {c1}
=============================================================================
