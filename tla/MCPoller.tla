------------------------------ MODULE MCPoller ------------------------------
(* Instances of Poller for TLC. *)
EXTENDS Poller

CONSTANTS l1, l2, l3

MCLog == {l1, l2, l3}
MCIgnored == {l3}
=============================================================================
