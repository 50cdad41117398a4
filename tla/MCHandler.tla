----------------------------- MODULE MCHandler -----------------------------
(* Instances of Handler for TLC. *)
EXTENDS Handler, TLC

CONSTANTS x, y, d1, d2, e1, e2

MCChainID == {x, y}
MCDigits == {d1, d2}
MCEvent == {e1, e2}
\* Some function that is not the identity.
MCHash == [v \in 0..3 |-> IF v = 0 THEN 3 ELSE v - 1]
Symmetry == Permutations(MCChainID) \cup Permutations(MCDigits) \cup Permutations(MCEvent)
=============================================================================
