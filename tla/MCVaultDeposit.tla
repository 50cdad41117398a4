--------------------------- MODULE MCVaultDeposit ---------------------------
(* Instances of VaultDeposit for TLC: one token at the deployer, a deposit *)
(* of one token handed over twice, and a deposit of a vault that mints by  *)
(* itself, or of the deployer's last token.                                *)
EXTENDS VaultDeposit, TLC

CONSTANTS d1, d2, w1, w2

MCDeposit == {d1, d2}
MCWorker == {w1, w2}
MCBackend == {d1}
MCTokens == d1 :> 1 @@ d2 :> 1
MCAgain == d1 :> 2 @@ d2 :> 1
=============================================================================
