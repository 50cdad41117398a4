-------------------------- MODULE MCVaultListener --------------------------
(* Instances of VaultListener for TLC: short histories of vaults, each one *)
(* with logs that may disturb each other.                                  *)
EXTENDS VaultListener

CONSTANTS p, q, nobody, monitor, trigger

MCPosition == {p, q}
MCWorker == {monitor, trigger}

\* The date of a log is its block.
Dated(tx, kind, pos, vault, date) ==
  [tx |-> tx, kind |-> kind, position |-> pos, vault |-> vault, date |-> date]

L(tx, kind, pos, vault) == Dated(tx, kind, pos, vault, tx)

\* A mint whose log precedes its deposit.
Mint == <<
  L(1, "XTFTokensTransferred", p, "ferrox"),
  L(1, "VaultDeposit", p, "ferrox") >>

\* Updates of several positions in one transaction.
Update == <<
  L(1, "PositionStatusUpdated", p, "ferrox"),
  L(1, "PositionStatusUpdated", p, "ferrox"),
  L(1, "PositionStatusUpdated", q, "ferrox") >>

\* A deposit before the buyout is scheduled, one after it, and one after its date.
Before == <<
  L(1, "ComputeLabsVaultDeposit", p, "compute_labs"),
  L(1, "CLGPUTokensTransferred", p, "compute_labs"),
  L(2, "BuyoutScheduled", nobody, "compute_labs") >>

After == <<
  Dated(1, "BuyoutScheduled", nobody, "compute_labs", 2),
  L(2, "ComputeLabsVaultDeposit", q, "compute_labs"),
  L(2, "CLGPUTokensTransferred", q, "compute_labs") >>

TooLate == <<
  L(1, "BuyoutScheduled", nobody, "compute_labs"),
  L(2, "ComputeLabsVaultDeposit", q, "compute_labs"),
  L(2, "CLGPUTokensTransferred", q, "compute_labs") >>

\* A buyout that is executed.
Execution == <<
  L(1, "BuyoutScheduled", nobody, "compute_labs"),
  L(2, "BuyoutExecuted", nobody, "compute_labs") >>

\* A vault that is closed and opened again.
Status == <<
  L(1, "VaultClosedToNewInvestments", nobody, "compute_labs"),
  L(2, "VaultReopened", nobody, "compute_labs") >>

\* Signatures that the trigger or the supplement leave out.
Reserve == <<
  L(1, "RazeReserveVaultDeposit", p, "raze_reserve"),
  L(2, "RazeReserveVaultRedeemed", p, "raze_reserve") >>

\* A roll-over that its handler leaves alone.
Knots == <<
  L(1, "KnotsVaultDeposit", q, "129knots"),
  L(1, "RedemptionRequested", q, "129knots"),
  L(1, "VaultRolledOver", q, "129knots") >>

\* Two vaults of one chain, added by Start one after the other.
Two == <<
  L(1, "ContractPaused", nobody, "ferrox"),
  L(2, "DistributionClaimed", p, "compute_labs") >>

\* Positions of the same user and id in two vaults, from one transaction.
Same == <<
  L(1, "VaultDeposit", p, "ferrox"),
  L(1, "VaultDeposit", p, "ferrox_us"),
  L(1, "XTFTokensTransferred", p, "ferrox_us") >>

\* For the claim about forced requests: one deposit.
MCDeposit == {<<L(1, "VaultDeposit", p, "ferrox")>>}

MCChains ==
  {Mint, Update, Before, After, TooLate, Execution, Status, Reserve, Knots, Two, Same}
=============================================================================
