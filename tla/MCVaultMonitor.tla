--------------------------- MODULE MCVaultMonitor ---------------------------
(* Instances of VaultMonitor for TLC. *)
EXTENDS VaultMonitor
=============================================================================
