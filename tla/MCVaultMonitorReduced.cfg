CONSTANTS
  Confirmations = 1
  VaultDefaultBatchSize = 2
  VaultMaxBatchSize = 4
  VaultMinBatchSize = 1
  Lookback = 6
  StepBack = 3
  NamedBlocks = 1
  FirstHead = 0
  MaxBlock = 8
SPECIFICATION Spec
INVARIANT ReducedIsAsked
