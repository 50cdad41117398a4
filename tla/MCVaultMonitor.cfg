CONSTANTS
  Confirmations = 1
  VaultDefaultBatchSize = 2
  VaultMaxBatchSize = 3
  VaultMinBatchSize = 1
  Lookback = 3
  StepBack = 3
  NamedBlocks = 1
  FirstHead = 0
  MaxBlock = 5
SPECIFICATION FairSpec
INVARIANTS
  TypeOK
  NothingUnread
  ReadConfirmed
PROPERTIES
  KeepsUp
  StopCompletes
