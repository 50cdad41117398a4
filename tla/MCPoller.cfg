CONSTANTS
  l1 = l1
  l2 = l2
  l3 = l3
  Log <- MCLog
  MaxBlock = 3
  MaxReorg = 1
  MaxAbandoned = 1
  StartBlocks = {1, 2}
  Confirmations = 1
  BlockBatchSize = 0
  DefaultBatch = 2
  MaxUint64 = 15
  Ignored <- MCIgnored
  Undecodable = {}
SPECIFICATION FairSpec
INVARIANTS
  TypeOK
  Coverage
  NoDuplicateRows
  RowsCanonical
PROPERTIES
  CheckpointMonotone
  ImplementsFeed
  EveryLogHandled
  ShutdownCompletes

