CONSTANTS
  l1 = l1
  l2 = l2
  Log = {l1}
  MaxBlock = 3
  MaxReorg = 0
  MaxAbandoned = 0
  MaxReorgs = 0
  StartBlocks = {1}
  Confirmations = 1
  BlockBatchSize = 1
  DefaultBatch = 2
  MaxUint64 = 15
  Ignored = {}
  Undecodable = {}
SPECIFICATION FairSpec
PROPERTIES
  Reconnects
  ChannelDrains
  ShutdownCompletes
