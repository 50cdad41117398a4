CONSTANTS
  l1 = l1
  l2 = l2
  Log <- MCLog
  MaxBlock = 3
  MaxReorg = 0
  MaxAbandoned = 0
  MaxReorgs = 0
  StartBlocks = {1}
  Confirmations = 1
  BlockBatchSize = 1
  DefaultBatch = 2
  MaxUint64 = 15
  Ignored = {}
  Undecodable = {}
SYMMETRY Symmetry
SPECIFICATION Spec
INVARIANT CaughtUp
