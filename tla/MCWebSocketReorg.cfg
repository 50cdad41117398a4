CONSTANTS
  l1 = l1
  l2 = l2
  Log <- MCLog
  MaxBlock = 2
  MaxReorg = 1
  MaxAbandoned = 1
  MaxReorgs = 1
  StartBlocks = {1}
  Confirmations = 1
  BlockBatchSize = 1
  DefaultBatch = 2
  MaxUint64 = 15
  Ignored = {}
  Undecodable = {}
SYMMETRY Symmetry
SPECIFICATION Spec
INVARIANTS
  TypeOK
  LossAccounted
  TornSharesBlock
  ChannelNotPassed
