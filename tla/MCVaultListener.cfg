CONSTANTS
  p = p
  q = q
  nobody = nobody
  monitor = monitor
  trigger = trigger
  Chains <- MCChains
  Position <- MCPosition
  NoPosition = nobody
  Worker <- MCWorker
  Monitor = monitor
  Trigger = trigger
  SuspiciousCounts = {1}
  MaxFaults = 2
CHECK_DEADLOCK FALSE
SPECIFICATION Spec
INVARIANTS
  TypeOK
  LossExplained
  DoubleExplained
  StatusFollowsChain
  FundingExact
