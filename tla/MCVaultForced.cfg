CONSTANTS
  p = p
  q = q
  nobody = nobody
  monitor = monitor
  trigger = trigger
  Chains <- MCDeposit
  Position <- MCPosition
  NoPosition = nobody
  Worker <- MCWorker
  Monitor = monitor
  Trigger = trigger
  SuspiciousCounts = {}
  MaxFaults = 2
CHECK_DEADLOCK FALSE
SPECIFICATION Spec
PROPERTY
  ForcedReprocesses
