CONSTANTS
  c1 = c1
  c2 = c2
  c3 = c3
  Chains <- MCChains
  Polled <- MCPolled
SPECIFICATION FairSpec
INVARIANTS
  TypeOK
  StoreUsable
  CleanExit
PROPERTY SignalEnds
