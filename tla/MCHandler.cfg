CONSTANTS
  x = x
  y = y
  d1 = d1
  d2 = d2
  e1 = e1
  e2 = e2
  ChainID <- MCChainID
  Digits <- MCDigits
  Event <- MCEvent
  MaxContracts = 2
  Arity = 2
  Word = 4
  Address = 2
  Byte = 2
  Small = 2
  Hash <- MCHash
SYMMETRY Symmetry
SPECIFICATION Spec
INVARIANTS
  TypeOK
  AskedIsRegistered
  VerdictAsConfigured
  RowMatchesLog
CHECK_DEADLOCK FALSE
