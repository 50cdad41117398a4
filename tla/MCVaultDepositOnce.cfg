CONSTANTS
  d1 = d1
  d2 = d2
  w1 = w1
  w2 = w2
  NoDeposit = NoDeposit
  Deposit <- MCDeposit
  Worker <- MCWorker
  Backend <- MCDeposit
  Tokens <- MCTokens
  Supply = 1
  MaxRuns <- MCAgain
SPECIFICATION Spec
INVARIANT MintedOnce
