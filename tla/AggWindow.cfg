SPECIFICATION FairSpec
CONSTANTS
  Fills <- MCFills
  Combos = {6}
  Leader <- MCLeader
  Group <- MCGroup
  At <- MCAt
  Shares <- MCShares
  Windows = {0, 4}
  Limit = 4
  Lag = 2
INVARIANTS BatchesAreWindows NoFillCopiedTwice
PROPERTY ListedGetPolled
