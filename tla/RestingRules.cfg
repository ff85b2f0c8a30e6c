SPECIFICATION Spec
CONSTANTS
  Leaders <- LiveLeaders
  Tokens <- MCTokens
  Trades <- LiveTrades
  Recoveries <- LiveOrphans
  Trade <- LiveTrade
  Preview = FALSE
  Capital = 10
  LossCapPct = 10
  MaxVolume = 16
  LeaderVolume <- Generous
  MaxMarkets = 1
  MinOrder = 3
  TokenCap = 12
  PositionCap <- NoCaps
  CostBasis = FALSE
  ConflictMode = "priority_leader"
  Rank <- LiveRank
  Cent = 1
  Days = 1
  None = None
INVARIANTS TypeOK KillSwitchHolds CopiedOnce
