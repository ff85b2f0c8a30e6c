SPECIFICATION Spec
CONSTANTS
  Leaders <- MCLeaders
  Tokens <- MCTokens
  Trades <- RiskTrades
  Recoveries <- NoOrphans
  Trade <- RiskTrade
  Preview = TRUE
  Capital = 80
  LossCapPct = 10
  MaxVolume = 150
  LeaderVolume <- RiskVolumes
  MaxMarkets = 1
  MinOrder = 35
  TokenCap = 0
  PositionCap <- RiskCaps
  CostBasis = TRUE
  ConflictMode = "skip_both"
  Rank <- MCRank
  Cent = 10
  Days = 1
  None = None
INVARIANTS VolumeWithinCaps MarketsWithinCap CashCovers BooksBalance OneSidePerToken
PROPERTY BuyWindowRespected
