SPECIFICATION FairSpec
CONSTANTS
  Leaders = {l1}
  Tokens = {k1}
  Conditions = {k1}
  CondOf <- OwnMarkets
  Modes = {TRUE, FALSE}
  AutoRedeem = TRUE
  MaxGot = 2
  Faults = {"scanDown", "gammaDown", "redeemDown", "redeemLost", "closedFirst", "unfollow", "flush"}
  None = None
PROPERTIES ChainFirst ResolvedGetsPaid
