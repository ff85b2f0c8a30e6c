SPECIFICATION Spec
CONSTANTS
  Leaders = {l1, l2}
  Tokens = {k1, k2}
  Conditions = {c}
  CondOf <- OneMarket
  Modes = {TRUE, FALSE}
  AutoRedeem = TRUE
  MaxGot = 1
  Faults = {"redeemDown", "redeemLost", "crash"}
  None = None
SYMMETRY MCSymmetry
INVARIANT SharesPaidOnce
