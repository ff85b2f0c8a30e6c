SPECIFICATION Spec
CONSTANTS
  Trades = {t1, t2}
  Orders = {o1, o2}
  Size = 100
  Levels <- MCLevels
  Shape <- DistinctShapes
  RetryLimit = 1
  Faults = {"statusDown", "listDown", "reject", "expire"}
  None = None
  Recovered = Recovered
INVARIANTS NoDuplicateCopy FillsBooked
PROPERTY FillsAreLedger
