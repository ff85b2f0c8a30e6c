SPECIFICATION Spec
CONSTANTS
  Trades = {t1, t2}
  Orders = {o1, o2}
  Size = 100
  Levels <- MCAllOrNothing
  Shape <- DistinctShapes
  RetryLimit = 1
  Faults = {"statusDown", "adoptDown", "lost", "reject", "noId", "flush", "crash", "apiCancel"}
  None = None
  Recovered = Recovered
SYMMETRY MCSymmetry
INVARIANTS TypeOK RowsHaveSeenTrades RowsOwnTheirOrders
