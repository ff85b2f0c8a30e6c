SPECIFICATION FairSpec
CONSTANTS
  Trades = {t1}
  Orders = {o1, o2}
  Size = 100
  Levels <- MCHalves
  Shape <- OneShape
  RetryLimit = 0
  Faults = {"statusDown", "listDown", "stale", "expire", "crash"}
  None = None
  Recovered = Recovered
INVARIANT NoOverCredit
PROPERTIES OpenOrdersGetTracked ClosedRowsResolve
