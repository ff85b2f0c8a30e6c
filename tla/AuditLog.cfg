SPECIFICATION FairSpec
CONSTANTS
  Accounts = {"a", "b"}
  Default = "a"
  Kinds = {"copy", "skip"}
  KindAt <- MCKinds
  TiedAt <- MCTied
  Filters = {"all", "copy"}
  Tokens = {"t1", "t2"}
  FirstSecrets = {"t1"}
  Page = 2
  OldRows <- MCOldRows
  MaxRows = 1
  MaxEvents = 2
  None = None
INVARIANT EachRowOnce
PROPERTY RowsArrive
CHECK_DEADLOCK FALSE
