SPECIFICATION FairSpec
CONSTANTS
  AccountIds <- MCAccounts
  LeaderIds <- MCLeaders
  Bare <- MCBare
  LiveConfirmed = TRUE
  Trades = {t1}
  Requests <- MCRequests
  MaxRequests = 2
  Script <- MCScript
  InitFiles <- MCFiles
  Faults = {"netDown", "crash"}
  MaxRestarts = 1
  None = None
INVARIANTS RuntimesFollowFile OrdersLostWithStoresOnly
PROPERTIES WritesKeepOthers SwitchKeepsSeen OkMeansDone RestartBrokenByPatchOnly RequestsEnd EnabledArePolled
CHECK_DEADLOCK FALSE
