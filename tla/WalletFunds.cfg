SPECIFICATION FairSpec
CONSTANTS
  AccountIds <- MCAccounts
  DefaultIds <- MCMainOnly
  Keys = {"k1", "k2"}
  Addresses <- MCAddresses
  EoaOf <- MCEoa
  DerivedOf <- MCDerived
  Spenders <- MCSpenders
  WithRelayer <- MCDashedOnly
  WithApiKey <- MCDashedOnly
  Deployed = {"p1", "p2"}
  Starts <- MCStarts
  Updates <- MCUpdates
  Faults = {"relayerDown", "deriveDown", "sdkDown", "setupDown", "rpcDown", "clobDown", "staleList", "geoDown", "reloadDown"}
  SecureWallet = None
  MaxEvents = 2
  Trades <- MCTrades
  Trade <- MCTrade
  Leaders = {"l1", "l2"}
  SyncWallet <- MCMainOnly
  MinOrder = 100
  InitTracked <- MCTracked
  Amounts = {100}
  None = None
INVARIANTS EachToItsWallet OrdersCovered
PROPERTIES SellsDroppedWhenShort BuysGetPlaced
CHECK_DEADLOCK FALSE
