SPECIFICATION Spec
CONSTANTS
  Base = 2
  Interval = 4
  Whole = 10
  Configs <- MCConfigs
  InitialCash = 100
  Part = 2
  FeeRate = 1
  TradePrices = {9, 12}
  PriceOf <- MCPriceOf
  FirstClock = 4
  MaxClock = 6
  LastMinute = 10
  AuthEnabled = TRUE
  Capacity = 1
  SocketBuffer = 1
  MaxSockets = 2
  MaxRevision = 3
  MaxFaults = 1
  MaxClicks = 2
  AuditLimit = 2
  ActivityLimit = 2
  MaxRows = 5
INVARIANTS
  TypeOK
  BooksBalance
  StrategySeesWholeBuckets
  PagesAreWhole
PROPERTIES
  ViewGoesForward
  ViewConverges
CHECK_DEADLOCK FALSE
