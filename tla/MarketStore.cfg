SPECIFICATION Spec
CONSTANTS
  MonthLength = 2
  FirstToday = 5
  MaxToday = 6
  Starts = {1, 2}
  MaxOrphans = 2
  MaxRuns = 2
  market = market
  public = public
  Streams = {market, public}
  KindOf <- MCKindOf
  TradeOf <- MCTradeOf
  QueueCapacity = 2
INVARIANTS
  TypeOK
  DownloadIsWhole
  CaptureIsWhole
PROPERTIES
  StoreSettles
CHECK_DEADLOCK FALSE
