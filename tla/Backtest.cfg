SPECIFICATION Spec
CONSTANTS
  NSlots = 5
  Span = 2
  NOrders = 2
  Qty = 3
  Part = 2
  Market <- MCMarket
  Latency = 1
  Batch = 2
INVARIANTS
  TypeOK
  EquityInPlace
  NoLookAhead
  StrategySeesRecord
  CompletedIsWhole
  FailureKeepsEquity
PROPERTIES
  KeepsLedger
CHECK_DEADLOCK FALSE
