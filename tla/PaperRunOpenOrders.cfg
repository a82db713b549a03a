SPECIFICATION FairSpec
CONSTANTS
  NOrders = 3
  Qty = 3
  Part = 2
  Side <- MCSide
  Limit <- MCLimit
  Touch = TRUE
  EligibleAt = 1
  MaxTradeId = 4
  Trades <- MCTrades
INVARIANT
  EndedRunHasNoOpenOrder
