----------------------------- MODULE MCPaperRun -----------------------------
(***************************************************************************)
(* The first three orders of a grid around 2.5: a buy at 2, a sell at 3    *)
(* and a buy at 1, three units each, filled two units at a time.  Trades   *)
(* carry ids up to MaxTradeId in any order, are stamped before or after    *)
(* the orders are eligible, and cross none, one or both of the buys or the *)
(* sell: one trade can leave two orders in part, the next fill both.       *)
(***************************************************************************)
EXTENDS PaperRun

CONSTANT MaxTradeId

MCSide == [o \in Orders |-> IF o % 2 = 1 THEN "buy" ELSE "sell"]
MCLimit == [o \in Orders |-> CASE o = 1 -> 2 [] o = 2 -> 3 [] OTHER -> 1]
MCTrades == [id : 1..MaxTradeId, time : {0, 1}, price : 1..3]
=============================================================================
