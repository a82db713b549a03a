---------------------------- MODULE RunQueries ----------------------------
(***************************************************************************)
(* What storage answers about one run (src/storage/runs/read.rs), and what *)
(* the manager and the console make of it (src/paper.rs,                   *)
(* src/api/trading.rs).                                                    *)
(*                                                                         *)
(* The rows of a run are its trading_run_events in run_sequence order, each*)
(* joined with the row of its own table: [kind, ...].  Every query reads   *)
(* them in that order, so a query is an operator on the sequence.          *)
(***************************************************************************)
EXTENDS Integers, Sequences, SequencesExt

NoRow == [kind |-> "none"]

\* Rows of the tables joined with trading_run_events.
StatusRow(status) == [kind |-> "run_status", status |-> status]
DecisionRow == [kind |-> "decision"]
IntentRow(intent) == [kind |-> "order_intent", intent |-> intent]
OrderRow(order, intent) ==
  [kind |-> "order_state", order |-> order, status |-> "created", filled |-> 0, intent |-> intent]
OrderStateRow(order, status, filled) ==
  [kind |-> "order_state", order |-> order, status |-> status, filled |-> filled]
FillRow(order, side, price, quantity, fee) ==
  [kind |-> "fill", order |-> order, side |-> side, price |-> price,
   quantity |-> quantity, fee |-> fee]
PositionRow(view, mark) == [kind |-> "position", view |-> view, mark |-> mark]
EquityRow(view) == [kind |-> "equity", view |-> view]

\* The rows of a query's WHERE, in their order: the members of the sequence that are in wanted.
Selected(seq, wanted) ==
  LET found[i \in 0..Len(seq)] ==
        IF i = 0 THEN <<>>
        ELSE IF seq[i] \in wanted THEN Append(found[i - 1], seq[i]) ELSE found[i - 1]
  IN found[Len(seq)]

OfKind(rows, kind) == Selected(rows, {row \in Range(rows) : row.kind = kind})
LastOf(selected) == IF selected = <<>> THEN NoRow ELSE Last(selected)

\* trading_runs.status: set_trading_run_status writes it with its event.
RunStatusOf(rows) == LastOf(OfKind(rows, "run_status")).status

\* trading_run_history
Orders(rows) == Selected(rows, {row \in Range(rows) : row.kind = "order_state" /\ row.status = "created"})
TradingRunHistory(rows) ==
  [events |-> rows,
   status_events |-> OfKind(rows, "run_status"),
   decisions |-> OfKind(rows, "decision"),
   order_intents |-> OfKind(rows, "order_intent"),
   orders |-> Orders(rows),
   order_states |-> OfKind(rows, "order_state"),
   fills |-> OfKind(rows, "fill"),
   positions |-> OfKind(rows, "position"),
   equity |-> OfKind(rows, "equity")]

\* trading_run_counts
TradingRunCounts(rows) ==
  LET history == TradingRunHistory(rows)
  IN [decisions |-> Len(history.decisions), order_intents |-> Len(history.order_intents),
      orders |-> Len(history.orders), fills |-> Len(history.fills),
      positions |-> Len(history.positions), equity_snapshots |-> Len(history.equity)]

\* trading_run_fill_audit
FillAudit(rows) == OfKind(rows, "fill")

\* trading_run_latest_position
LatestPosition(rows) == LastOf(OfKind(rows, "position"))

\* trading_run_position_points, trading_run_equity_points
PositionPoints(rows) ==
  LET positions == OfKind(rows, "position")
  IN [i \in DOMAIN positions |-> positions[i].view.quantity]
EquityPoints(rows) ==
  LET equity == OfKind(rows, "equity") IN [i \in DOMAIN equity |-> equity[i].view.equity]

\* trading_run_order_levels: every order with its last status, and whether a terminal
\* state has closed it.
TerminalStates == {"filled", "cancelled", "rejected", "expired"}
StatesOf(rows, order) ==
  Selected(rows, {row \in Range(rows) : row.kind = "order_state" /\ row.order = order})
OrderLevels(rows) ==
  LET Level(created, states) ==
        [order |-> created.order, side |-> created.intent.side, price |-> created.intent.price,
         quantity |-> created.intent.quantity,
         closed |-> \E i \in DOMAIN states : states[i].status \in TerminalStates,
         final_status |-> Last(states).status]
  IN [i \in DOMAIN Orders(rows) |-> Level(Orders(rows)[i], StatesOf(rows, Orders(rows)[i].order))]

\* trading_run_equity_stats: the last equity row, and the deepest fall from a peak before
\* it, in thousandths.
EquityStats(rows) ==
  LET equity == OfKind(rows, "equity")
      Peak(i) == Max({equity[j].view.equity : j \in 1..i})
      falls == {(equity[i].view.equity * 1000) \div Peak(i) - 1000 :
                  i \in {j \in DOMAIN equity : Peak(j) > 0}}
  IN [count |-> Len(equity), final |-> LastOf(equity), drawdown |-> Min(falls \cup {0})]

\* PaperManager::persisted_snapshot: the account of a run with no runtime.  Money is that
\* of the last equity row and the position that of the last position row.
PersistedSnapshot(rows, initialCash) ==
  LET stats == EquityStats(rows)
      position == LatestPosition(rows)
      money == IF stats.final = NoRow
               THEN [cash |-> initialCash, quantity |-> 0, cost |-> 0, realized |-> 0,
                     unrealized |-> 0, fees |-> 0, equity |-> initialCash]
               ELSE stats.final.view
      held == IF position = NoRow THEN [quantity |-> 0, cost |-> 0] ELSE position.view
  IN [stream_revision |-> 0, runtime_active |-> FALSE, status |-> RunStatusOf(rows),
      open_orders |-> <<>>,
      portfolio |-> [money EXCEPT !.quantity = held.quantity, !.cost = held.cost]]

\* One row of trading_bot_run_summaries: each figure is a query of its own.
BotRunSummary(rows) ==
  LET equity == LastOf(OfKind(rows, "equity"))
      position == LatestPosition(rows)
  IN [status |-> RunStatusOf(rows),
      fill_count |-> Len(FillAudit(rows)),
      ending_position |-> IF position = NoRow THEN NoRow ELSE position.view.quantity,
      fees_paid |-> IF equity = NoRow THEN NoRow ELSE equity.view.fees,
      realized_pnl |-> IF equity # NoRow THEN equity.view.realized
                       ELSE IF position # NoRow THEN position.view.realized ELSE NoRow,
      latest_equity |-> IF equity = NoRow THEN NoRow ELSE equity.view.equity]

\* PaperManager::bot_history and console_bot_summary: the runtime's status, when there is
\* a runtime, replaces the row's.
ActiveStatuses == {"arming", "running"}
ConsoleBotSummary(rows, runtimeStatus) ==
  LET summary == BotRunSummary(rows)
      status == IF runtimeStatus = "none" THEN summary.status ELSE runtimeStatus
  IN [runtime_state |-> IF status \in ActiveStatuses THEN "running" ELSE "idle",
      latest_run_status |-> status,
      position_quantity |-> summary.ending_position,
      realized_pnl |-> summary.realized_pnl,
      fees_paid |-> summary.fees_paid,
      latest_equity |-> summary.latest_equity,
      fill_count |-> summary.fill_count]

\* PaperManager::chart_snapshot: the levels and fills drawn over the candles, which are
\* shown only while the run is active.
ChartSnapshot(rows, active, candles) ==
  [runtime_active |-> active, candles |-> IF active THEN candles ELSE {},
   order_levels |-> OrderLevels(rows), fills |-> FillAudit(rows)]
=============================================================================
