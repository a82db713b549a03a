------------------------------ MODULE PaperRun ------------------------------
(***************************************************************************)
(* One Live-Paper run: the actor that PaperManager::start creates and      *)
(* run_loop drives (src/paper.rs), its resting orders in LivePaperExecution*)
(* (src/trading/simulation.rs) and its canonical rows in SQLite            *)
(* (src/storage/runs/write.rs).                                            *)
(*                                                                         *)
(* Every storage call is one transaction and one step here; it may succeed *)
(* or return an error, and the process may crash between any two of them.  *)
(* Memory is lost in a crash, rows are not.                                *)
(*                                                                         *)
(* Quantities are integers: an order is Qty units, and partial_fill_ratio  *)
(* makes one trade fill at most Part units of it.  A position is kept as   *)
(* the quantity each order contributed to it, so a snapshot row can be     *)
(* compared with the fills it accounts for.                                *)
(***************************************************************************)
EXTENDS Integers, FiniteSets

CONSTANTS
  NOrders,    \* orders the strategy's on_start emits, submitted in id order
  Qty,        \* quantity of each order
  Part,       \* largest quantity one trade fills: Qty * partial_fill_ratio
  Side,       \* order -> "buy" or "sell"
  Limit,      \* order -> its limit price
  Touch,      \* TRUE: LimitFillPolicy::Touch, FALSE: TradeThrough
  EligibleAt, \* submission time plus latency_ms, the same for all orders
  Trades      \* trades the exchange may report: [id, time, price]

Orders == 1..NOrders

ASSUME RunAssumption ==
  /\ NOrders \in Nat
  /\ Qty \in Nat \ {0}
  /\ Part \in 1..Qty
  /\ Side \in [Orders -> {"buy", "sell"}]
  /\ Limit \in [Orders -> Nat]
  /\ Touch \in BOOLEAN
  /\ EligibleAt \in Nat
  /\ Trades \subseteq [id : Nat \ {0}, time : Nat, price : Nat]

VARIABLES
  \* rows, which survive a crash
  runStatus,    \* trading_runs.status, "none" before the row exists
  orderStatus,  \* order -> status of its last trading_order_state_events row
  orderFilled,  \* order -> filled_quantity of that row
  fillRows,     \* order -> total quantity of its trading_fills rows
  positionRow,  \* what the last position snapshot row accounts for
  equityRow,    \* what the last equity snapshot row accounts for
  \* memory of the process
  pc,           \* where the actor is
  book,         \* ExecutionBook.pending: ids of the resting orders
  taken,        \* order -> PendingOrder.filled_quantity
  fills,        \* order -> quantity of the ExecutionFill still to persist
  portfolio,    \* order -> quantity applied to PortfolioState
  draining,     \* orders expire_all returned whose Expired row is to come
  lastTradeId,  \* LivePaperExecution.last_trade_id, 0 for None
  stop,         \* the stop watch channel holds true
  view          \* the published PaperSnapshot

rows == <<runStatus, orderStatus, orderFilled, fillRows, positionRow, equityRow>>
memory == <<book, taken, fills, portfolio, draining, lastTradeId, stop, view>>
vars == <<rows, pc, memory>>

-----------------------------------------------------------------------------
(* Types *)

Unfinished == {"created", "running"}
Terminal == {"stopped", "failed"}
OpenStatus == {"created", "accepted", "partially_filled"}
OrderStatus == {"absent", "intended", "filled", "expired"} \cup OpenStatus

\* The phases of PaperManager::start, of the run loop, and of its two exits.
Starting == {"subscribe", "run", "decide", "intent", "create", "accept", "register"}
Persisting == {"fill", "order_state", "position", "equity"}
Looping == {"select", "waiting", "publish"} \cup Persisting
Stopping == {"stop_expire", "stop_status", "stop_publish"}
Failing == {"fail", "fail_expire", "fail_status", "fail_publish"}
Phase == {"idle", "ended", "down"} \cup Starting \cup Looping \cup Stopping \cup Failing

Quantities == [Orders -> 0..Qty]
Nothing == [o \in Orders |-> 0]
NoView == [status |-> "none", open |-> {}, filled |-> Nothing]

TypeOK ==
  /\ runStatus \in {"none"} \cup Unfinished \cup Terminal
  /\ orderStatus \in [Orders -> OrderStatus]
  /\ orderFilled \in Quantities
  /\ fillRows \in Quantities
  /\ positionRow \in Quantities
  /\ equityRow \in Quantities
  /\ pc \in Phase
  /\ book \subseteq Orders
  /\ taken \in Quantities
  /\ fills \in Quantities
  /\ portfolio \in Quantities
  /\ draining \subseteq Orders
  /\ lastTradeId \in Nat
  /\ stop \in BOOLEAN
  /\ view \in [status : {"none", "running"} \cup Terminal,
               open : SUBSET Orders, filled : Quantities]

Init ==
  /\ runStatus = "none"
  /\ orderStatus = [o \in Orders |-> "absent"]
  /\ orderFilled = Nothing
  /\ fillRows = Nothing
  /\ positionRow = Nothing
  /\ equityRow = Nothing
  /\ pc = "idle"
  /\ book = {}
  /\ taken = Nothing
  /\ fills = Nothing
  /\ portfolio = Nothing
  /\ draining = {}
  /\ lastTradeId = 0
  /\ stop = FALSE
  /\ view = NoView

Goto(phase) == pc' = phase

\* The lowest id: vectors of orders and fills keep the submission order.
IsFirst(o, S) == o \in S /\ \A p \in S : o <= p

-----------------------------------------------------------------------------
(* PaperManager::start *)

\* create_trading_run.  Its transaction may fail; or commit and the read-back
\* of the new row fail, which leaves a run nobody drives.
CreateRun ==
  /\ pc = "idle"
  /\ \/ runStatus' = "created" /\ pc' \in {"subscribe", "ended"}
     \/ UNCHANGED runStatus /\ Goto("ended")
  /\ UNCHANGED <<orderStatus, orderFilled, fillRows, positionRow, equityRow, memory>>

\* subscribe_for_run, the one await between creating the run and driving it.
\* An error marks the run failed, ignoring the result; a request dropped by the
\* client while it waits here leaves the run created.
Subscribe ==
  /\ pc = "subscribe"
  /\ \/ Goto("run") /\ UNCHANGED runStatus
     \/ Goto("ended") /\ runStatus' = "failed"
     \/ Goto("ended") /\ UNCHANGED runStatus
  /\ UNCHANGED <<orderStatus, orderFilled, fillRows, positionRow, equityRow, memory>>

\* PaperRunCore::start persists Running, then calls the strategy's on_start,
\* which may refuse (a grid level at or below zero).
BeginRunning ==
  /\ pc = "run"
  /\ \/ runStatus' = "running" /\ pc' \in {"decide", "fail"}
     \/ UNCHANGED runStatus /\ Goto("fail")
  /\ UNCHANGED <<orderStatus, orderFilled, fillRows, positionRow, equityRow, memory>>

NextIntent == IF \E o \in Orders : orderStatus'[o] = "absent" THEN "intent" ELSE "register"

\* persist_strategy_output: the decision, then for each intent its row, the
\* order's row (state created), the Accepted state, and submit to the book.
RecordDecision ==
  /\ pc = "decide"
  /\ UNCHANGED <<rows, memory>>
  /\ pc' \in {NextIntent, "fail"}

RecordOrderIntent(o) ==
  /\ pc = "intent"
  /\ IsFirst(o, {p \in Orders : orderStatus[p] = "absent"})
  /\ \/ orderStatus' = [orderStatus EXCEPT ![o] = "intended"] /\ Goto("create")
     \/ UNCHANGED orderStatus /\ Goto("fail")
  /\ UNCHANGED <<runStatus, orderFilled, fillRows, positionRow, equityRow, memory>>

CreateTradingOrder(o) ==
  /\ pc = "create"
  /\ orderStatus[o] = "intended"
  /\ \/ orderStatus' = [orderStatus EXCEPT ![o] = "created"] /\ Goto("accept")
     \/ UNCHANGED orderStatus /\ Goto("fail")
  /\ UNCHANGED <<runStatus, orderFilled, fillRows, positionRow, equityRow, memory>>

AcceptAndSubmit(o) ==
  /\ pc = "accept"
  /\ orderStatus[o] = "created"
  /\ \/ /\ orderStatus' = [orderStatus EXCEPT ![o] = "accepted"]
        /\ book' = book \cup {o}
        /\ Goto(NextIntent)
     \/ UNCHANGED <<orderStatus, book>> /\ Goto("fail")
  /\ UNCHANGED <<runStatus, orderFilled, fillRows, positionRow, equityRow,
                 taken, fills, portfolio, draining, lastTradeId, stop, view>>

\* What update_snapshot shows: the book and the portfolio as they are.
Snapshot(status) == [status |-> status, open |-> book, filled |-> portfolio]

\* The handle enters the registry with the first snapshot; run_loop is spawned.
Register ==
  /\ pc = "register"
  /\ view' = Snapshot("running")
  /\ Goto("select")
  /\ UNCHANGED <<rows, book, taken, fills, portfolio, draining, lastTradeId, stop>>

-----------------------------------------------------------------------------
(* run_loop *)

\* PaperManager::stop sends on the watch channel of an active run.
RequestStop ==
  /\ view.status = "running"
  /\ stop' = TRUE
  /\ UNCHANGED <<rows, pc, book, taken, fills, portfolio, draining, lastTradeId, view>>

\* Defect: the select polls the feed whether or not stop is ready.
PollFeedFirst ==
  /\ pc = "select"
  /\ Goto("waiting")
  /\ UNCHANGED <<rows, memory>>

\* The biased select polls the stop channel first, and only then the feed.  A
\* stop sent between the two polls is not seen: the event in hand is handled.
PollFeed ==
  /\ pc = "select"
  /\ ~stop
  /\ Goto("waiting")
  /\ UNCHANGED <<rows, memory>>

\* Defect: the status row is written before the orders are expired.
PollStopStatusFirst ==
  /\ pc \in {"select", "waiting"}
  /\ stop
  /\ runStatus' = "stopped"
  /\ draining' = book
  /\ book' = {}
  /\ Goto("stop_expire")
  /\ UNCHANGED <<orderStatus, orderFilled, fillRows, positionRow, equityRow,
                 taken, fills, portfolio, lastTradeId, stop, view>>

\* The stop branch: PaperRunCore::stop begins by draining the book.
PollStop ==
  /\ pc \in {"select", "waiting"}
  /\ stop
  /\ draining' = book
  /\ book' = {}
  /\ Goto("stop_expire")
  /\ UNCHANGED <<rows, taken, fills, portfolio, lastTradeId, stop, view>>

LiveLimitIsFillable(o, price) ==
  CASE Side[o] = "buy" /\ Touch -> price <= Limit[o]
    [] Side[o] = "sell" /\ Touch -> price >= Limit[o]
    [] Side[o] = "buy" /\ ~Touch -> price < Limit[o]
    [] Side[o] = "sell" /\ ~Touch -> price > Limit[o]

FillableBy(t) ==
  {o \in book : EligibleAt <= t.time /\ LiveLimitIsFillable(o, t.price)}

\* Defect: a fill is not limited to what remains of the order.
ChunkOfOriginal(o) == Part

\* fill_order: a chunk of the original quantity, or what remains of it.
Chunk(o) == IF Part <= Qty - taken[o] THEN Part ELSE Qty - taken[o]

\* LivePaperExecution::process_trade changes the book for every order the trade
\* fills before PaperRunCore persists the first of those fills.
ProcessTrade(t) ==
  /\ pc = "waiting"
  /\ t.id > lastTradeId
  /\ lastTradeId' = t.id
  /\ fills' = [o \in Orders |-> IF o \in FillableBy(t) THEN Chunk(o) ELSE 0]
  /\ taken' = [o \in Orders |-> IF o \in FillableBy(t) THEN taken[o] + Chunk(o) ELSE taken[o]]
  /\ book' = {o \in book : taken'[o] < Qty}
  /\ Goto(IF FillableBy(t) = {} THEN "select" ELSE "fill")
  /\ UNCHANGED <<rows, portfolio, draining, stop, view>>

\* A trade id seen again changes nothing; one that moved backwards is an error.
RepeatedTrade(t) ==
  /\ pc = "waiting"
  /\ \/ t.id = lastTradeId /\ Goto("select")
     \/ t.id < lastTradeId /\ Goto("fail")
  /\ UNCHANGED <<rows, memory>>

\* The fills of one trade are persisted one after the other, in book order.
Unsaved == {o \in Orders : fills[o] > 0}
IsCurrent(o) == IsFirst(o, Unsaved)

\* Defect: all fill rows of a trade are written before any other row.
RecordAllFills(o) ==
  /\ pc = "fill"
  /\ IsCurrent(o)
  /\ \/ fillRows' = taken /\ Goto("order_state")
     \/ UNCHANGED fillRows /\ Goto("fail")
  /\ UNCHANGED <<runStatus, orderStatus, orderFilled, positionRow, equityRow, memory>>

RecordFill(o) ==
  /\ pc = "fill"
  /\ IsCurrent(o)
  /\ \/ fillRows' = [fillRows EXCEPT ![o] = @ + fills[o]] /\ Goto("order_state")
     \/ UNCHANGED fillRows /\ Goto("fail")
  /\ UNCHANGED <<runStatus, orderStatus, orderFilled, positionRow, equityRow, memory>>

\* Once the state row is in, the portfolio takes the fill.
RecordOrderState(o) ==
  /\ pc = "order_state"
  /\ IsCurrent(o)
  /\ \/ /\ orderStatus' = [orderStatus EXCEPT ![o] =
                             IF taken[o] = Qty THEN "filled" ELSE "partially_filled"]
        /\ orderFilled' = [orderFilled EXCEPT ![o] = taken[o]]
        /\ portfolio' = [portfolio EXCEPT ![o] = @ + fills[o]]
        /\ Goto("position")
     \/ UNCHANGED <<orderStatus, orderFilled, portfolio>> /\ Goto("fail")
  /\ UNCHANGED <<runStatus, fillRows, positionRow, equityRow,
                 book, taken, fills, draining, lastTradeId, stop, view>>

RecordPosition ==
  /\ pc = "position"
  /\ \/ positionRow' = portfolio /\ Goto("equity")
     \/ UNCHANGED positionRow /\ Goto("fail")
  /\ UNCHANGED <<runStatus, orderStatus, orderFilled, fillRows, equityRow, memory>>

\* Defect: the first fill of a trade ends the loop over its fills.
RecordEquityOnce(o) ==
  /\ pc = "equity"
  /\ IsCurrent(o)
  /\ \/ equityRow' = portfolio /\ fills' = Nothing /\ Goto("publish")
     \/ UNCHANGED <<equityRow, fills>> /\ Goto("fail")
  /\ UNCHANGED <<runStatus, orderStatus, orderFilled, fillRows, positionRow,
                 book, taken, portfolio, draining, lastTradeId, stop, view>>

\* Defect: a failed equity write is logged and the fill published all the same.
RecordEquityBestEffort(o) ==
  /\ pc = "equity"
  /\ IsCurrent(o)
  /\ equityRow' \in {portfolio, equityRow}
  /\ fills' = [fills EXCEPT ![o] = 0]
  /\ Goto(IF Unsaved = {o} THEN "publish" ELSE "fill")
  /\ UNCHANGED <<runStatus, orderStatus, orderFilled, fillRows, positionRow,
                 book, taken, portfolio, draining, lastTradeId, stop, view>>

RecordEquity(o) ==
  /\ pc = "equity"
  /\ IsCurrent(o)
  /\ \/ /\ equityRow' = portfolio
        /\ fills' = [fills EXCEPT ![o] = 0]
        /\ Goto(IF Unsaved = {o} THEN "publish" ELSE "fill")
     \/ UNCHANGED <<equityRow, fills>> /\ Goto("fail")
  /\ UNCHANGED <<runStatus, orderStatus, orderFilled, fillRows, positionRow,
                 book, taken, portfolio, draining, lastTradeId, stop, view>>

\* update_snapshot after a trade that filled something.
PublishFills ==
  /\ pc = "publish"
  /\ view' = Snapshot("running")
  /\ Goto("select")
  /\ UNCHANGED <<rows, book, taken, fills, portfolio, draining, lastTradeId, stop>>

\* A closed minute candle: skipped, or pushed into the replay bucket and shown; the
\* one that completes the bucket runs the strategy (the grid emits nothing) and
\* records an equity row.  A break of the chronology and a failed write end the run.
ProcessCandle ==
  /\ pc = "waiting"
  /\ view' \in {view, Snapshot("running")}
  /\ \/ UNCHANGED equityRow /\ pc' \in {"select", "fail"}
     \/ equityRow' = portfolio /\ Goto("select")
  /\ UNCHANGED <<runStatus, orderStatus, orderFilled, fillRows, positionRow,
                 book, taken, fills, portfolio, draining, lastTradeId, stop>>

\* A feed status other than reconnecting, or the ticker's look at the market.
Refresh ==
  /\ pc = "waiting"
  /\ view' = Snapshot("running")
  /\ Goto("select")
  /\ UNCHANGED <<rows, book, taken, fills, portfolio, draining, lastTradeId, stop>>

\* Reconnecting status, lag, gap, epoch change, or the ticker finding no feed.
FeedFails ==
  /\ pc = "waiting"
  /\ Goto("fail")
  /\ UNCHANGED <<rows, memory>>

-----------------------------------------------------------------------------
(* The two ways out of the loop *)

\* expire_pending: one Expired row per drained order, stopping at the first error.
\* The filled quantity it reports is the executor's.
Expire(o) ==
  /\ IsFirst(o, draining)
  /\ orderStatus' = [orderStatus EXCEPT ![o] = "expired"]
  /\ orderFilled' = [orderFilled EXCEPT ![o] = taken[o]]
  /\ draining' = draining \ {o}

\* Defect: stop ignores an order whose Expired row could not be written.
StopExpireBestEffort(o) ==
  /\ pc = "stop_expire"
  /\ IsFirst(o, draining)
  /\ \/ Expire(o)
     \/ UNCHANGED <<orderStatus, orderFilled>> /\ draining' = draining \ {o}
  /\ UNCHANGED <<pc, runStatus, fillRows, positionRow, equityRow,
                 book, taken, fills, portfolio, lastTradeId, stop, view>>

StopExpire(o) ==
  /\ pc = "stop_expire"
  /\ o \in draining
  /\ \/ Expire(o) /\ UNCHANGED pc
     \/ UNCHANGED <<orderStatus, orderFilled, draining>> /\ Goto("fail")
  /\ UNCHANGED <<runStatus, fillRows, positionRow, equityRow,
                 book, taken, fills, portfolio, lastTradeId, stop, view>>

StopExpired ==
  /\ pc = "stop_expire"
  /\ draining = {}
  /\ Goto("stop_status")
  /\ UNCHANGED <<rows, memory>>

\* An error of stop is followed by finish_failed.
StopStatus ==
  /\ pc = "stop_status"
  /\ \/ runStatus' = "stopped" /\ Goto("stop_publish")
     \/ UNCHANGED runStatus /\ Goto("fail")
  /\ UNCHANGED <<orderStatus, orderFilled, fillRows, positionRow, equityRow, memory>>

StopPublish ==
  /\ pc = "stop_publish"
  /\ view' = Snapshot("stopped")
  /\ Goto("ended")
  /\ UNCHANGED <<rows, book, taken, fills, portfolio, draining, lastTradeId, stop>>

\* PaperRunCore::fail drains whatever is still in the book.
FailDrain ==
  /\ pc = "fail"
  /\ draining' = book
  /\ book' = {}
  /\ Goto("fail_expire")
  /\ UNCHANGED <<rows, taken, fills, portfolio, lastTradeId, stop, view>>

\* Its callers ignore the error that ends it early.
FailExpire(o) ==
  /\ pc = "fail_expire"
  /\ o \in draining
  /\ \/ Expire(o) /\ UNCHANGED pc
     \/ UNCHANGED <<orderStatus, orderFilled, draining>> /\ Goto("fail_publish")
  /\ UNCHANGED <<runStatus, fillRows, positionRow, equityRow,
                 book, taken, fills, portfolio, lastTradeId, stop, view>>

FailExpired ==
  /\ pc = "fail_expire"
  /\ draining = {}
  /\ Goto("fail_status")
  /\ UNCHANGED <<rows, memory>>

FailStatus ==
  /\ pc = "fail_status"
  /\ runStatus' \in {"failed", runStatus}
  /\ Goto("fail_publish")
  /\ UNCHANGED <<orderStatus, orderFilled, fillRows, positionRow, equityRow, memory>>

\* finish_failed publishes failed whatever became of the rows, with the portfolio
\* as the failed step left it; a run that failed inside start has no handle.
FailPublish ==
  /\ pc = "fail_publish"
  /\ view' = IF view.status = "none" THEN view ELSE Snapshot("failed")
  /\ Goto("ended")
  /\ UNCHANGED <<rows, book, taken, fills, portfolio, draining, lastTradeId, stop>>

-----------------------------------------------------------------------------
(* The process *)

Crash ==
  /\ pc \notin {"idle", "down"}
  /\ Goto("down")
  /\ book' = {} /\ draining' = {}
  /\ taken' = Nothing /\ fills' = Nothing /\ portfolio' = Nothing
  /\ lastTradeId' = 0 /\ stop' = FALSE /\ view' = NoView
  /\ UNCHANGED rows

\* Defect: only runs that reached running are looked for at startup.
RestartRunningOnly ==
  /\ pc = "down"
  /\ runStatus' = IF runStatus = "running" THEN "failed" ELSE runStatus
  /\ Goto("ended")
  /\ UNCHANGED <<orderStatus, orderFilled, fillRows, positionRow, equityRow, memory>>

\* Defect: startup fails every run, terminal or not.
RestartEveryRun ==
  /\ pc = "down"
  /\ runStatus' = IF runStatus = "none" THEN "none" ELSE "failed"
  /\ Goto("ended")
  /\ UNCHANGED <<orderStatus, orderFilled, fillRows, positionRow, equityRow, memory>>

\* PaperManager::new: terminate_interrupted_paper_runs.  If its write fails the
\* service does not come up.
Restart ==
  /\ pc = "down"
  /\ runStatus' = IF runStatus \in Unfinished THEN "failed" ELSE runStatus
  /\ Goto("ended")
  /\ UNCHANGED <<orderStatus, orderFilled, fillRows, positionRow, equityRow, memory>>

-----------------------------------------------------------------------------
StartStep ==
  \/ Subscribe \/ BeginRunning \/ RecordDecision \/ Register
  \/ \E o \in Orders : RecordOrderIntent(o) \/ CreateTradingOrder(o) \/ AcceptAndSubmit(o)

MarketStep ==
  \/ \E t \in Trades : ProcessTrade(t) \/ RepeatedTrade(t)
  \/ ProcessCandle \/ Refresh \/ FeedFails

LoopStep ==
  \/ PollFeed \/ PollStop \/ RecordPosition \/ PublishFills
  \/ \E o \in Orders : RecordFill(o) \/ RecordOrderState(o) \/ RecordEquity(o)

ExitStep ==
  \/ StopExpired \/ StopStatus \/ StopPublish
  \/ FailDrain \/ FailExpired \/ FailStatus \/ FailPublish
  \/ \E o \in Orders : StopExpire(o) \/ FailExpire(o)

Next == CreateRun \/ StartStep \/ MarketStep \/ LoopStep \/ ExitStep \/ RequestStop \/ Crash \/ Restart

Spec == Init /\ [][Next]_vars

\* The executor keeps polling the run's task, so whatever it can do next it does;
\* the host restarts the service.  Nothing obliges a user to start or stop a run,
\* the market to send an event or the process to crash.
FairSpec ==
  /\ Spec
  /\ WF_vars(StartStep) /\ WF_vars(LoopStep) /\ WF_vars(ExitStep) /\ WF_vars(Restart)

-----------------------------------------------------------------------------
(* Properties *)

\* Between two market events the executor, the portfolio and every kind of row
\* agree on what each order filled, and the book holds exactly the orders whose
\* rows are open: the serialized chronology of run_loop.
LoopIsAudited ==
  pc \in {"select", "waiting"} =>
    /\ taken = fillRows /\ orderFilled = fillRows
    /\ portfolio = fillRows /\ positionRow = fillRows /\ equityRow = fillRows
    /\ book = {o \in Orders : orderStatus[o] \in OpenStatus}

\* Whatever failed or crashed, the rows of at most one order are behind its
\* fills, by one fill at most: the group process_trade was writing.
OneGroupShort ==
  /\ \A o \in Orders :
       /\ equityRow[o] <= positionRow[o]
       /\ positionRow[o] <= fillRows[o]
       /\ fillRows[o] <= equityRow[o] + Part
  /\ \A o, p \in Orders :
       equityRow[o] # fillRows[o] /\ equityRow[p] # fillRows[p] => o = p

\* A run recorded stopped has settled: every order is filled or expired, filled
\* exactly when its fills add up, and each row accounts for all of them.
StoppedIsSettled ==
  runStatus = "stopped" =>
    \A o \in Orders :
      /\ orderStatus[o] \in {"filled", "expired"}
      /\ orderStatus[o] = "filled" <=> fillRows[o] = Qty
      /\ orderFilled[o] = fillRows[o] /\ equityRow[o] = fillRows[o]

\* The snapshot is never ahead of the rows: what it shows of a live or stopped run
\* is in the last equity row, what it shows of a failed run is at least recorded
\* fills; and it says stopped only of a run whose row says so.
PublishedIsPersisted ==
  /\ \A o \in Orders :
       /\ view.filled[o] <= fillRows[o]
       /\ view.status # "failed" => view.filled[o] <= equityRow[o]
  /\ view.status = "stopped" => runStatus = "stopped"

\* A terminal status is the last thing written about a run: no late trade,
\* retried exit or restart appends to it or changes it.
TerminalIsFrozen == [][(runStatus \in Terminal) => (rows' = rows)]_vars

\* A stop sent to a live run ends its actor, though events keep arriving and
\* storage calls keep failing.
StopEndsRun == stop ~> pc \in {"ended", "down"}

\* Whatever start, exit or crash left unfinished, the next service start fails.
RestartFinishesRun == pc = "down" ~> runStatus \notin Unfinished

\* What the record shows of an order: an intent alone is not an order yet.
LedgerOrder(status) ==
  CASE status \in {"absent", "intended"} -> "absent"
    [] status \in OpenStatus -> "open"
    [] OTHER -> "closed"

\* The run writes the canonical record that RunLedger promises.
Ledger == INSTANCE RunLedger WITH
  status <- runStatus,
  order <- [o \in Orders |-> LedgerOrder(orderStatus[o])],
  filled <- fillRows
KeepsLedger == Ledger!LedgerSpec

\* Documents/ARCHITECTURE.md: "A stopped or failed Run expires pending simulated
\* orders and rejects later trade processing."
EndedRunHasNoOpenOrder ==
  runStatus \in Terminal => \A o \in Orders : orderStatus[o] \notin OpenStatus

\* Documents/ARCHITECTURE.md: "For each simulated fill the actor persists canonical
\* effects in this order: Fill, OrderState, ...": no state row reports a quantity
\* whose fill is not recorded.
OrderStateFollowsFill == \A o \in Orders : orderFilled[o] <= fillRows[o]
=============================================================================
