------------------------------ MODULE Backtest ------------------------------
(***************************************************************************)
(* One historical replay: BacktestEngine::run_with_progress                *)
(* (src/backtest.rs) over HistoricalExecution (src/trading/simulation.rs)  *)
(* and the canonical rows (src/storage/runs/write.rs).                     *)
(*                                                                         *)
(* The replay is sequential; what can go wrong is order and failure.  Each *)
(* storage call is one transaction and one step, which may return an error,*)
(* and the process may end between any two.  Equity rows are buffered and  *)
(* written in batches, so the record is written in another order than the  *)
(* replay produces it.                                                     *)
(*                                                                         *)
(* A stored candle is a slot: slot s opens at 2s and closes at 2s + 1, one *)
(* unit before slot s + 1 opens.  A replay candle is a bucket of Span slots*)
(* of which some may not be stored.  Prices are left out: which resting    *)
(* limit orders a candle's range reaches is any subset of them.            *)
(***************************************************************************)
EXTENDS Integers, Sequences, FiniteSetsExt

CONSTANTS
  NSlots,   \* stored candles of the dataset lie in slots 0..NSlots-1
  Span,     \* slots per replay candle
  NOrders,  \* most orders the strategy emits
  Qty,      \* quantity of each order
  Part,     \* Qty * partial_fill_ratio
  Market,   \* the orders that are market orders; the others are limit orders
  Latency,  \* latency_ms
  Batch     \* EQUITY_BATCH_SIZE

Slots == 0..(NSlots - 1)
Orders == 1..NOrders

ASSUME BacktestAssumption ==
  /\ NSlots \in Nat
  /\ Span \in Nat \ {0}
  /\ NOrders \in Nat
  /\ Qty \in Nat \ {0}
  /\ Part \in 1..Qty
  /\ Market \subseteq Orders
  /\ Latency \in Nat
  /\ Batch \in Nat \ {0}

VARIABLES
  \* rows
  status,     \* trading_runs.status, "none" before the row exists
  log,        \* the run's events in run_sequence order, without its statuses
  \* memory of the worker
  pc,         \* where run_with_progress is
  candles,    \* PreparedReplay.candles
  previous,   \* PreparedReplay.previous_candle
  k,          \* index of the candle being replayed, 0 during on_start
  todo,       \* rows of the current fills, output or expiry still to write
  book,       \* ExecutionBook.pending: ids of the resting orders
  eligible,   \* order -> PendingOrder.eligible_from_ms
  taken,      \* order -> PendingOrder.filled_quantity
  portfolio,  \* order -> quantity applied to PortfolioState
  buffer,     \* equity_buffer
  error       \* the BacktestError that will be the note of the failed status

replay == <<candles, previous>>
orders == <<book, eligible, taken>>
vars == <<status, log, pc, replay, k, todo, orders, portfolio, buffer, error>>

-----------------------------------------------------------------------------
(* Types *)

Times == 0..(2 * NSlots)
NoCandle == [open |-> -1, close |-> -1]
Candles == [open : Times, close : Times]
Kinds == {"decision", "intent", "order", "accepted", "fill", "state", "position",
          "expired", "equity"}
Rows == [kind : Kinds, order : 0..NOrders, time : Times, candle : 0..(NSlots + 1),
         n : 0..Qty]
Nothing == [o \in Orders |-> 0]

TypeOK ==
  /\ status \in {"none", "created", "running", "completed", "failed"}
  /\ log \in Seq(Rows)
  /\ pc \in {"idle", "create", "begin", "start", "candle", "fills", "strategy",
             "output", "equity", "expire", "failing", "ended"}
  /\ candles \in Seq(Candles)
  /\ previous \in Candles \cup {NoCandle}
  /\ k \in 0..(Len(candles) + 1)
  /\ todo \in Seq(Rows)
  /\ book \subseteq Orders
  /\ eligible \in [Orders -> Nat]
  /\ taken \in [Orders -> 0..Qty]
  /\ portfolio \in [Orders -> 0..Qty]
  /\ buffer \in Seq(Rows) /\ Len(buffer) <= Batch
  /\ error \in {"none", "storage", "simulation", "strategy"}

Init ==
  /\ status = "none"
  /\ log = <<>>
  /\ pc = "idle"
  /\ candles = <<>>
  /\ previous = NoCandle
  /\ k = 0
  /\ todo = <<>>
  /\ book = {}
  /\ eligible = Nothing
  /\ taken = Nothing
  /\ portfolio = Nothing
  /\ buffer = <<>>
  /\ error = "none"

-----------------------------------------------------------------------------
(* prepare_replay *)

\* ohlcv_series_between: from one replay interval before the requested start.
Loaded(dataset, start, end) ==
  {s \in dataset : 2 * s >= start - 2 * Span /\ 2 * s + 1 <= end}

\* The members of a set of numbers, in ascending order.
Ascending(S) ==
  CHOOSE s \in [1..Cardinality(S) -> S] :
    /\ \A x \in S : \E i \in 1..Cardinality(S) : s[i] = x
    /\ \A i, j \in 1..Cardinality(S) : i < j => s[i] < s[j]

\* A bucket opens at its boundary, stored or not, and closes with the last slot
\* it was given.
Bucket(loaded, b) ==
  [open |-> 2 * Span * b, close |-> 2 * Max({s \in loaded : s \div Span = b}) + 1]

AggregateCandles(loaded) ==
  LET buckets == Ascending({s \div Span : s \in loaded})
  IN [i \in DOMAIN buckets |-> Bucket(loaded, buckets[i])]

\* active_index: the first candle that opens at or after the requested start.
ActiveIndex(series, start) ==
  LET atOrAfter == {i \in DOMAIN series : series[i].open >= start}
  IN IF atOrAfter = {} THEN Len(series) + 1 ELSE Min(atOrAfter)

\* The candle before the active ones is the previous candle; without one, a strategy
\* that needs it gets the first active one.
Split(series, start, needsPrevious) ==
  LET first == ActiveIndex(series, start)
  IN CASE first > 1 ->
            [previous |-> series[first - 1], candles |-> SubSeq(series, first, Len(series))]
       [] first = 1 /\ needsPrevious /\ series # <<>> ->
            [previous |-> Head(series), candles |-> Tail(series)]
       [] OTHER -> [previous |-> NoCandle, candles |-> series]

\* A missing start is 0, a missing end the latest time.  A configuration that is
\* invalid, or leaves nothing to replay, is refused before a run exists.
PrepareReplay ==
  /\ pc = "idle"
  /\ \E dataset \in SUBSET Slots, start, end \in Times, needsPrevious \in BOOLEAN :
       LET prepared == Split(AggregateCandles(Loaded(dataset, start, end)), start, needsPrevious)
       IN IF prepared.candles = <<>>
          THEN pc' = "ended" /\ UNCHANGED replay
          ELSE /\ pc' = "create"
               /\ candles' = prepared.candles
               /\ previous' = prepared.previous
  /\ UNCHANGED <<status, log, k, todo, orders, portfolio, buffer, error>>

-----------------------------------------------------------------------------
(* The run row *)

\* create_trading_run; reading the committed row back may fail as well.
CreateRun ==
  /\ pc = "create"
  /\ \/ status' = "created" /\ pc' \in {"begin", "ended"}
     \/ UNCHANGED status /\ pc' = "ended"
  /\ UNCHANGED <<log, replay, k, todo, orders, portfolio, buffer, error>>

\* Defect: a replay goes on when the running status could not be written.
BeginRunIgnored ==
  /\ pc = "begin"
  /\ pc' = "start"
  /\ status' \in {"created", "running"}
  /\ UNCHANGED <<log, replay, k, todo, orders, portfolio, buffer, error>>

\* A storage error here is returned at once and leaves the run created.
BeginRun ==
  /\ pc = "begin"
  /\ \/ status' = "running" /\ pc' = "start"
     \/ UNCHANGED status /\ pc' = "ended"
  /\ UNCHANGED <<log, replay, k, todo, orders, portfolio, buffer, error>>

-----------------------------------------------------------------------------
(* Rows and the equity buffer *)

Row(kind, o, time, n) ==
  [kind |-> kind, order |-> o, time |-> time, candle |-> k, n |-> n]

\* `?`: the error ends execute, whatever is buffered is dropped with it.
Return(e) == pc' = "failing" /\ error' = e

\* flush_equity_buffer, one transaction for the whole buffer, then continue in phase.
FlushThen(phase) ==
  /\ log' = log \o buffer
  /\ buffer' = <<>>
  /\ pc' = phase
  /\ UNCHANGED error

FlushFails ==
  /\ buffer # <<>>
  /\ Return("storage")
  /\ UNCHANGED <<log, buffer, todo>>

\* The error is returned once the buffer is saved.
FlushAndReturn(e) ==
  \/ log' = log \o buffer /\ buffer' = <<>> /\ Return(e) /\ UNCHANGED todo
  \/ FlushFails

-----------------------------------------------------------------------------
(* on_start and on_candle, persist_strategy_output *)

Placed == {o \in Orders : \E i \in DOMAIN log : log[i].kind = "intent" /\ log[i].order = o}

OutputTime == IF k = 0 THEN candles[1].open ELSE candles[k].close

\* Rows come in threes: the j-th is row 1, 2 or 3 of the Third(j)-th order.
Third(j) == (j + 2) \div 3
RowOfThird(j) == j - 3 * (Third(j) - 1)

\* Intent, order and accepted rows of each of the next orders.
OrderRows(emitted) ==
  [j \in 1..(3 * emitted) |->
     Row(<<"intent", "order", "accepted">>[RowOfThird(j)],
         Cardinality(Placed) + Third(j), OutputTime, 0)]

\* A decision or none, then the orders.
OutputRows(decides, emitted) ==
  (IF decides THEN <<Row("decision", 0, OutputTime, 0)>> ELSE <<>>) \o OrderRows(emitted)

Outputs == {OutputRows(decides, emitted) :
              decides \in BOOLEAN, emitted \in 0..(NOrders - Cardinality(Placed))}

OnStart ==
  /\ pc = "start"
  /\ \/ \E output \in Outputs :
          /\ todo' = output
          /\ pc' = IF output = <<>> THEN "candle" ELSE "output"
          /\ k' = IF output = <<>> THEN 1 ELSE 0
          /\ UNCHANGED error
     \/ Return("strategy") /\ UNCHANGED <<todo, k>>
  /\ UNCHANGED <<status, log, replay, orders, portfolio, buffer>>

OnCandle ==
  /\ pc = "strategy"
  /\ \E output \in Outputs :
       IF output = <<>>
       THEN pc' = "equity" /\ UNCHANGED <<log, buffer, todo, error>>
       ELSE \/ FlushThen("output") /\ todo' = output
            \/ FlushFails
  /\ UNCHANGED <<status, replay, k, orders, portfolio>>

\* Defect: the error is returned before the buffer is saved.
StrategyFailsUnflushed ==
  /\ pc = "strategy"
  /\ Return("strategy")
  /\ UNCHANGED <<status, log, replay, k, todo, orders, portfolio, buffer>>

StrategyFails ==
  /\ pc = "strategy"
  /\ FlushAndReturn("strategy")
  /\ UNCHANGED <<status, replay, k, orders, portfolio>>

\* A close that cannot be marked, or an equity that is not a number, is an error that
\* does not save the buffer.
MarkFails ==
  /\ pc \in {"strategy", "equity"}
  /\ Return("simulation")
  /\ UNCHANGED <<status, log, replay, k, todo, orders, portfolio, buffer>>

-----------------------------------------------------------------------------
(* HistoricalExecution::process_candle *)

\* Defect: the latency may end while the candle is under way.
EligibleLate == {o \in book : eligible[o] <= candles[k].close}

\* The candle began no earlier than the order was eligible.
Eligible == {o \in book : eligible[o] <= candles[k].open}

\* Defect: a fill is not limited to what remains of the order.
ChunkUncapped(o) == Part

Chunk(o) == Min({Part, Qty - taken[o]})

\* A market order fills at the open, a limit order somewhere before the close.
FillTime(o) == IF o \in Market THEN candles[k].open ELSE candles[k].close

\* Fill, order state and position row of each filled order, in submission order.  The
\* position is the portfolio's when the row is written.
FillRows(filled) ==
  [j \in 1..(3 * Cardinality(filled)) |->
     LET o == Ascending(filled)[Third(j)]
     IN Row(<<"fill", "state", "position">>[RowOfThird(j)], o, FillTime(o),
            <<Chunk(o), taken[o] + Chunk(o), 0>>[RowOfThird(j)])]

Filled(touched) == touched \cup (Eligible \cap Market)

\* Defect: fills are written before the equity of earlier candles.
TakeCandleUnflushed ==
  /\ pc = "candle" /\ k <= Len(candles)
  /\ \E touched \in SUBSET (Eligible \ Market) :
       /\ taken' = [o \in Orders |-> taken[o] + (IF o \in Filled(touched) THEN Chunk(o) ELSE 0)]
       /\ book' = {o \in book : taken'[o] < Qty}
       /\ todo' = FillRows(Filled(touched))
       /\ pc' = IF Filled(touched) = {} THEN "strategy" ELSE "fills"
  /\ UNCHANGED <<status, log, replay, k, eligible, portfolio, buffer, error>>

\* The book changes for all fills of the candle before any of their rows is written;
\* the equity of earlier candles is saved in between.
TakeCandle ==
  /\ pc = "candle" /\ k <= Len(candles)
  /\ \E touched \in SUBSET (Eligible \ Market) :
       /\ taken' = [o \in Orders |-> taken[o] + (IF o \in Filled(touched) THEN Chunk(o) ELSE 0)]
       /\ book' = {o \in book : taken'[o] < Qty}
       /\ IF Filled(touched) = {}
          THEN pc' = "strategy" /\ UNCHANGED <<log, buffer, todo, error>>
          ELSE \/ FlushThen("fills") /\ todo' = FillRows(Filled(touched))
               \/ FlushFails
  /\ UNCHANGED <<status, replay, k, eligible, portfolio>>

\* A market order meets an open that is no price.  What the book did until then is
\* never read again.
MatchFails ==
  /\ pc = "candle" /\ k <= Len(candles)
  /\ Eligible \cap Market # {}
  /\ FlushAndReturn("simulation")
  /\ UNCHANGED <<status, replay, k, orders, portfolio>>

-----------------------------------------------------------------------------
(* Writing the rows, one at a time *)

AfterLast ==
  IF Len(todo) > 1 THEN pc
  ELSE CASE pc = "fills" -> "strategy"
         [] pc = "output" /\ k = 0 -> "candle"
         [] OTHER -> "equity"

\* The next row is written, and the replay goes on after the last.
WriteNext(row) ==
  /\ log' = Append(log, row)
  /\ todo' = Tail(todo)
  /\ pc' = AfterLast
  /\ k' = IF AfterLast = "candle" THEN 1 ELSE k
  /\ UNCHANGED error

\* Defect: the portfolio does not take the fill.
RecordFillUnapplied ==
  /\ pc = "fills" /\ Head(todo).kind = "fill"
  /\ WriteNext(Head(todo))
  /\ UNCHANGED <<status, replay, orders, portfolio, buffer>>

\* record_fill, then apply_fill, which refuses a price that is not positive.
RecordFill ==
  /\ pc = "fills" /\ Head(todo).kind = "fill"
  /\ \/ /\ WriteNext(Head(todo))
        /\ portfolio' = [portfolio EXCEPT ![Head(todo).order] = @ + Head(todo).n]
     \/ /\ log' = Append(log, Head(todo))
        /\ Return("simulation")
        /\ UNCHANGED <<k, todo, portfolio>>
  /\ UNCHANGED <<status, replay, orders, buffer>>

RecordPosition ==
  /\ pc = "fills" /\ Head(todo).kind = "position"
  /\ WriteNext([Head(todo) EXCEPT !.n = portfolio[Head(todo).order]])
  /\ UNCHANGED <<status, replay, orders, portfolio, buffer>>

\* The Accepted row, then submit, which refuses an eligibility time out of range.
AcceptAndSubmit ==
  /\ pc = "output" /\ Head(todo).kind = "accepted"
  /\ \/ /\ WriteNext(Head(todo))
        /\ book' = book \cup {Head(todo).order}
        /\ eligible' = [eligible EXCEPT ![Head(todo).order] = Head(todo).time + Latency]
     \/ /\ log' = Append(log, Head(todo))
        /\ Return("simulation")
        /\ UNCHANGED <<k, todo, book, eligible>>
  /\ UNCHANGED <<status, replay, taken, portfolio, buffer>>

\* Decision, intent, order and order state rows change nothing else.
RecordRow ==
  /\ pc \in {"fills", "output"}
  /\ Head(todo).kind \in {"decision", "intent", "order", "state"}
  /\ WriteNext(Head(todo))
  /\ UNCHANGED <<status, replay, orders, portfolio, buffer>>

RowFails ==
  /\ pc \in {"fills", "output"}
  /\ Return("storage")
  /\ UNCHANGED <<status, log, replay, k, todo, orders, portfolio, buffer>>

\* The candle-close equity is buffered last, and the buffer saved when it is full.
BufferEquity ==
  /\ pc = "equity"
  /\ LET buffered == Append(buffer, Row("equity", 0, candles[k].close, 0))
     IN \/ /\ Len(buffered) >= Batch
           /\ log' = log \o buffered /\ buffer' = <<>>
           /\ k' = k + 1 /\ pc' = "candle" /\ UNCHANGED error
        \/ /\ Len(buffered) >= Batch
           /\ buffer' = buffered
           /\ Return("storage") /\ UNCHANGED <<log, k>>
        \/ /\ Len(buffered) < Batch
           /\ buffer' = buffered
           /\ k' = k + 1 /\ pc' = "candle" /\ UNCHANGED <<log, error>>
  /\ UNCHANGED <<status, replay, todo, orders, portfolio>>

-----------------------------------------------------------------------------
(* The ends of run_with_progress *)

ExpiredRows ==
  LET open == Ascending(book)
      last == candles[Len(candles)]
  IN [i \in DOMAIN open |-> Row("expired", open[i], last.close, taken[open[i]])]

\* Defect: resting orders are left in the book.
FinishUnexpired ==
  /\ pc = "candle" /\ k > Len(candles)
  /\ FlushThen("expire")
  /\ UNCHANGED <<status, replay, k, todo, orders, portfolio>>

\* The last flush; expire_all empties the book before the first Expired row.
FinishReplay ==
  /\ pc = "candle" /\ k > Len(candles)
  /\ \/ FlushThen("expire") /\ todo' = ExpiredRows /\ book' = {}
     \/ FlushFails /\ UNCHANGED book
  /\ UNCHANGED <<status, replay, k, eligible, taken, portfolio>>

\* An error here is returned at once: it does not pass through the failed status.
Expire ==
  /\ pc = "expire" /\ todo # <<>>
  /\ \/ log' = Append(log, Head(todo)) /\ todo' = Tail(todo) /\ UNCHANGED pc
     \/ pc' = "ended" /\ UNCHANGED <<log, todo>>
  /\ UNCHANGED <<status, replay, k, orders, portfolio, buffer, error>>

Complete ==
  /\ pc = "expire" /\ todo = <<>>
  /\ pc' = "ended"
  /\ status' \in {status, "completed"}
  /\ UNCHANGED <<log, replay, k, todo, orders, portfolio, buffer, error>>

\* The result of writing failed is ignored.
Fail ==
  /\ pc = "failing"
  /\ pc' = "ended"
  /\ status' \in {status, "failed"}
  /\ UNCHANGED <<log, replay, k, todo, orders, portfolio, buffer, error>>

\* Nothing resumes a replay or closes its run when the process starts again.
Crash ==
  /\ pc \notin {"idle", "ended"}
  /\ pc' = "ended"
  /\ UNCHANGED <<status, log, replay, k, todo, orders, portfolio, buffer, error>>

Next ==
  \/ PrepareReplay \/ CreateRun \/ BeginRun \/ OnStart
  \/ TakeCandle \/ MatchFails
  \/ RecordFill \/ RecordPosition \/ AcceptAndSubmit \/ RecordRow \/ RowFails
  \/ OnCandle \/ StrategyFails \/ MarkFails \/ BufferEquity
  \/ FinishReplay \/ Expire \/ Complete \/ Fail \/ Crash

Spec == Init /\ [][Next]_vars

-----------------------------------------------------------------------------
(* Properties *)

IsRow(row, kind, o) == row.kind = kind /\ row.order = o

\* What the fills of an order add up to.
FillsOf(o, rows) ==
  LET sum[i \in 0..Len(rows)] ==
        IF i = 0 THEN 0 ELSE sum[i - 1] + IF IsRow(rows[i], "fill", o) THEN rows[i].n ELSE 0
  IN sum[Len(rows)]
Recorded(o) == FillsOf(o, log)

EquityBefore(i) == Cardinality({j \in 1..(i - 1) : log[j].kind = "equity"})

\* The last row of the kind and order is there, and holds n.
LastSays(kind, o, n) ==
  \E i \in DOMAIN log :
    /\ IsRow(log[i], kind, o) /\ log[i].n = n
    /\ \A j \in (i + 1)..Len(log) : ~IsRow(log[j], kind, o)

\* Batching does not change the order of events: equity rows are those of candles
\* 1, 2, ... without a gap, and every fill, decision, order or expiry of a candle
\* stands after the equity of all candles before it and before its own.
EquityInPlace ==
  \A i \in DOMAIN log :
    EquityBefore(i) = IF log[i].candle = 0 THEN 0 ELSE log[i].candle - 1

\* Nothing is decided or filled with information from its future: on_start sees a candle
\* that closed before the replay opens, and a fill comes from a candle that opened when
\* its order had been submitted, on the record, for the latency at least.
NoLookAhead ==
  /\ candles # <<>> => previous.close < candles[1].open
  /\ \A i \in DOMAIN log : log[i].kind = "fill" =>
       \E j \in 1..(i - 1) :
         /\ log[j].kind = "accepted" /\ log[j].order = log[i].order
         /\ log[j].time + Latency <= candles[log[i].candle].open

\* When the strategy is asked, the record, the book and the portfolio it is shown agree
\* on what every order filled, however many fills the candle gave.
StrategySeesRecord ==
  pc = "strategy" => \A o \in Orders :
    /\ portfolio[o] = taken[o] /\ Recorded(o) = taken[o]
    /\ taken[o] > 0 => LastSays("state", o, taken[o]) /\ LastSays("position", o, taken[o])
    /\ (o \in book) <=> (o \in Placed /\ taken[o] < Qty)

\* A completed run is whole: an equity row for every candle, and every order filled, or
\* expired at what its fills add up to.
CompletedIsWhole ==
  status = "completed" =>
    /\ EquityBefore(Len(log) + 1) = Len(candles)
    /\ \A o \in Placed :
         \/ Recorded(o) = Qty
         \/ \E i \in DOMAIN log : /\ log[i].kind = "expired" /\ log[i].order = o
                                  /\ log[i].n = Recorded(o)

\* A strategy that fails loses nothing the replay had already produced: its failed run
\* holds the equity of every candle before the one it failed on.
FailureKeepsEquity ==
  status = "failed" /\ error = "strategy" =>
    EquityBefore(Len(log) + 1) = IF k = 0 THEN 0 ELSE k - 1

-----------------------------------------------------------------------------
(* Refinement *)

LedgerOrder(o) ==
  IF \A i \in DOMAIN log : log[i].kind # "order" \/ log[i].order # o THEN "absent"
  ELSE IF \E i \in DOMAIN log : /\ log[i].order = o
                                /\ \/ log[i].kind = "expired"
                                   \/ log[i].kind = "state" /\ log[i].n = Qty THEN "closed"
  ELSE "open"

\* Completed is to a replay what stopped is to a live run: the end of a settled record.
Ledger == INSTANCE RunLedger WITH
  status <- IF status = "completed" THEN "stopped" ELSE status,
  order <- [o \in Orders |-> LedgerOrder(o)],
  filled <- [o \in Orders |-> Recorded(o)]

\* The replay writes the canonical record that RunLedger promises, the one a Live-Paper
\* run writes: orders placed and closed once, never overfilled, none open in a completed
\* run, and nothing after a terminal status.
KeepsLedger == Ledger!LedgerSpec
=============================================================================
