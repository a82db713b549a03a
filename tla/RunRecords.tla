---------------------------- MODULE RunRecords ----------------------------
(***************************************************************************)
(* One Live-Paper run from the saved bot to its last row, with the numbers *)
(* in it: the grid that on_start lays, the minutes that become strategy    *)
(* candles, the account that fills move, and the rows they leave.          *)
(*                                                                         *)
(* PaperRun models the same actor with its storage failing at any row and  *)
(* no amounts; here rows are written one at a time and none fails.  What   *)
(* one event does to the memory of the actor is computed when the event    *)
(* arrives: nobody else sees that memory, and rows follow in its order.    *)
(* The clock is followed until the run subscribes to the feed; from then on*)
(* time is the sequence of closed minutes the exchange reports.            *)
(***************************************************************************)
EXTENDS Integers, Sequences, SequencesExt, FiniteSetsExt,
        StrategyClock, StaticGrid, Portfolio, RunQueries

CONSTANTS
  Configs,      \* bot configurations a client may send
  InitialCash,  \* initial_capital
  Part,         \* largest quantity one trade fills: quantity * partial_fill_ratio
  FeeRate,      \* fee_bps, in parts of Whole
  TradePrices,  \* prices of the trades the exchange reports
  PriceOf,      \* minute -> [open, high, low, close, volume]
  FirstClock, MaxClock, LastMinute

ASSUME RecordsAssumption ==
  /\ Configs \subseteq [anchor : {"previous_close", "fixed"}, fixed : Int, spacing : Int,
                        levels : Nat, quantity : Int]
  /\ InitialCash \in Nat
  /\ Part \in Nat \ {0}
  /\ FeeRate \in Nat
  /\ TradePrices \subseteq Nat \ {0}
  /\ LastMinute \in Nat /\ MaxClock \in 0..LastMinute /\ FirstClock \in 0..MaxClock
  /\ \A minute \in 0..LastMinute : minute % Base = 0 =>
       PriceOf[minute] \in [open : Nat, high : Nat, low : Nat, close : Nat, volume : Nat]

VARIABLES
  bot,         \* trading_bots.config_json, NoConfig before the bot is created
  clock,       \* system_now_ms, until the run subscribes
  preview,     \* the grid the console shows before the start
  run,         \* what start decided: [config, now], then its times
  stage,       \* where the run is
  todo,        \* rows the actor has still to write for the event in hand
  ledger,      \* the rows of the run
  book,        \* resting orders in submission order: [order, intent, remaining]
  portfolio,   \* PortfolioState
  aggregator,  \* ReplayAggregator
  seen,        \* candles given to process_strategy_candle
  nextMinute   \* the next minute the exchange closes

recordsVars == <<bot, clock, preview, run, stage, todo, ledger, book, portfolio,
                 aggregator, seen, nextMinute>>

NoConfig == [levels |-> 0]
NoPreview == [boundary |-> -1]
NoRun == [now |-> -1]

Stages == {"desk", "starting", "persisting", "running", "ended"}
RowKinds == {"run_status", "decision", "order_intent", "order_state", "fill",
             "position", "equity"}

\* The bot, the clock, and the rows and orders are of the kinds the code keeps.
RecordsTypeOK ==
  /\ bot \in Configs \cup {NoConfig}
  /\ clock \in FirstClock..MaxClock
  /\ stage \in Stages
  /\ \A i \in DOMAIN ledger : ledger[i].kind \in RowKinds
  /\ \A i \in DOMAIN todo : todo[i].kind \in RowKinds
  /\ \A i \in DOMAIN book : book[i].remaining \in 1..book[i].intent.quantity
  /\ portfolio.cash \in Int /\ portfolio.cost \in Nat /\ portfolio.fees \in Nat
  /\ aggregator.expected \in Nat
  /\ nextMinute \in Nat

-----------------------------------------------------------------------------
(* The exchange *)

MinuteCandle(minute) ==
  [openTime |-> minute, closeTime |-> minute + Base - 1, closed |-> TRUE,
   open |-> PriceOf[minute].open, high |-> PriceOf[minute].high,
   low |-> PriceOf[minute].low, close |-> PriceOf[minute].close,
   volume |-> PriceOf[minute].volume]

\* The sum of a sequence of numbers.
Total(numbers) ==
  LET sum[i \in 0..Len(numbers)] == IF i = 0 THEN 0 ELSE sum[i - 1] + numbers[i]
  IN sum[Len(numbers)]

\* The candle of a bucket made of some of its minutes, from one to the other.
CandleOver(bucket, minutes) ==
  [openTime |-> bucket, closeTime |-> Max(minutes) + Base - 1, closed |-> TRUE,
   open |-> PriceOf[Min(minutes)].open, close |-> PriceOf[Max(minutes)].close,
   high |-> Max({PriceOf[m].high : m \in minutes}),
   low |-> Min({PriceOf[m].low : m \in minutes}),
   volume |-> Total([i \in 1..((Max(minutes) - Min(minutes)) \div Base + 1) |->
                       PriceOf[Min(minutes) + (i - 1) * Base].volume])]

MinutesOf(bucket, first) ==
  {m \in bucket..(bucket + Interval - 1) : m % Base = 0 /\ m >= first}

\* The candles of a market snapshot: the one in progress is not closed.
ExchangeCandles(now) ==
  {[CandleOver(b, MinutesOf(b, b)) EXCEPT !.closed = b + Interval <= now] :
     b \in {b \in 0..now : b % Interval = 0}}

-----------------------------------------------------------------------------
(* The saved bot and the start of its run *)

\* validate_configuration, of what it checks about the grid.
ValidConfiguration(config) == ValidGrid(config)

CreateBot(config) ==
  /\ bot = NoConfig
  /\ stage = "desk"
  /\ ValidConfiguration(config)
  /\ bot' = config
  /\ UNCHANGED <<clock, preview, run, stage, todo, ledger, book, portfolio, aggregator,
                 seen, nextMinute>>

\* update_bot asks nothing about a run.  Once the run is there it reads nothing of the bot.
UpdateBot(config) ==
  /\ bot \notin {NoConfig, config}
  /\ stage \in {"desk", "starting"}
  /\ ValidConfiguration(config)
  /\ bot' = config
  /\ UNCHANGED <<clock, preview, run, stage, todo, ledger, book, portfolio, aggregator,
                 seen, nextMinute>>

AdvanceClock ==
  /\ stage \in {"desk", "starting"}
  /\ clock < MaxClock
  /\ clock' = clock + 1
  /\ UNCHANGED <<bot, preview, run, stage, todo, ledger, book, portfolio, aggregator,
                 seen, nextMinute>>

\* preview and build_preview_snapshot: the grid a start in this replay bucket would lay.
Preview(config) ==
  /\ stage = "desk"
  /\ ValidConfiguration(config)
  /\ \E candle \in PreviousCompleted(ExchangeCandles(clock), BucketOpen(clock)) :
       /\ GridFits(config, candle.close)
       /\ preview' = [config |-> config, boundary |-> BucketOpen(clock),
                      levels |-> GridIntents(config, candle.close)]
  /\ UNCHANGED <<bot, clock, run, stage, todo, ledger, book, portfolio, aggregator,
                 seen, nextMinute>>

\* start_run: the request must be what is saved.  PaperManager::start then takes the time
\* and asks for the market's candles.
RequestStart(config) ==
  /\ stage = "desk"
  /\ ValidConfiguration(config)
  /\ bot = config
  /\ run' = [config |-> config, now |-> clock]
  /\ stage' = "starting"
  /\ UNCHANGED <<bot, clock, preview, todo, ledger, book, portfolio, aggregator,
                 seen, nextMinute>>

\* persist_strategy_output of on_start's intents, in their order.
StartRows(intents) ==
  LET rows[i \in 0..Len(intents)] ==
        IF i = 0 THEN <<StatusRow("running"), DecisionRow>>
        ELSE rows[i - 1] \o <<IntentRow(intents[i]), OrderRow(i, intents[i]),
                              OrderStateRow(i, "accepted", 0)>>
  IN rows[Len(intents)]

Resting(intents) ==
  [i \in DOMAIN intents |->
     [order |-> i, intent |-> intents[i], remaining |-> intents[i].quantity]]

\* PaperManager::start once the candles are there.  The times are those of the request,
\* the subscription that of now: a minute that closed in between is not in the feed.  A
\* grid that on_start refuses fails the run.
BeginRecords ==
  /\ stage = "starting"
  /\ \E candle \in PreviousCompleted(ExchangeCandles(clock), BucketOpen(run.now)) :
       LET intents == GridIntents(run.config, candle.close)
       IN /\ run' = [config |-> run.config, now |-> run.now,
                     boundary |-> BucketOpen(run.now),
                     first |-> FirstFullBaseOpen(run.now), previous |-> candle]
          /\ IF GridFits(run.config, candle.close)
             THEN todo' = StartRows(intents) /\ book' = Resting(intents)
             ELSE todo' = <<StatusRow("running"), StatusRow("failed")>> /\ book' = <<>>
  /\ ledger' = <<StatusRow("created")>>
  /\ portfolio' = NewPortfolio(InitialCash)
  /\ aggregator' = NewAggregator(FirstFullBaseOpen(run.now))
  /\ nextMinute' = Floor(clock, Base)
  /\ stage' = "persisting"
  /\ UNCHANGED <<bot, clock, preview, seen>>

\* The snapshot of an active run clears the preview on the console.
AfterRows(rows) == IF RunStatusOf(rows) = "running" THEN "running" ELSE "ended"
WriteRow ==
  /\ stage = "persisting"
  /\ ledger' = Append(ledger, Head(todo))
  /\ todo' = Tail(todo)
  /\ stage' = IF Tail(todo) = <<>> THEN AfterRows(ledger') ELSE stage
  /\ preview' = IF Tail(todo) = <<>> THEN NoPreview ELSE preview
  /\ UNCHANGED <<bot, clock, run, book, portfolio, aggregator, seen, nextMinute>>

-----------------------------------------------------------------------------
(* run_loop *)

Persisting(newRows) ==
  /\ todo' = newRows
  /\ stage' = IF newRows = <<>> THEN "running" ELSE "persisting"
  /\ UNCHANGED <<bot, clock, preview, run, ledger>>

\* live_limit_is_fillable under LimitFillPolicy::Touch.
Touches(resting, price) ==
  IF resting.intent.side = "buy" THEN price <= resting.intent.price
  ELSE price >= resting.intent.price

Chunk(resting) == IF Part < resting.remaining THEN Part ELSE resting.remaining
Fee(quantity, price) == (quantity * price * FeeRate) \div Whole

\* The account after one fill, and the rows that fill leaves: its own, its order's state,
\* the position and the equity it makes.
FillOne(account, resting) ==
  LET side == resting.intent.side
      price == resting.intent.price
      quantity == Chunk(resting)
      filled == resting.intent.quantity - resting.remaining + quantity
      after == ApplyFill(account.portfolio, side, quantity, price, Fee(quantity, price))
      status == IF filled = resting.intent.quantity THEN "filled" ELSE "partially_filled"
  IN [portfolio |-> after,
      rows |-> account.rows \o
        <<FillRow(resting.order, side, price, quantity, Fee(quantity, price)),
          OrderStateRow(resting.order, status, filled),
          PositionRow(PortfolioView(after), price), EquityRow(PortfolioView(after))>>]

\* Defect: orders filled to the last unit stay in the book.
RetainAll(orders) == orders

\* ExecutionBook::retain_open
RetainOpen(orders) == Selected(orders, {resting \in Range(orders) : resting.remaining > 0})

\* The orders the price touches, and the account after each of them was filled in turn.
Touched(price) == Selected(book, {resting \in Range(book) : Touches(resting, price)})
FillEach(account, orders) ==
  LET after[i \in 0..Len(orders)] ==
        IF i = 0 THEN account ELSE FillOne(after[i - 1], orders[i])
  IN after[Len(orders)]

\* A trade of the exchange: LivePaperExecution::process_trade fills in book order every
\* order the price touches, at the order's own price.
TradeArrives(price) ==
  LET account == FillEach([portfolio |-> portfolio, rows |-> <<>>], Touched(price))
      Left(resting) == [resting EXCEPT !.remaining = @ - Chunk(resting)]
      taken == [i \in DOMAIN book |->
                  IF Touches(book[i], price) THEN Left(book[i]) ELSE book[i]]
  IN /\ stage = "running"
     /\ Touched(price) # <<>>
     /\ book' = RetainOpen(taken)
     /\ portfolio' = account.portfolio
     /\ Persisting(account.rows)
     /\ UNCHANGED <<aggregator, seen, nextMinute>>

\* expire_pending, then the status: the end of PaperRunCore::stop and fail.
EndRows(status) ==
  [i \in DOMAIN book |->
     OrderStateRow(book[i].order, "expired", book[i].intent.quantity - book[i].remaining)]
    \o <<StatusRow(status)>>
EndRun(status) ==
  /\ Persisting(EndRows(status))
  /\ book' = <<>>
  /\ UNCHANGED <<portfolio, aggregator, seen>>

\* The candle branch of run_loop: an older minute is ignored, one that push refuses fails
\* the run, and the candle that push completes goes to process_strategy_candle.
CandleArrives(minute) ==
  LET candle == MinuteCandle(minute)
      completed == Grown(aggregator, candle)
      marked == MarkPortfolio(portfolio, completed.close)
  IN /\ stage = "running"
     /\ minute <= LastMinute
     /\ nextMinute' = IF minute = nextMinute THEN nextMinute + Base ELSE nextMinute
     /\ \/ /\ candle.openTime < aggregator.expected
           /\ Persisting(<<>>)
           /\ UNCHANGED <<book, portfolio, aggregator, seen>>
        \/ /\ candle.openTime >= aggregator.expected
           /\ ~Pushable(aggregator, candle)
           /\ EndRun("failed")
        \/ /\ Pushable(aggregator, candle)
           /\ aggregator' = Push(aggregator, candle)
           /\ UNCHANGED book
           /\ IF Completes(candle)
              THEN /\ portfolio' = marked
                   /\ seen' = Append(seen, completed)
                   /\ Persisting(<<EquityRow(PortfolioView(marked))>>)
              ELSE UNCHANGED <<portfolio, seen>> /\ Persisting(<<>>)

\* The exchange reports the next minute, repeats the last one, or the message of the next
\* does not parse and the feed goes on without it.
NextMinute == CandleArrives(nextMinute)
RepeatMinute == nextMinute >= Base /\ CandleArrives(nextMinute - Base)
LoseMinute ==
  /\ stage = "running"
  /\ nextMinute < LastMinute
  /\ nextMinute' = nextMinute + Base
  /\ UNCHANGED <<bot, clock, preview, run, stage, todo, ledger, book, portfolio,
                 aggregator, seen>>

\* A user's stop, or a feed that reconnects, lags or closes.
StopRecords ==
  /\ stage = "running"
  /\ \E status \in {"stopped", "failed"} : EndRun(status)
  /\ UNCHANGED nextMinute

-----------------------------------------------------------------------------
RecordsInit ==
  /\ bot = NoConfig
  /\ clock = FirstClock
  /\ preview = NoPreview
  /\ run = NoRun
  /\ stage = "desk"
  /\ todo = <<>>
  /\ ledger = <<>>
  /\ book = <<>>
  /\ portfolio = NewPortfolio(InitialCash)
  /\ aggregator = NewAggregator(0)
  /\ seen = <<>>
  /\ nextMinute = 0

RecordsNext ==
  \/ \E config \in Configs :
       CreateBot(config) \/ UpdateBot(config) \/ Preview(config) \/ RequestStart(config)
  \/ AdvanceClock
  \/ BeginRecords
  \/ WriteRow
  \/ \E price \in TradePrices : TradeArrives(price)
  \/ NextMinute
  \/ RepeatMinute
  \/ LoseMinute
  \/ StopRecords

-----------------------------------------------------------------------------
(* What the rows of a run must tell *)

Fills(rows) == FillAudit(rows)
SignedQuantity(fill) == SignedDelta(fill.side, fill.quantity)

\* The cash and the position that follow from the fill rows alone.
CashFrom(fills) ==
  InitialCash
    - Total([i \in DOMAIN fills |-> SignedQuantity(fills[i]) * fills[i].price + fills[i].fee])
QuantityFrom(fills) == Total([i \in DOMAIN fills |-> SignedQuantity(fills[i])])

\* A position or equity row accounts for exactly the fills before it, and for every unit
\* of money: what was put in, won, lost and paid in fees.
RowBalances(i) ==
  LET before == Fills(SubSeq(ledger, 1, i))
  IN /\ ledger[i].view.cash = CashFrom(before)
     /\ ledger[i].view.quantity = QuantityFrom(before)
     /\ ViewBalances(ledger[i].view, InitialCash)

\* Between two events what is stored tells what is in memory: the snapshot made of the
\* rows alone has the account of the live one, the levels that no terminal state closed
\* are the orders that rest, and the summary on the console is that of the portfolio.
StoredIsLive ==
  LET stored == PersistedSnapshot(ledger, InitialCash)
      view == PortfolioView(portfolio)
      levels == ChartSnapshot(ledger, stage = "running", {}).order_levels
      open == Selected(levels, {level \in Range(levels) : ~level.closed})
      counts == TradingRunCounts(ledger)
      console == ConsoleBotSummary(ledger, "none")
  IN /\ \A field \in DOMAIN view : stored.portfolio[field] = view[field]
     /\ [i \in DOMAIN open |-> open[i].order] = [i \in DOMAIN book |-> book[i].order]
     /\ \A i \in DOMAIN levels : levels[i].closed <=> levels[i].final_status \in TerminalStates
     /\ Len(PositionPoints(ledger)) = counts.fills
     /\ Len(EquityPoints(ledger)) = counts.fills + Len(seen)
     /\ counts.fills > 0 =>
          /\ console.position_quantity = view.quantity
          /\ console.realized_pnl = view.realized
          /\ console.fees_paid = view.fees
          /\ console.latest_equity = view.equity

\* The books balance (portfolio.rs:29, paper.rs:1104, paper.rs:682): every account written
\* is that of the fills written before it, whatever sequence of fills opened, closed or
\* crossed the position, and between events storage alone tells what the actor holds.
BooksBalance ==
  /\ \A i \in DOMAIN ledger : ledger[i].kind \in {"position", "equity"} => RowBalances(i)
  /\ stage \in {"running", "ended"} => StoredIsLive

\* The strategy trades on whole candles of minutes after its orders (paper.rs:310-346,
\* 1420): the grid starts from the candle that closed at the replay boundary, which is the
\* preview of the same bucket; the candles it then sees are consecutive buckets with every
\* minute in them, the first from the first full minute of the run on.
StrategySeesWholeBuckets ==
  stage \in {"persisting", "running", "ended"} =>
    /\ run.first >= run.now /\ run.first < run.now + Base /\ run.first % Base = 0
    /\ run.boundary <= run.now /\ run.previous.closeTime < run.boundary
    /\ run.previous = CandleOver(run.boundary - Interval,
                                 MinutesOf(run.boundary - Interval, 0))
    /\ (stage = "persisting" /\ preview # NoPreview /\ book # <<>>
          /\ preview.boundary = run.boundary /\ preview.config = run.config)
         => [i \in DOMAIN book |-> book[i].intent] = preview.levels
    /\ \A i \in DOMAIN seen :
         LET bucket == BucketOpen(run.first) + (i - 1) * Interval
         IN seen[i] = CandleOver(bucket, MinutesOf(bucket, run.first))
=============================================================================
