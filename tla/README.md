# Binance Bots: TLA+ models, checks and proofs

The service runs **bots**. Starting a bot creates a **run**: a backend actor that
plays a strategy's simulated orders against live Binance trades and records
everything it does as canonical rows in SQLite. The same strategies can be run over
archived candles (**Backtest**). This directory models the parts of the service in
which order, concurrency or failure decide whether the record can be trusted.

Paths are relative to the repository root; Rust sources are in `src/`.

## Inventory

| Component | State | Operations | What is hard | What makes it correct |
|---|---|---|---|---|
| Run actor, `paper.rs` `PaperRunCore`, `run_loop` | strategy, book, portfolio, status, snapshot | start, trade, candle, ticker, stop, fail | one trade fills several orders, each fill is four transactions, any may fail; stop races events; crash anywhere | rows and memory agree between events; a failure costs at most one group; a stopped run is settled; terminal is final |
| Execution book, `trading/simulation.rs` | pending orders, last trade id | submit, process trade / candle, expire all | eligibility, partial fills, repeats | never more than the order, never before eligibility, each trade once |
| Canonical rows, `storage/runs/write.rs`, migration 004 | runs, orders, order states, fills, positions, equity, event sequence | one transaction per write | no check ties an order row to the run's status | status lifecycle, nothing after terminal |
| Market feed, `market/service.rs` | delivery counters, broadcast channel, per-run cursor | connect, read, publish, reconnect, subscribe, receive | slow runs, reconnects, redelivery, subscribing at any moment | no run goes on past a trade it missed |
| Registry, `paper.rs` `PaperManager` | `runtimes` map under a lock, handles | start with admission, stop, list, snapshot, restart | simultaneous starts, requests dropped halfway, stale snapshots, failing writes | one run per bot, the cap, every request answered |
| Snapshot stream, `paper.rs`, `api/trading.rs`, `auth.rs`, `web/trading.js` | snapshot, revision, 64-slot broadcast, the page's connections, timer, session, view | publish, bootstrap, forward, resync, render, close, reconnect, select, stop | subscribe versus read, lag, send after unlock, a lost connection or session, close events and timers that outlive the page they were made for | a view only moves forward while the page knows its connection; it always catches up |
| Replay aggregation, `paper.rs`, `backtest.rs` | expected minute, current bucket | start boundary, push | mid-bucket start, gaps, repeats | the strategy sees whole candles of minutes after its orders |
| Portfolio, `trading/portfolio.rs` | cash, position, average, realized, fees | apply fill, mark, view | flips through zero | equity identity |
| Static grid, `trading/strategies/static_grid.rs` | none after start | validate, on_start | a grid that reaches zero | the orders of the preview |
| Backtest engine, `backtest.rs` | book, portfolio, buffered equity | prepare, execute, flush, finish | no look-ahead, buffered rows, error exits | events in the order they happened, one terminal status |
| Backtest jobs, `api/backtests.rs` | job map | create, execute, poll | two at once, a dying job | one at a time, every job ends |
| Archive downloader, `downloader.rs`, `storage/reader.rs`, `api/data.rs` | entry, receipts, candles, dataset, progress | create, change start, plan, fetch, import, finish | resume, dropped requests whose storage call goes on, errors between writes | a receipt means the archive is stored; "complete" means no hole |
| Capture, `collector.rs`, `storage/mod.rs` | bounded queue, writer thread, rows | connect, record, insert, abort, finish | full queue, writer gone, abort while sending | what was accepted is stored, what is stored has no hole |
| Queries and pages, `storage/runs/read.rs` | none: they read the rows | history, counts, levels, summary, audit and activity pages | two queries a page, rows appended between them | stored rows alone tell what the run holds; pages join without gap or repeat |
| Bots, `api/trading.rs`, `storage/bots.rs` | `trading_bots` row | create, update, preview | an update between preview and start | a run trades the saved configuration |
| Order book, Binance client, parsing, catalog, HTTP | rows or none | pure functions, CRUD | little | not modelled |
| Authentication, `auth.rs` | sessions, in memory | log in, log out, check | sessions end with the process | a browser without a session is refused |

Components talk by calls and channels: `MarketFeed` broadcasts to every
`RunMarketSubscription`; the run actor calls storage synchronously and publishes
snapshots; `PaperManager` starts actors, hands them a stop channel and reads their
snapshots. `PROJECT.json` lists the hazards, at their lines, with the properties
that guard them.

## Modules

`PaperRun` is one run from `PaperManager::start` to its end. `pc` says where the
actor is: the phases of start, of the loop (`select`, `waiting` for an event, the
four rows of a fill, `publish`), and of the two exits. Rows (`runStatus`,
`orderStatus`, `orderFilled`, `fillRows`, `positionRow`, `equityRow`) survive a
crash; memory (`book`, `taken`, `fills`, `portfolio`, `draining`, `lastTradeId`,
`stop`, `view`) does not. Each storage call is one step that may return an error, and
`Crash` may come between any two. Prices are integers, an order has `Qty` units and a
trade fills at most `Part` of it. A position is kept as the quantity each order
contributed, so an equity row can be compared with the fills it stands for; cash,
profit and fees are in `Portfolio` and `RunRecords`. The grid strategy emits all its
orders at start and they are limit orders, so orders are constants.

`RunLedger` is what the rows promise, in seven actions; `PaperRun!KeepsLedger` maps
order states to absent, open and closed.

`MarketFeed` is one feed and its runs. `log` is the history of the broadcast channel,
whose last `Capacity` events a receiver can still read. A run's `cursor` is its
position and the three checks of `RunMarketSubscription::recv`. A trade is its id; the
exchange's ids have no gaps (external). Payloads are assumed to parse: one that does
not is skipped before it is numbered and nothing later can tell.

`PaperManager` is the registry. `queue` is the FIFO of the `runtimes` mutex, its head
holds it; a request's `at` is its position in `start` or `stop`. Admission reads the
snapshots one by one while actors go on. A request may be dropped at every await.
Runs are what the registry sees of them. `BotRuns` is its promise: at most one active
run per bot, at most `Cap` in all, none that comes back.

`Backtest` is one historical replay, from `prepare_replay` over any stored candles to
the end of its run. `log` is the run's events in sequence order; a fill group, a
strategy's output or the expiry is a queue of rows, `todo`, written one storage call at a
time, and `buffer` is the equity not yet written. Time is two units to a stored candle,
so latency can end just before or after a candle opens. It maps to `RunLedger` with
`completed` as the settled end, so live and historical runs keep one promise.

`BacktestJobs` is the job map with its requests, worker and browsers; the engine is the
statuses its run can end with. A ticket names a submission, so that the model can say
whose job an answer is about: ids start again with the process, browsers keep theirs.

`RunRecords` is the same run with its numbers and without its failures: a bot is saved and
edited, `start` compares it and takes its times from `clock`, the grid of `StaticGrid` is
laid, trades fill it through `Portfolio`, minutes go through the aggregator of
`StrategyClock`, and every event leaves rows in `ledger`. `Portfolio`, `StaticGrid`,
`StrategyClock` and `RunQueries` are operators, not machines: they translate pure Rust
functions and SQL and have no variable of their own. `Portfolio` keeps the cost of the
position where the code keeps its average price. `RunQueries` reads the rows as a sequence,
since every query does so in `run_sequence` order.

`RunStream` is one run's live view: the handle's snapshot and broadcast channel, the page's
connections with the server's task and the wire of each (`sockets`), the session, and the
console. A snapshot is its revision and whether the run is active in it. `WriteSnapshot` and
`SendSnapshot` are two steps, as the lock is dropped between them; `Restart` loses the handle
and, with authentication, the session, and leaves rows. The console has one variable for its
connection, `stream`, and may have several connections: `closeStream` clears `onclose`, but
the handler was registered with `addEventListener`, so each connection's `CloseEvent` comes
after it was replaced, clears `stream` whichever connection it names by then, and schedules a
reconnect; and nothing stops the timer (`TimerFires`) when another page is shown or the bot
is selected again. A live connection that a close event makes the page forget goes on
rendering. `forgot` is a history variable that says so, until a page begins anew without one.
`SelectBot` and `RenderFetched` are the two ends of `selectBot`'s await, `AskStop` and
`StopAnswered` those of the stop button's.

`RunPages` is the audit and activity lists of the console, read in pages while the run
appends rows. A page is two queries, and rows may come between the two. One request is in
flight at a time: a token makes the console discard a superseded answer, refreshes are
guarded by `auditRefreshInFlight`, and the two lists have nothing in common.

`MCRunStream` puts the three beside each other; `RunStream` and `RunPages` only read a run,
so their steps change nothing of another's and `side` picks the one a behaviour explores.

`Archive` is the Data Downloader for one entry. A day has one candle. `run` is
`ArchiveDownloader::run` from the request to its answer, each archive one fetch and one
import; any call may fail. When the client goes away the future is dropped, but a storage
call that `spawn_blocking` has begun goes on: `orphans`. `edit` is an update of the start
date between its check and its write.

`Capture` is one capture from the command line: a reader for each url, the queue, the
writer thread and the collector that joins the readers and sends `finish` behind the last
event. A reader that waits for room in the queue is inside `record` and cannot be aborted
there. Each statement may fail, and the process may die.

`MCMarketStore` puts the two writers of the market tables beside each other. They share
`market_instruments`, where each only adds what is not there, and SQLite's write lock,
whose timeout is a statement that fails; their steps commute, and `active` picks one.

`MC*` modules give the constants that a `.cfg` cannot write.

## Runs

| Run | Shows | Bounds |
|---|---|---|
| `paper_run` | all of `PaperRun`'s properties | three orders (buy 2, sell 3, buy 1) of 3 units, 2 at a time: one price crosses no order, one, or both buys, so one trade can finish one order and leave another in part; 4 trade ids in any order; one stamped too early. The last chunk (1) differs from the first (2) |
| `paper_run_open_orders` | violation, see findings | same |
| `paper_run_fill_order` | violation, see findings | same |
| `market_feed` | `NoSilentGap`, `LagIsReportedAsLag`, `DisconnectEndsRuns` | channel of 2, 3 trades, 2 connections, 7 events: enough to lag, miss a trade and still find two later ones, and to trade on both connections. Runs only read the channel, so one run shows what each sees |
| `paper_manager` | `OneRunPerBot`, `CapHolds` | 3 bots and a cap of 2, so the cap matters apart from the bot rule; 3 runs; 2 requests at once; bots and requests symmetric (safety only) |
| `paper_manager_service` | `RequestIsAnswered`, `KeepsPromise` | 2 bots, 2 runs, cap 1, no symmetry |
| `paper_manager_listed` | violation, see findings | as `paper_manager` |
| `backtest` | all of `Backtest`'s properties | 5 slots, 2 to a candle: every dataset, start and end; three replay candles, complete or not, with and without a pre-roll. A limit and a market order of 3 units, 2 at a time; latency 1, so an order is eligible at the next open but not at its own; batches of 2, so the buffer is saved by size, before events and at the end |
| `backtest_jobs` | all of `BacktestJobs`'s properties | 2 browsers, 2 submissions, 2 ids per process, 1 restart: two requests at once, or one before and one after a restart |
| `backtest_jobs_stale_id` | violation, see findings | same |
| `run_stream` | `BooksBalance`, `StrategySeesWholeBuckets`, `ViewGoesForward`, `ViewConverges`, `PagesAreWhole` | a grid of two levels, 3 units each, filled 2 at a time at 9 or 12: partial fills, and positions that open, grow, close and cross zero. A minute is 2 units of time, a candle 4, a start at 4, 5 or 6: on a candle, inside a minute, inside a candle; minutes up to 10 close two candles and part of a third. A channel of 1 and 3 revisions: a receiver lags, and revisions come before, while and after it resynchronises; a socket buffer of 1. One connection or session lost or one late close of another run's connection, one restart, two clicks and two connections: enough to lose a connection, select the bot again before the timer fires, and have both connections stream; more connections than two add no state. Pages of 2 over 5 rows: three pages, the last one short |
| `market_store` | `DownloadIsWhole`, `CaptureIsWhole`, `StoreSettles` | months of 2 days, today 5 then 6, so a plan mixes monthly and daily archives and the cutoff moves between 2 runs; 2 start dates, so an entry can be extended backwards; 2 orphans. Two urls of 3 and 2 messages, one trade repeated, a queue of 2: both readers can wait for room and the writer can fail with commands behind it |

`market_feed`, `backtest_jobs`, `run_stream` and `market_store` do not check deadlock:
trades, submissions, restarts, revisions, rows, days and messages are bounded and run out;
nor does `backtest`, whose replay ends. All other runs check it.

### Properties

- `LoopIsAudited`: between two events, executor, portfolio and every kind of row agree
  on what each order filled, and the book is exactly the open orders.
- `OneGroupShort`: after any error or crash, rows are behind for one order, one fill.
- `StoppedIsSettled`: stopped means every order filled or expired and every row complete.
  A failed run gives no such promise (findings).
- `PublishedIsPersisted`: a snapshot is never ahead of the rows. For a failed run only
  the Fill rows are sure: the portfolio may have taken a fill whose position or equity
  row failed, and `finish_failed` publishes it.
- `TerminalIsFrozen`, `StopEndsRun`, `RestartFinishesRun`, `KeepsLedger`.
- `NoSilentGap`: between two trades a run acted on there is none it did not see.
- `LagIsReportedAsLag`: numbering and sending under one lock leaves the sequence check
  nothing to find. `DisconnectEndsRuns`: a live run ends when the connection is lost.
- `OneRunPerBot`, `CapHolds`: over runs that write rows, from the running row to the
  last snapshot. `KeepsPromise`: over what snapshots show. `RequestIsAnswered`: the lock
  that start keeps through its awaits locks nobody out.
- `EquityInPlace`: buffering leaves every equity row where the replay produced it.
- `NoLookAhead`: fills come only from candles that open after the order's row and latency,
  and `on_start` sees only a candle that has closed.
- `StrategySeesRecord`: what `on_candle` is shown is what the record says.
- `CompletedIsWhole`, `FailureKeepsEquity`: what a completed run, and one whose strategy
  failed, must contain. Failures of marking or storage may lose up to a batch of equity.
- `OneReplayAtATime`, `JobTellsTheTruth`, `PollsGoForward`, `BusyEnds`: jobs.
- `BooksBalance`: every position and equity row accounts for the fills before it and for
  every unit of money; between events the rows alone tell what the actor holds.
- `StrategySeesWholeBuckets`: the grid starts from the candle that closed at the replay
  boundary and the strategy then sees consecutive candles with no minute missing.
- `ViewGoesForward`: as long as the page has forgotten no live connection, no bootstrap,
  queued update, resync, late close event or reconnect shows an older revision, and a run the
  bot's card shows over becomes active again only by a snapshot or a stop's answer asked for
  before. `ViewConverges`: a console that stays, and whose user has a session in the end, comes
  to show every revision, or a later one, and the run's end, forgotten connections or not.
  `PagesAreWhole`: lists joined from pages have no gap and no repeat.
- `DownloadIsWhole`: after drops, crashes and edits an imported archive has all its days, and
  an answer of "complete" leaves no day out. `CaptureIsWhole`: a stored stream has no hole, a
  completed capture holds everything recorded with `Ok`. `StoreSettles`: both come to an end.

### Fairness

`PaperRun`: weak fairness of the actor's own steps (tokio polls a ready task), of the
loop and of both exits, and of restart (the host restarts the service). None for the
market, users or crashes. The select is biased towards stop, which is why a stream of
events cannot starve it: with the order of the branches reversed `StopEndsRun` fails.
`MarketFeed`: the feed announces a lost connection and a run polls its subscription;
nothing makes the exchange trade or connect. `PaperManager`: a request that can go on
does, in the mutex's FIFO order; snapshots' own locks are held without awaits. No
actor is assumed to end. `BacktestJobs`: the task and its blocking worker go on; a replay
reads finitely many candles. `RunStream`: the actor sends what it has published, the
server's tasks and the browser's handlers run, requests are answered, the reconnect timer
fires; the actor need not publish, nor a user click or sign in again. That is why
`ViewConverges` speaks of browsers that have a session for good from some moment on: without
one the console reconnects every 1.5 s for ever and shows the run active. `Archive`: the
steps of a run; a fetch answers or fails, as the HTTP client does. `Capture`: the writer
thread, the collector (whose timer fires), and for each reader its send and its abort;
nothing makes an exchange connect or deliver.

### Findings

- A run recorded **failed** may have open orders (`EndedRunHasNoOpenOrder`).
  `expire_pending` drains the book and stops at the first error, a start may fail
  between an order's row and its Accepted row, and restart writes run statuses only.
  `Documents/ARCHITECTURE.md:512` says such a run expires them.
- An Expired row may report a filled quantity that has no Fill row
  (`OrderStateFollowsFill`): the executor's book changes before the first row of the
  group, and `Documents/ARCHITECTURE.md:525` has Fill come first.
- The run list may show two active runs of a bot (`ListedOncePerBot`): a start that
  fails after `running` was written, and cannot write `failed`, leaves no handle, and a
  run without a handle is listed with its row's status. `Documents/ARCHITECTURE.md:449`
  promises one. Admission itself is right (`OneRunPerBot`): nobody drives the first run.
- A job id kept by a browser over a restart is answered with another submission's job
  (`PollAnswersOwnJob`): ids start from 1 again. `web/backtests.js:1761` expects such a
  job to be gone.

Seen on the way in `RunStream`, where they are reachable; `ViewGoesForward` and `ViewConverges`
name them as conditions instead of denying them. No document denies them either: it is the
server that discards revisions in `Documents/ARCHITECTURE.md:311`.

- A connection is lost, its bot is selected again within 1.5 s, and the old timer replaces the
  new connection, whose late close event clears `stream` and sets the timer once more. The next
  connection is opened beside one that nobody will close before its run ends. Both render, and
  `renderSnapshot` (`web/trading.js:2390`) compares no revisions, so the view may go back, and a
  run shown over be shown active again, until the connection that is ahead sends its next
  snapshot. Leaving the page does not end the forgotten connection, although
  `Documents/ARCHITECTURE.md:451` has switching cards close it.
- Sessions are held in memory (`auth.rs:28`), so after a restart an open console is answered 401
  (`auth.rs:154`) and goes on reconnecting, showing the run active, until its user signs in.
- The stop button's answer may be of a run that is still running: the page then shows the bot
  idle with its stream closed. If the stream tells the run's end while that answer is on its way,
  the answer lists the run as active again, and the bot's next selection corrects it.

Seen on the way, with no run of their own, because the model states no property of them:
`Documents/ARCHITECTURE.md:317` says the stream of a terminal run sends once and closes, but
the stream of a run that ended in this process stays open, since its handle stays; an entry
whose process died keeps the status `downloading`, and its start date is refused as
"currently downloading", until the next run; a persisted snapshot calls every recent fill
Filled (`paper.rs:750`), a partial one too.

## Proofs

Every module with theorems is named after the component it is about. What each proves
holds for every value of the constants that the module's `ASSUME` allows; TLC evaluates
that `ASSUME` in the runs of the component, and the theorems rest on nothing else. Each
safety property is proved from an inductive invariant, `IInv` or a name ending in `Inv`,
with a lemma for each of its parts or each group of actions.

| Module | Theorems | What they state |
|---|---|---|
| `PaperRunProofs` | `RunIsInvariant`, `RunTypeCorrect`, `RunLoopIsAudited`, `RunOneGroupShort`, `RunStoppedIsSettled`, `RunPublishedIsPersisted`, `RunTerminalIsFrozen`, `RunKeepsLedger` | all safety properties of `paper_run`, and that a live run implements `RunLedger`; any orders, fill size, sides, limits, fill policy and trades |
| `MarketFeedProofs` | `FeedIsInvariant`, `FeedTypeCorrect`, `FeedNoSilentGap`, `FeedLagIsReportedAsLag` | the invariants of `market_feed`; any channel capacity, set of runs, number of trades, connections and events |
| `PaperManagerProofs` | `ManagerIsInvariant`, `ManagerTypeCorrect`, `ManagerOneRunPerBot`, `ManagerCapHolds`, `ManagerKeepsPromise` | the invariants of `paper_manager`, and that the registry implements `BotRuns`; any bots, runs, requests and cap |
| `BacktestProofs` | `ReplayIsInvariant`, `ReplayTypeCorrect`, `ReplayKeepsOrder`, `ReplayLooksBack`, `ReplayShowsRecord`, `ReplayCompletesWhole`, `ReplayFailsWhole`, `ReplayKeepsLedger` | all safety properties of `backtest`, and that a replay implements `RunLedger`; any dataset, range, interval, orders, latency and batch |
| `BacktestJobsProofs` | `JobsAreInvariant`, `JobsTypeCorrect`, `JobsOneReplayAtATime`, `JobsTellTheTruth`, `JobsPollsGoForward` | the safety properties of `backtest_jobs`; any browsers, submissions, ids and restarts |
| `RunStreamProofs` | `RecordsAreInvariant`, `BooksStayBalanced`, `StrategyIsShownWholeBuckets`, `StreamIsInvariant`, `StreamViewGoesForward`, `PagesAreInvariant`, `PagesStayWhole`, `SidesTypeCorrect` | all safety properties of `run_stream`; any configurations, money, fee, trade prices, clocks and minutes; any channel, socket buffer, connections, revisions, faults and clicks; any page sizes and rows |
| `MarketStoreProofs` | `CaptureIsInvariant`, `CaptureKeepsWhole`, `ArchiveIsInvariant`, `ArchiveKeepsWhole`, `StoreTypeCorrect` | the invariants of `market_store`; any finite set of streams, messages and queue capacity; any length of a month, start dates, days, runs and dropped requests |
| `RunRecordsProofs` | `FillKeepsBalance`, `MarkKeepsBalance`, `ViewOfBalancedBalances`, `RecordsStart`, `RecordsStep`, `InvBalances`, `InvShowsWholeBuckets` | every account that fills and marks lead to is `Balanced`, and its view is equity = initial + realized + unrealized - fees; every step of the actor keeps `RecordsInv`, from which the two properties of `RunRecords` follow |

### Why the invariants are what they are

No property below is inductive by itself.

`PaperRun`: `LoopIsAudited` says nothing while a fill is being persisted, so `IInv` says for
each phase how far the rows of the current order are and that no other order is behind;
`StoppedIsSettled` needs to know which orders are still in the book, in `draining` or lost
by a failed expiry before `stopped` is written; `TerminalIsFrozen` needs that no phase with
a row to write is reached with a terminal status.

`MarketFeed`: a run skips no trade because of the cursor's checks *and* because the channel
holds no hole inside one connection (`NoHoleInv`), which in turn needs to know what the
reader of a connection holds and what it sent before (`DeliveryInv`). `CursorInv` ties what
a run accepted to the positions it passed. A hole between two connections is not excluded:
there the epoch check ends the run.

`PaperManager`: the snapshots that admission has not read yet may end but cannot begin, since
a run begins only in the hands of the lock's holder. `AdmissionInv` says so: while admission
reads, every live run is among those it found or has still to read; once it has admitted a
start, no live run is of that bot and one more fits. `QueueInv` gives that only the head of
the queue is between admission and insertion, `HandleInv` that a live run has a handle whose
snapshot shows it running.

`BacktestJobs`: `WorkerInv` says that a worker drives the one unfinished job, `IdInv` that a
request that took an id and waits for admission has it to itself. `SeenInv` is what makes
polls go forward: an answer shown is its job, or an earlier state of it.

`Backtest`: `FlowInv` says for each phase what may be buffered and left to write; `EquityInv`
counts saved and buffered equity rows against the candles that are done, which is why a flush
before every event puts them in place; `PlacedInv`, `FilledInv` and `ExpiredInv` follow an
order from intent to its last row through `todo`, `taken`, the log and the book; `LookInv`
ties an order's eligibility to the time of its accepted row. `StepCases` splits the next-state
relation once, and `RecordStays` gives the parts of the invariant that a step leaves alone.
`KeepsLedger` maps a step that writes a row to one action of `RunLedger`, any other to a stutter.

`RunStream`: what one connection carries is in the order of revisions (`SocketInv`), and nothing
on its way to the page is older than the view (`NotBefore`). With several connections that would
not be enough, so `KnownInv` says that a page which has forgotten nothing has at most one live
connection, the one in `stream`; that none is live while a snapshot is asked for or the run is
listed as over, so that what was fetched begins a view and nothing renders beside it; and that a
connection is forgotten exactly when a close event clears a variable that names another, live
one. A page that begins anew keeps that from its connections, not from the steps that made them.
`RunPages`: `RequestInv` relates a request in flight to rows
written since it counted: the counts were true of a shorter run, and what it asks for still
follows, or precedes, what the console holds.

`Capture`: `KeptInv` says where each accepted message is, in the table, the writer's hands or
the queue, as long as the writer is there; `OrderInv` that a stream's messages reach the writer
in order, so what a dead writer stored is a prefix; `FinishInv` that the finish is the last
command of all.

`Archive`: `RunInv` says that as long as a run knows of no archive it could not get, each day
from its start to its cutoff is stored or is of an archive still on its list. It begins with the
plan (`PlanFacts`: an archive for every day; `MissingFacts`: none left out but the imported ones,
whose days are stored) and ends with an empty list. What else writes meanwhile are the calls of
dropped requests: `OrphanInv` says that an import among them brings a whole archive, so nothing
they do takes a candle away or leaves a receipt without its days. `AnswerInv` keeps what was
answered; that the row agrees with it holds for a run that began with no such call left.

`Portfolio`: `Balanced` says that cash and the signed cost of the position are what was put in,
realized and paid, and that a flat position costs nothing; the second part is what a fill that
crosses zero needs. Its proof splits on `Adds`, and a fill against the position on whether it
closes all of it.

`RunRecords`: `BooksBalance` says nothing of what is not written yet, so `LogInv` speaks of
`Log`, the ledger followed by the rows the event in hand has still to write. An event appends
to it all at once (`LogPersists`) and a written row leaves it as it is (`LogWrites`). Of the log,
`AccountTells` says that the account is the sum of its fill rows, `RowsTell` that each position
and equity row is the sum of those before it, `LatestTell` that the last rows are of the
account as it is, `OrdersTell` that an order has one terminal state, its last, or rests.
A trade fills several orders: `FillEachBy` carries all four from one order to the next, and
`BookAfterTrade` compares what is left with the orders that were not filled up. When nothing is
left to write the log is the ledger, and `StoredTells` reads the queries of storage off it.
`StrategySeesWholeBuckets` needs `CandlesInv`: the candle in progress is made of every minute
of its bucket from the run's first one to the one before the aggregator's next (`IsShown`).
A minute that is pushed begins the bucket, joins it or closes it; anything else ends the run.
`StartInv` keeps how the times of a run follow from the moment its start read the clock.

### Induction

The library's induction theorems take an operator, which the provers here cannot instantiate.
Where a proof has to count (`Sorted` and `LastRows` in `RunPages`, `Ascending`, the sum
`FillsOf` and the equity rows in `Backtest`, the plan of `Archive`), it uses the set form:
`LeastNatural` derives from the well-foundedness of `<` that a set of naturals has a least
member, and `EveryNatural` that a set with 0 and every successor is all of them. That a
recursive function exists is then a fact about the set of lengths, or days, for which it does
(`SumFacts`, `PlanFacts`, `MissingFacts`); `RecursionExists` says it once for any function
defined from step to step, and serves every fold of `RunRecords` and `RunQueries`. The library's
operators that take an operator (`SelectSeq`, `FoldLeft`, `FlattenSeq`, `MapThenSumSet`) have no
such facts, so where a theorem needs them the model writes its own: `MissingOf`, `Sorted`,
`Selected`, `Total`, `FillEach`, `StartRows`. `EquityStats` states its peak and drawdown over the
rows, and `PersistedSnapshot` puts the stored position into the account with EXCEPT, as the
prover has no definition of `@@`.

### Checked only by TLC

Liveness: `StopEndsRun`, `RestartFinishesRun`, `DisconnectEndsRuns`, `RequestIsAnswered`,
`BusyEnds`, `ViewConverges`, `StoreSettles`. Fairness and ENABLED are out of the prover's reach.
Every invariant and every action property of the passing runs is a theorem.

`RunRecords` assumes of its constants what the code checks or the exchange gives: whole prices
and volumes of every minute up to `LastMinute`, trades at positive prices, a clock that stays
within those minutes, money and fee that are not negative, and orders that fill at least one unit
at a time. A configuration is any integers (levels are unsigned in the code):
`ValidConfiguration` and `ValidGrid` refuse what the code refuses.

## Not modelled

- Order book, Binance client and payload parsing: pure conversions of what the exchange
  sends. That a payload which does not parse is skipped is in `RunRecords!LoseMinute` and
  noted at `MarketFeed`.
- Schema migrations, catalog and candle queries: SQL run once at startup, and plain SELECTs.
  The tables' constraints that matter (status, uniqueness) are guards of the actions.
- Authentication but for whether a browser has a session (`RunStream`), and HTTP routing.
- The web client but for the stream, the lists and the polling of jobs: drawing and forms. Of the
  stream, the start button (its answer is shown and followed as a fetched snapshot is), reloading
  the page, which ends all its connections, and the messages of other runs' connections that
  reach a New Bot page.
- In modelled components: stop's two-second polling, latency and market orders of the live
  executor (no strategy uses them), wall clocks that step back (a refused `ended_at` is one
  of the storage errors `PaperRun` allows), prices in a replay (a candle reaches any of the
  limit orders), storage errors in `RunRecords` (they are `PaperRun`'s subject).
