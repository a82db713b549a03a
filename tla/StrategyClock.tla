--------------------------- MODULE StrategyClock ---------------------------
(***************************************************************************)
(* The times of a Live-Paper run and its ReplayAggregator (src/paper.rs):  *)
(* which candle the grid starts from, which minute is the first that may   *)
(* fill it, and how minutes become the strategy's candles.  Base is the    *)
(* length of a minute and Interval that of a replay candle; a run starts   *)
(* anywhere in a minute.                                                   *)
(***************************************************************************)
EXTENDS Integers

CONSTANTS Base, Interval  \* BASE_INTERVAL_MS, TradingInterval::duration_ms

ASSUME ClockAssumption ==
  /\ Base \in Nat \ {0}
  /\ Interval \in Nat \ {0}
  /\ Interval % Base = 0

Floor(t, unit) == (t \div unit) * unit

\* TradingInterval::bucket_open_ms
BucketOpen(t) == Floor(t, Interval)

\* first_full_base_open_at_or_after
FirstFullBaseOpen(t) ==
  IF t = Floor(t, Base) THEN Floor(t, Base) ELSE Floor(t, Base) + Base

NoCandle == [openTime |-> -1]

\* previous_completed_replay_candle: the closed candle that ends at the boundary.
PreviousCompleted(candles, boundary) ==
  {c \in candles : c.closed /\ c.openTime = boundary - Interval /\ c.closeTime < boundary}

\* ReplayAggregator::new
NewAggregator(start) == [expected |-> start, current |-> NoCandle]

\* A minute merged into the candle of its bucket.
Merge(current, candle) ==
  [current EXCEPT !.closeTime = candle.closeTime,
                  !.high = IF candle.high > @ THEN candle.high ELSE @,
                  !.low = IF candle.low < @ THEN candle.low ELSE @,
                  !.close = candle.close,
                  !.volume = @ + candle.volume]

\* Defect: a minute later than the expected one is accepted.
PushableGap(aggregator, candle) ==
  /\ candle.closed
  /\ candle.openTime >= aggregator.expected
  /\ candle.openTime % Base = 0
  /\ aggregator.current # NoCandle =>
       aggregator.current.openTime = BucketOpen(candle.openTime)

\* What push accepts: the expected minute, closed and aligned, of the bucket in progress.
Pushable(aggregator, candle) ==
  /\ candle.closed
  /\ candle.openTime = aggregator.expected
  /\ candle.openTime % Base = 0
  /\ aggregator.current # NoCandle =>
       aggregator.current.openTime = BucketOpen(candle.openTime)

\* The candle in progress once the minute is in it.  The first bucket of a run begins with
\* the run's first minute, wherever in the bucket that is.
Grown(aggregator, candle) ==
  IF aggregator.current = NoCandle
  THEN [candle EXCEPT !.openTime = BucketOpen(candle.openTime)]
  ELSE Merge(aggregator.current, candle)

\* The minute is the last of its bucket.
Completes(candle) == candle.openTime = BucketOpen(candle.openTime) + Interval - Base

\* ReplayAggregator::push, for a candle it accepts.
Push(aggregator, candle) ==
  [expected |-> aggregator.expected + Base,
   current |-> IF Completes(candle) THEN NoCandle ELSE Grown(aggregator, candle)]
=============================================================================
