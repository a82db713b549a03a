----------------------------- MODULE MCBacktest -----------------------------
EXTENDS Backtest

\* The first order is a limit order, the second a market order: both fill in the same
\* candle, at different times.
MCMarket == {2}
=============================================================================
