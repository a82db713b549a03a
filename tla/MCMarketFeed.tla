---------------------------- MODULE MCMarketFeed ----------------------------
(***************************************************************************)
(* One run on a channel of two events.  Runs share the channel and nothing *)
(* else, and only read it, so one run shows what any of them can see: it   *)
(* can lag, be attached in the middle of a connection or between two, and  *)
(* be handed a trade twice.                                                *)
(***************************************************************************)
EXTENDS MarketFeed, TLC

\* Bounds: a run has to miss a trade it did not read while two later ones stay
\* in the channel, hence three trades; a trade on each of two connections takes
\* seven events.
TapeBound == 3
LogBound == 7
=============================================================================
