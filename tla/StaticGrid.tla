---------------------------- MODULE StaticGrid ----------------------------
(***************************************************************************)
(* The static grid strategy (src/trading/strategies/static_grid.rs): the   *)
(* one strategy a Live-Paper run can have.  A configuration is a record    *)
(* [anchor, fixed, spacing, levels, quantity]; spacing is in parts of      *)
(* Whole, the code's 10 000 basis points.                                  *)
(***************************************************************************)
EXTENDS Integers

CONSTANT Whole  \* parts of one: 10_000

ASSUME GridAssumption == Whole \in Nat \ {0}

\* StaticGridConfig::validate
ValidGrid(config) ==
  /\ config.spacing \in 1..(Whole - 1)
  /\ config.levels > 0
  /\ config.quantity > 0
  /\ config.anchor = "fixed" => config.fixed > 0

\* anchor_price: the close of the completed candle before the run, or the price given.
AnchorPrice(config, previousClose) ==
  IF config.anchor = "previous_close" THEN previousClose ELSE config.fixed

LevelPrice(side, anchor, offset) ==
  IF side = "buy" THEN (anchor * (Whole - offset)) \div Whole
  ELSE (anchor * (Whole + offset)) \div Whole

\* on_start refuses a grid whose lowest buy is not above zero, and emits nothing.
GridFits(config, previousClose) ==
  \A level \in 1..config.levels :
    LevelPrice("buy", AnchorPrice(config, previousClose), config.spacing * level) > 0

\* The intents of on_start: a buy and a sell for each level, from the anchor outwards.
GridIntents(config, previousClose) ==
  [i \in 1..(2 * config.levels) |->
     LET level == (i + 1) \div 2
         side == IF i % 2 = 1 THEN "buy" ELSE "sell"
     IN [side |-> side, level |-> level, quantity |-> config.quantity,
         price |-> LevelPrice(side, AnchorPrice(config, previousClose), config.spacing * level)]]
=============================================================================
