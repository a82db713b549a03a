----------------------------- MODULE Portfolio -----------------------------
(***************************************************************************)
(* PortfolioState, the account of a run (src/trading/portfolio.rs).        *)
(*                                                                         *)
(* Money is a whole number of units.  The code keeps average_entry_price;  *)
(* here it is the cost of the open position, |quantity| times that average,*)
(* and the share of the cost that a partial close takes out is rounded, as *)
(* the code's floats are.                                                  *)
(***************************************************************************)
EXTENDS Integers

Sign(n) == IF n > 0 THEN 1 ELSE IF n < 0 THEN -1 ELSE 0
Magnitude(n) == IF n < 0 THEN -n ELSE n

\* PortfolioState::new
NewPortfolio(initialCash) ==
  [cash |-> initialCash, quantity |-> 0, cost |-> 0, realized |-> 0, fees |-> 0, mark |-> 0]

\* PortfolioState::mark
MarkPortfolio(p, price) == [p EXCEPT !.mark = price]

SignedDelta(side, quantity) == IF side = "buy" THEN quantity ELSE -quantity

\* The position is flat, or the fill adds to it.
Adds(p, delta) == p.quantity = 0 \/ Sign(p.quantity) = Sign(delta)

\* How much of the position a fill against it closes, and the cost that goes with it.
ClosedQuantity(p, quantity) ==
  IF Magnitude(p.quantity) <= quantity THEN Magnitude(p.quantity) ELSE quantity
ReleasedCost(p, closed) ==
  IF closed = Magnitude(p.quantity) THEN p.cost
  ELSE (p.cost * closed) \div Magnitude(p.quantity)

\* The cash, fee and mark of a fill, whatever it does to the position.
Settle(p, side, quantity, price, fee) ==
  [p EXCEPT !.cash = @ - SignedDelta(side, quantity) * price - fee,
            !.quantity = @ + SignedDelta(side, quantity),
            !.fees = @ + fee,
            !.mark = price]

\* Defect: a fill that crosses zero keeps the average of the position it closed.
ApplyFillOldAverage(p, side, quantity, price, fee) ==
  LET settled == Settle(p, side, quantity, price, fee)
      closed == ClosedQuantity(p, quantity)
      released == ReleasedCost(p, closed)
  IN IF Adds(p, SignedDelta(side, quantity))
     THEN [settled EXCEPT !.cost = @ + quantity * price]
     ELSE [settled EXCEPT
             !.realized = @ + Sign(p.quantity) * (closed * price - released),
             !.cost = IF closed < quantity
                      THEN (@ * (quantity - closed)) \div closed
                      ELSE @ - released]

\* PortfolioState::apply_fill.  A fill on the side of the position raises its cost.  One
\* against it realizes the difference on what it closes; what is left of it after it has
\* closed everything opens a position on the other side at its own price.
ApplyFill(p, side, quantity, price, fee) ==
  LET settled == Settle(p, side, quantity, price, fee)
      closed == ClosedQuantity(p, quantity)
      released == ReleasedCost(p, closed)
  IN IF Adds(p, SignedDelta(side, quantity))
     THEN [settled EXCEPT !.cost = @ + quantity * price]
     ELSE [settled EXCEPT
             !.realized = @ + Sign(p.quantity) * (closed * price - released),
             !.cost = @ - released + (quantity - closed) * price]

\* PortfolioState::view
PortfolioView(p) ==
  [cash |-> p.cash, quantity |-> p.quantity, cost |-> p.cost, realized |-> p.realized,
   unrealized |-> p.quantity * p.mark - Sign(p.quantity) * p.cost,
   fees |-> p.fees, equity |-> p.cash + p.quantity * p.mark]

\* A view accounts for every unit: what was put in, what was won and lost, what was paid.
ViewBalances(view, initialCash) ==
  view.equity = initialCash + view.realized + view.unrealized - view.fees
=============================================================================
