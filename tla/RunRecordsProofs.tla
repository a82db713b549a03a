-------------------------- MODULE RunRecordsProofs --------------------------
(***************************************************************************)
(* What a run records and what its strategy is shown (RunRecords), for     *)
(* every configuration, amount, sequence of trades and minutes: no fill    *)
(* and no mark loses or makes a unit of money (Portfolio), and rows,       *)
(* account, book and candles agree (src/trading/portfolio.rs,              *)
(* src/paper.rs, src/storage/runs/read.rs).                                *)
(***************************************************************************)
EXTENDS RunRecords, FiniteSetTheorems, SequenceTheorems, NaturalsInduction,
        WellFoundedInduction, TLAPS

-----------------------------------------------------------------------------
(* The account *)

Account ==
  [cash : Int, quantity : Int, cost : Nat, realized : Int, fees : Nat, mark : Nat]

\* An account in which every unit is accounted for: cash and the cost of what is held are
\* what was put in, what was realized and what was paid.  A flat position costs nothing.
Balanced(p, initialCash) ==
  /\ p.cash + Sign(p.quantity) * p.cost = initialCash + p.realized - p.fees
  /\ p.quantity = 0 => p.cost = 0

\* A product grows with its factor: the shares of the cost that closes take out
\* (PortfolioState::apply_fill) are compared with it.
LEMMA ProductMonotone ==
  ASSUME NEW a \in Nat, NEW b \in Nat, NEW c \in Nat, b <= c
  PROVE  a * b \in Nat /\ a * b <= a * c
<1>1. a * b \in Nat /\ a * (c - b) \in Nat
  OBVIOUS
<1>2. a * c = a * b + a * (c - b)
  OBVIOUS
<1> QED
  BY <1>1, <1>2

\* A quotient rounded down is no larger than what it is a share of: apply_fill's share of
\* the cost is divided by the size of the position.
LEMMA QuotientBound ==
  ASSUME NEW a \in Nat, NEW b \in Nat, NEW c \in Nat \ {0}, b <= a * c
  PROVE  b \div c \in 0..a
<1>1. b \div c \in Nat /\ c * (b \div c) <= b
  OBVIOUS
<1>2. CASE b \div c > a
  <2>1. c * (a + 1) <= c * (b \div c)
    BY <1>1, <1>2, ProductMonotone
  <2>2. c * (a + 1) = a * c + c
    OBVIOUS
  <2> QED
    BY <1>1, <2>1, <2>2
<1> QED
  BY <1>1, <1>2

\* The part of the cost that a close takes out is at most the cost there is.
LEMMA ReleasedCostIsPart ==
  ASSUME NEW p \in Account, NEW closed \in Nat,
         p.quantity # 0, closed <= Magnitude(p.quantity)
  PROVE  ReleasedCost(p, closed) \in 0..p.cost
<1> DEFINE size == Magnitude(p.quantity)
<1>1. size \in Nat \ {0} /\ p.cost \in Nat
  BY DEF Account, Magnitude
<1>2. CASE closed = size
  BY <1>1, <1>2 DEF ReleasedCost
<1>3. CASE closed # size
  <2> HIDE DEF size
  <2>1. p.cost * closed \in Nat /\ p.cost * closed <= p.cost * size
    BY <1>1, ProductMonotone DEF size
  <2>2. (p.cost * closed) \div size \in 0..p.cost
    BY <1>1, <2>1, QuotientBound
  <2> QED
    BY <1>3, <2>2 DEF ReleasedCost, size
<1> QED
  BY <1>2, <1>3

\* A fill leaves a balanced account balanced, whether it opens, adds to, reduces, closes
\* or crosses the position (PortfolioState::apply_fill).
THEOREM FillKeepsBalance ==
  ASSUME NEW initialCash \in Int, NEW p \in Account, Balanced(p, initialCash),
         NEW side \in {"buy", "sell"}, NEW quantity \in Nat \ {0},
         NEW price \in Nat, NEW fee \in Nat
  PROVE  /\ ApplyFill(p, side, quantity, price, fee) \in Account
         /\ Balanced(ApplyFill(p, side, quantity, price, fee), initialCash)
<1> DEFINE delta == SignedDelta(side, quantity)
           closed == ClosedQuantity(p, quantity)
           released == ReleasedCost(p, closed)
           after == ApplyFill(p, side, quantity, price, fee)
           notional == quantity * price
           held == Sign(p.quantity) * p.cost
<1>1. /\ p.cash \in Int /\ p.quantity \in Int /\ p.cost \in Nat /\ held \in Int
      /\ p.realized \in Int /\ p.fees \in Nat
      /\ p = [cash |-> p.cash, quantity |-> p.quantity, cost |-> p.cost,
              realized |-> p.realized, fees |-> p.fees, mark |-> p.mark]
  BY DEF Account, Sign
<1>2. notional \in Nat
  OBVIOUS
<1>3. /\ delta \in {quantity, -quantity} /\ delta * price \in Int
      /\ delta * price = IF delta = quantity THEN notional ELSE -notional
  BY DEF SignedDelta
<1>4. ASSUME NEW gain \in Int, after.cash = p.cash - delta * price - fee,
             after.realized = p.realized + gain, after.fees = p.fees + fee,
             Sign(after.quantity) * after.cost = held + delta * price + gain,
             after.quantity = 0 => after.cost = 0
      PROVE  Balanced(after, initialCash)
  <2> DEFINE cash == p.cash
             realized == p.realized
             fees == p.fees
             spent == delta * price
  <2>1. /\ cash \in Int /\ realized \in Int /\ fees \in Int /\ spent \in Int
        /\ cash + held = initialCash + realized - fees
    BY <1>1, <1>3 DEF Balanced
  <2>2. cash - spent - fee + (held + spent + gain)
          = initialCash + (realized + gain) - (fees + fee)
    <3> HIDE DEF cash, realized, fees, spent, held
    <3>1. held \in Int
      BY <1>1
    <3> QED
      BY <2>1, <3>1
  <2> HIDE DEF after
  <2> QED
    BY <1>4, <2>2 DEF Balanced
<1>5. CASE Adds(p, delta)
  <2>1. after = [cash |-> p.cash - delta * price - fee, quantity |-> p.quantity + delta,
                 cost |-> p.cost + notional, realized |-> p.realized,
                 fees |-> p.fees + fee, mark |-> price]
    BY <1>1, <1>5 DEF ApplyFill, Settle
  <2>2. after \in Account
    BY <1>1, <1>2, <1>3, <2>1 DEF Account
  <2>3. /\ Sign(p.quantity + delta) = Sign(delta) /\ p.quantity + delta # 0
        /\ p.quantity = 0 \/ Sign(p.quantity) = Sign(delta)
    BY <1>1, <1>3, <1>5 DEF Adds, Sign
  <2>4. held = Sign(delta) * p.cost
    BY <1>1, <1>3, <2>3 DEF Sign, Balanced
  <2>5. Sign(delta) * (p.cost + notional) = held + delta * price
    <3>1. CASE delta = quantity
      BY <1>1, <1>2, <1>3, <2>4, <3>1 DEF Sign
    <3>2. CASE delta = -quantity
      BY <1>1, <1>2, <1>3, <2>4, <3>2 DEF Sign
    <3> QED
      BY <1>3, <3>1, <3>2
  <2>6. Sign(after.quantity) * after.cost = held + delta * price + 0
    BY <1>1, <1>3, <2>1, <2>3, <2>5
  <2>7. Balanced(after, initialCash)
    BY <1>1, <1>4, <2>1, <2>3, <2>6
  <2> QED
    BY <2>2, <2>7
<1>6. CASE ~Adds(p, delta)
  <2> DEFINE gain == Sign(p.quantity) * (closed * price - released)
             opened == (quantity - closed) * price
  <2>1. /\ p.quantity # 0 /\ delta = -Sign(p.quantity) * quantity
        /\ Sign(p.quantity) \in {1, -1}
    BY <1>1, <1>3, <1>6 DEF Adds, Sign
  <2>2. /\ closed \in Nat \ {0} /\ closed <= quantity
        /\ closed <= Magnitude(p.quantity)
    BY <1>1, <2>1 DEF ClosedQuantity, Magnitude
  <2>3. released \in 0..p.cost
    BY <2>1, <2>2, ReleasedCostIsPart
  <2>4. /\ closed * price \in Nat /\ opened \in Nat
        /\ closed * price + opened = notional
    BY <2>2
  <2>5. delta * price = -Sign(p.quantity) * notional /\ gain \in Int
    BY <1>1, <1>3, <2>1, <2>3, <2>4
  <2>6. after = [cash |-> p.cash - delta * price - fee, quantity |-> p.quantity + delta,
                 cost |-> p.cost - released + opened, realized |-> p.realized + gain,
                 fees |-> p.fees + fee, mark |-> price]
    BY <1>1, <1>6 DEF ApplyFill, Settle
  <2>7. after \in Account
    BY <1>1, <1>2, <1>3, <2>1, <2>3, <2>4, <2>5, <2>6 DEF Account
  <2>8. /\ Sign(p.quantity + delta) * (p.cost - released + opened)
             = Sign(p.quantity) * (p.cost - released) - Sign(p.quantity) * opened
        /\ p.quantity + delta = 0 => p.cost - released + opened = 0
    <3>1. CASE closed = Magnitude(p.quantity)
      <4>1. released = p.cost
        BY <3>1 DEF ReleasedCost
      <4>2. \/ /\ quantity = closed /\ opened = 0
               /\ Sign(p.quantity + delta) = 0
            \/ /\ quantity # closed /\ p.quantity + delta # 0
               /\ Sign(p.quantity + delta) = -Sign(p.quantity)
        BY <1>1, <2>1, <2>2, <3>1 DEF Sign, Magnitude
      <4> QED
        BY <1>1, <2>1, <2>4, <4>1, <4>2
    <3>2. CASE closed # Magnitude(p.quantity)
      <4>1. closed = quantity /\ opened = 0
        BY <3>2 DEF ClosedQuantity
      <4>2. Sign(p.quantity + delta) = Sign(p.quantity) /\ p.quantity + delta # 0
        BY <1>1, <2>1, <2>2, <3>2, <4>1 DEF Sign, Magnitude
      <4> QED
        BY <1>1, <2>1, <2>3, <4>1, <4>2
    <3> QED
      BY <3>1, <3>2
  <2>9. Sign(p.quantity) * (p.cost - released) - Sign(p.quantity) * opened
          = held + delta * price + gain
    <3>1. CASE Sign(p.quantity) = 1
      BY <1>1, <1>2, <2>3, <2>4, <2>5, <3>1
    <3>2. CASE Sign(p.quantity) = -1
      BY <1>1, <1>2, <2>3, <2>4, <2>5, <3>2
    <3> QED
      BY <2>1, <3>1, <3>2
  <2>10. Balanced(after, initialCash)
    <3>1. Sign(after.quantity) * after.cost = held + delta * price + gain
      BY <2>6, <2>8, <2>9
    <3> HIDE DEF gain, held, closed, opened, released
    <3> QED
      BY <1>4, <2>5, <2>6, <2>8, <3>1
  <2> QED
    BY <2>7, <2>10
<1> QED
  BY <1>5, <1>6

\* Marking changes nothing that was put in, realized or paid (PortfolioState::mark).
THEOREM MarkKeepsBalance ==
  ASSUME NEW initialCash \in Int, NEW p \in Account, Balanced(p, initialCash),
         NEW price \in Nat
  PROVE  /\ MarkPortfolio(p, price) \in Account
         /\ Balanced(MarkPortfolio(p, price), initialCash)
BY DEF MarkPortfolio, Account, Balanced

\* A new account is balanced (PortfolioState::new).
THEOREM NewIsBalanced ==
  ASSUME NEW initialCash \in Int
  PROVE  /\ NewPortfolio(initialCash) \in Account
         /\ Balanced(NewPortfolio(initialCash), initialCash)
BY DEF NewPortfolio, Account, Balanced, Sign

\* The view of a balanced account shows as equity what was put in, what was won and lost,
\* and what was paid, whatever the mark (PortfolioState::view): the identity that
\* BooksBalance asks of every position and equity row.
THEOREM ViewOfBalancedBalances ==
  ASSUME NEW initialCash \in Int, NEW p \in Account, Balanced(p, initialCash)
  PROVE  ViewBalances(PortfolioView(p), initialCash)
<1> DEFINE cash == p.cash
           worth == p.quantity * p.mark
           held == Sign(p.quantity) * p.cost
           realized == p.realized
           fees == p.fees
<1>1. /\ cash \in Int /\ worth \in Int /\ held \in Int /\ realized \in Int /\ fees \in Int
      /\ cash + held = initialCash + realized - fees
  BY DEF Account, Sign, Balanced
<1>2. PortfolioView(p).equity = cash + worth
      /\ PortfolioView(p).realized = realized
      /\ PortfolioView(p).unrealized = worth - held
      /\ PortfolioView(p).fees = fees
  BY DEF PortfolioView
<1>3. cash + worth = initialCash + realized + (worth - held) - fees
  <2> HIDE DEF cash, worth, held, realized, fees
  <2> QED
    BY <1>1
<1> QED
  BY <1>2, <1>3 DEF ViewBalances

-----------------------------------------------------------------------------
(* Induction and recursion *)

\* A set of naturals that is not empty has a least member.
LEMMA LeastNatural ==
  ASSUME NEW T \in SUBSET Nat, T # {}
  PROVE  \E n \in T : \A m \in T : n <= m
<1> DEFINE Less == {pair \in Nat \X Nat : pair[1] < pair[2]}
<1>1. IsWellFoundedOn(Less, Nat)
  BY NatLessThanWellFounded DEF OpToRel
<1>2. \A x, y \in Nat : <<y, x>> \in Less <=> y < x
  OBVIOUS
<1> HIDE DEF Less
<1>3. PICK n \in T : \A m \in T : ~(<<m, n>> \in Less)
  BY <1>1, WFMin
<1>4. ASSUME NEW m \in T
      PROVE  n <= m
  <2>1. ~(m < n)
    BY <1>2, <1>3
  <2> QED
    BY <2>1
<1> QED
  BY <1>4

\* Induction: a set that holds 0 and every successor of its members holds every natural.
LEMMA EveryNatural ==
  ASSUME NEW T, 0 \in T, \A n \in Nat : n \in T => n + 1 \in T
  PROVE  \A n \in Nat : n \in T
<1> SUFFICES ASSUME Nat \ T # {} PROVE FALSE
  OBVIOUS
<1>1. PICK n \in Nat \ T : \A m \in Nat \ T : n <= m
  BY LeastNatural
<1>2. n # 0 /\ n - 1 \in Nat /\ n - 1 \in T /\ n = (n - 1) + 1
  BY <1>1
<1> QED
  BY <1>1, <1>2

\* Induction up to a bound.
LEMMA EveryUpTo ==
  ASSUME NEW L \in Nat, NEW T, 0 \in T, \A n \in 0..(L - 1) : n \in T => n + 1 \in T
  PROVE  \A n \in 0..L : n \in T
<1> DEFINE U == {n \in Nat : n <= L => n \in T}
<1>1. 0 \in U
  OBVIOUS
<1>2. ASSUME NEW n \in Nat, n \in U
      PROVE  n + 1 \in U
  <2>1. CASE n + 1 <= L
    <3>1. n \in 0..(L - 1) /\ n \in T
      BY <1>2, <2>1
    <3> QED
      BY <3>1
  <2>2. CASE ~(n + 1 <= L)
    BY <2>2
  <2> QED
    BY <2>1, <2>2
<1>3. \A n \in Nat : n \in U
  <2> HIDE DEF U
  <2> QED
    BY <1>1, <1>2, EveryNatural
<1> QED
  BY <1>3

Steps(L, V) == [(1..L) \X V -> V]
Follows(f, L, base, step) == f[0] = base /\ \A i \in 1..L : f[i] = step[<<i, f[i - 1]>>]

\* A function defined step by step from 0 exists.
LEMMA RecursionExists ==
  ASSUME NEW L \in Nat, NEW V, NEW base \in V, NEW step \in Steps(L, V)
  PROVE  \E f \in [0..L -> V] : Follows(f, L, base, step)
<1> USE DEF Steps
<1> DEFINE Is(f, n) == f[0] = base /\ \A i \in 1..n : f[i] = step[<<i, f[i - 1]>>]
           T == {n \in 0..L : \E f \in [0..n -> V] : Is(f, n)}
<1>1. 0 \in T
  <2> DEFINE f == [i \in 0..0 |-> base]
  <2>1. f \in [0..0 -> V] /\ f[0] = base /\ 1..0 = {}
    OBVIOUS
  <2>2. Is(f, 0)
    BY <2>1
  <2> HIDE DEF f, Is
  <2> QED
    BY <2>1, <2>2
<1>2. ASSUME NEW n \in 0..(L - 1), n \in T
      PROVE  n + 1 \in T
  <2>1. PICK f \in [0..n -> V] : Is(f, n)
    BY <1>2
  <2> DEFINE g == [i \in 0..(n + 1) |-> IF i = n + 1 THEN step[<<n + 1, f[n]>>] ELSE f[i]]
  <2>2. n + 1 \in 1..L /\ n \in 0..n /\ f[n] \in V
    OBVIOUS
  <2>3. step[<<n + 1, f[n]>>] \in V
    BY <2>2
  <2>4. g \in [0..(n + 1) -> V]
    BY <2>3
  <2>5. g[0] = base
    BY <2>1
  <2>6. ASSUME NEW i \in 1..(n + 1)
        PROVE  g[i] = step[<<i, g[i - 1]>>]
    <3>1. i - 1 \in 0..n /\ g[i - 1] = f[i - 1]
      OBVIOUS
    <3>2. CASE i = n + 1
      <4>1. g[n + 1] = step[<<n + 1, f[n]>>] /\ i - 1 = n
        BY <3>2
      <4> QED
        BY <3>1, <3>2, <4>1
    <3>3. CASE i \in 1..n
      <4>1. g[i] = f[i]
        BY <3>3
      <4> QED
        BY <2>1, <3>1, <3>3, <4>1
    <3> QED
      BY <3>2, <3>3
  <2> HIDE DEF g
  <2>7. Is(g, n + 1)
    BY <2>5, <2>6
  <2>8. n + 1 \in 0..L
    OBVIOUS
  <2> HIDE DEF Is
  <2> QED
    BY <2>4, <2>7, <2>8
<1>3. L \in T
  <2> HIDE DEF T
  <2>1. \A n \in 0..L : n \in T
    BY <1>1, <1>2, EveryUpTo
  <2> QED
    BY <2>1
<1> QED
  BY <1>3 DEF Follows

-----------------------------------------------------------------------------
(* Rows selected from rows *)

IsFound(found, seq, wanted) ==
  found = [i \in 0..Len(seq) |->
             IF i = 0 THEN <<>>
             ELSE IF seq[i] \in wanted THEN Append(found[i - 1], seq[i]) ELSE found[i - 1]]

\* The function that Selected is defined by exists.
LEMMA SelectedBy ==
  ASSUME NEW V, NEW seq \in Seq(V), NEW wanted
  PROVE  \E found \in [0..Len(seq) -> Seq(V)] :
           IsFound(found, seq, wanted) /\ Selected(seq, wanted) = found[Len(seq)]
<1> DEFINE L == Len(seq)
           step == [p \in (1..L) \X Seq(V) |->
                      IF seq[p[1]] \in wanted THEN Append(p[2], seq[p[1]]) ELSE p[2]]
<1>1. L \in Nat /\ \A i \in 1..L : seq[i] \in V
  BY LenProperties, ElementOfSeq
<1>2. step \in [(1..L) \X Seq(V) -> Seq(V)]
  <2> SUFFICES ASSUME NEW i \in 1..L, NEW s \in Seq(V)
               PROVE  (IF seq[i] \in wanted THEN Append(s, seq[i]) ELSE s) \in Seq(V)
    OBVIOUS
  <2> QED
    BY <1>1, AppendProperties
<1>3. <<>> \in Seq(V)
  BY EmptySeq
<1>4. \A i \in 1..L : \A s \in Seq(V) :
        step[<<i, s>>] = IF seq[i] \in wanted THEN Append(s, seq[i]) ELSE s
  OBVIOUS
<1> HIDE DEF step, L
<1>5. PICK f \in [0..L -> Seq(V)] :
        f[0] = <<>> /\ \A i \in 1..L : f[i] = step[<<i, f[i - 1]>>]
  <2>1. step \in Steps(L, Seq(V))
    BY <1>2 DEF Steps
  <2>2. \E f \in [0..L -> Seq(V)] : Follows(f, L, <<>>, step)
    BY <1>1, <1>3, <2>1, RecursionExists
  <2> QED
    BY <2>2 DEF Follows
<1>6. \A i \in 1..L : f[i - 1] \in Seq(V)
  BY <1>1
<1>7. \A i \in 0..L : f[i] = IF i = 0 THEN <<>>
                             ELSE IF seq[i] \in wanted THEN Append(f[i - 1], seq[i]) ELSE f[i - 1]
  <2> SUFFICES ASSUME NEW i \in 0..L, i # 0
               PROVE  f[i] = IF seq[i] \in wanted THEN Append(f[i - 1], seq[i]) ELSE f[i - 1]
    BY <1>5
  <2>1. i \in 1..L
    BY <1>1
  <2> QED
    BY <1>4, <1>5, <1>6, <2>1
<1>8. IsFound(f, seq, wanted)
  BY <1>7 DEF IsFound, L
<1> DEFINE g == CHOOSE found : IsFound(found, seq, wanted)
<1>9. IsFound(g, seq, wanted)
  BY <1>8
<1>10. Selected(seq, wanted) = g[Len(seq)]
  BY DEF Selected, IsFound
<1>11. \A i \in 0..L : g[i] \in Seq(V)
  <2> DEFINE T == {i \in 0..L : g[i] \in Seq(V)}
  <2>0. /\ L \in Nat /\ 0 \in 0..L
        /\ g = [i \in 0..L |->
                  IF i = 0 THEN <<>>
                  ELSE IF seq[i] \in wanted THEN Append(g[i - 1], seq[i]) ELSE g[i - 1]]
    <3>1. L \in Nat /\ 0 \in 0..L
      BY <1>1
    <3> QED
      BY <3>1, <1>9 DEF IsFound, L
  <2> HIDE DEF g
  <2>1. 0 \in T
    BY <1>3, <2>0
  <2>2. ASSUME NEW n \in 0..(L - 1), n \in T
        PROVE  n + 1 \in T
    <3>1. n + 1 \in 1..L /\ n + 1 # 0 /\ n + 1 \in 0..L /\ (n + 1) - 1 = n
      BY <1>1
    <3>2. g[n + 1] = IF seq[n + 1] \in wanted THEN Append(g[n], seq[n + 1]) ELSE g[n]
      BY <2>0, <3>1
    <3>i. g[n] \in Seq(V) /\ seq[n + 1] \in V
      BY <1>1, <2>2, <3>1
    <3>a. Append(g[n], seq[n + 1]) \in Seq(V)
      BY <3>i, AppendProperties
    <3>3. g[n + 1] \in Seq(V)
      BY <3>2, <3>i, <3>a
    <3> QED
      BY <3>1, <3>3
  <2> HIDE DEF T
  <2>3. \A i \in 0..L : i \in T
    BY <1>1, <2>1, <2>2, EveryUpTo
  <2> QED
    BY <2>3 DEF T
<1>12. g \in [0..L -> Seq(V)]
  BY <1>9, <1>11 DEF IsFound, L
<1> QED
  BY <1>9, <1>10, <1>12 DEF L

\* What is found in a prefix does not depend on what follows it.
LEMMA FoundAgree ==
  ASSUME NEW seq, NEW other, NEW wanted, NEW also, NEW f, NEW g,
         Len(seq) \in Nat, Len(other) \in Nat,
         IsFound(f, seq, wanted), IsFound(g, other, also),
         NEW L \in Nat, L <= Len(seq), L <= Len(other),
         \A i \in 1..L : seq[i] = other[i] /\ (seq[i] \in wanted <=> other[i] \in also)
  PROVE  \A i \in 0..L : f[i] = g[i]
<1> DEFINE T == {i \in 0..L : f[i] = g[i]}
<1>1. 0 \in T
  BY DEF IsFound
<1>2. ASSUME NEW n \in 0..(L - 1), n \in T
      PROVE  n + 1 \in T
  <2>1. /\ n + 1 \in 1..L /\ n + 1 # 0 /\ (n + 1) - 1 = n
        /\ n + 1 \in 0..Len(seq) /\ n + 1 \in 0..Len(other)
    OBVIOUS
  <2>2. f[n + 1] = IF seq[n + 1] \in wanted THEN Append(f[n], seq[n + 1]) ELSE f[n]
    BY <2>1 DEF IsFound
  <2>3. g[n + 1] = IF other[n + 1] \in also THEN Append(g[n], other[n + 1]) ELSE g[n]
    BY <2>1 DEF IsFound
  <2> QED
    BY <1>2, <2>1, <2>2, <2>3
<1> HIDE DEF T
<1>3. \A i \in 0..L : i \in T
  BY <1>1, <1>2, EveryUpTo
<1> QED
  BY <1>3 DEF T

\* Selecting by sets that have the same members of the sequence is the same.
LEMMA SelectedSame ==
  ASSUME NEW V, NEW seq \in Seq(V), NEW wanted, NEW also,
         \A i \in DOMAIN seq : seq[i] \in wanted <=> seq[i] \in also
  PROVE  Selected(seq, wanted) = Selected(seq, also)
<1>1. Len(seq) \in Nat /\ DOMAIN seq = 1..Len(seq)
  BY LenProperties
<1>2. PICK f : IsFound(f, seq, wanted) /\ Selected(seq, wanted) = f[Len(seq)]
  BY SelectedBy
<1>3. PICK g : IsFound(g, seq, also) /\ Selected(seq, also) = g[Len(seq)]
  BY SelectedBy
<1>4. \A i \in 0..Len(seq) : f[i] = g[i]
  BY <1>1, <1>2, <1>3, FoundAgree
<1> QED
  BY <1>1, <1>2, <1>3, <1>4

\* Selecting from nothing, and from a sequence that grew by one.
LEMMA SelectedGrows ==
  /\ \A wanted : Selected(<<>>, wanted) = <<>>
  /\ \A V, wanted : \A seq \in Seq(V) : \A e \in V :
       /\ Selected(seq, wanted) \in Seq(V)
       /\ Selected(Append(seq, e), wanted) =
            IF e \in wanted THEN Append(Selected(seq, wanted), e) ELSE Selected(seq, wanted)
<1>1. ASSUME NEW wanted
      PROVE  Selected(<<>>, wanted) = <<>>
  <2>1. <<>> \in Seq({}) /\ Len(<<>>) = 0
    BY EmptySeq
  <2>2. PICK f : IsFound(f, <<>>, wanted) /\ Selected(<<>>, wanted) = f[0]
    BY <2>1, SelectedBy
  <2>3. 0 \in 0..0
    OBVIOUS
  <2> QED
    BY <2>1, <2>2, <2>3 DEF IsFound
<1>2. ASSUME NEW V, NEW wanted, NEW seq \in Seq(V), NEW e \in V
      PROVE  /\ Selected(seq, wanted) \in Seq(V)
             /\ Selected(Append(seq, e), wanted) =
                  IF e \in wanted THEN Append(Selected(seq, wanted), e) ELSE Selected(seq, wanted)
  <2> DEFINE more == Append(seq, e)
             L == Len(seq)
  <2>1. /\ L \in Nat /\ more \in Seq(V) /\ Len(more) = L + 1
        /\ more[L + 1] = e /\ \A i \in 1..L : more[i] = seq[i]
    BY AppendProperties, LenProperties
  <2> HIDE DEF more, L
  <2>2. PICK f : IsFound(f, seq, wanted) /\ Selected(seq, wanted) = f[L] /\ f[L] \in Seq(V)
    <3>1. \E f \in [0..Len(seq) -> Seq(V)] :
            IsFound(f, seq, wanted) /\ Selected(seq, wanted) = f[Len(seq)]
      BY SelectedBy
    <3>2. Len(seq) \in 0..Len(seq)
      BY <2>1 DEF L
    <3> QED
      BY <3>1, <3>2 DEF L
  <2>3. PICK g : IsFound(g, more, wanted) /\ Selected(more, wanted) = g[L + 1]
    BY <2>1, SelectedBy
  <2>4. \A i \in 0..L : f[i] = g[i]
    <3>1. L = Len(seq) /\ L <= Len(more) /\ Len(more) \in Nat
      BY <2>1 DEF L
    <3> QED
      <4>1. \A i \in 1..L : seq[i] = more[i] /\ (seq[i] \in wanted <=> more[i] \in wanted)
        BY <2>1
      <4>2. Len(seq) \in Nat /\ L \in Nat /\ L <= Len(seq)
        BY <2>1, <3>1
      <4> QED
        BY <2>2, <2>3, <3>1, <4>1, <4>2, FoundAgree
  <2>5. /\ L + 1 \in 0..Len(more) /\ L + 1 # 0 /\ (L + 1) - 1 = L /\ L \in 0..L
    BY <2>1
  <2>6. g[L + 1] = IF more[L + 1] \in wanted THEN Append(g[L], more[L + 1]) ELSE g[L]
    BY <2>3, <2>5 DEF IsFound
  <2> QED
    BY <2>1, <2>2, <2>3, <2>4, <2>5, <2>6 DEF more
<1> QED
  BY <1>1, <1>2

\* The places of the members selected, in order: all places of members that are wanted.
ArePlaces(at, chosen, seq, bound, wanted) ==
  /\ at \in [1..Len(chosen) -> 1..bound]
  /\ \A j \in 1..Len(chosen) : chosen[j] = seq[at[j]] /\ seq[at[j]] \in wanted
  /\ \A j, k \in 1..Len(chosen) : j < k => at[j] < at[k]
  /\ \A i \in 1..bound : seq[i] \in wanted => \E j \in 1..Len(chosen) : at[j] = i

\* What is selected are the wanted members, each once and in the order of the sequence.
LEMMA SelectedFacts ==
  ASSUME NEW V, NEW seq \in Seq(V), NEW wanted
  PROVE  /\ Selected(seq, wanted) \in Seq(V)
         /\ \E at : ArePlaces(at, Selected(seq, wanted), seq, Len(seq), wanted)
<1> DEFINE L == Len(seq)
<1>1. L \in Nat
  BY LenProperties
<1>2. PICK f \in [0..L -> Seq(V)] : IsFound(f, seq, wanted) /\ Selected(seq, wanted) = f[L]
  BY SelectedBy
<1> DEFINE T == {n \in 0..L : \E at : ArePlaces(at, f[n], seq, n, wanted)}
<1>e. /\ L \in Nat /\ \A i \in 1..L : seq[i] \in V
      /\ \A n \in 0..L : f[n] = IF n = 0 THEN <<>>
                                ELSE IF seq[n] \in wanted THEN Append(f[n - 1], seq[n]) ELSE f[n - 1]
  BY <1>2, ElementOfSeq, LenProperties DEF IsFound
<1>3. 0 \in T
  <2>1. f[0] = <<>> /\ Len(<<>>) = 0 /\ 1..0 = {} /\ 0 \in 0..L
    BY <1>e, EmptySeq
  <2>2. [j \in {} |-> 0] \in [1..0 -> 1..0]
    BY <2>1
  <2>3. ArePlaces([j \in {} |-> 0], f[0], seq, 0, wanted)
    BY <2>1, <2>2 DEF ArePlaces
  <2> QED
    BY <2>1, <2>3
<1>4. ASSUME NEW n \in 0..(L - 1), n \in T
      PROVE  n + 1 \in T
  <2> HIDE DEF L
  <2>1. PICK at : ArePlaces(at, f[n], seq, n, wanted)
    BY <1>4
  <2>2. /\ n \in Nat /\ n + 1 \in 1..L /\ n + 1 \in 0..L /\ n \in 0..L /\ n + 1 # 0
        /\ (n + 1) - 1 = n
    BY <1>e
  <2>3. f[n + 1] = IF seq[n + 1] \in wanted THEN Append(f[n], seq[n + 1]) ELSE f[n]
    BY <1>e, <2>2
  <2>4. f[n] \in Seq(V) /\ Len(f[n]) \in Nat /\ seq[n + 1] \in V
    BY <1>e, <2>2, LenProperties
  <2>5. CASE seq[n + 1] \notin wanted
    <3>1. ArePlaces(at, f[n + 1], seq, n + 1, wanted)
      <4>1. f[n + 1] = f[n]
        BY <2>3, <2>5
      <4>2. at \in [1..Len(f[n]) -> 1..(n + 1)]
        BY <2>1, <2>2 DEF ArePlaces
      <4>3. \A i \in 1..(n + 1) : seq[i] \in wanted => i \in 1..n
        BY <2>2, <2>5
      <4> QED
        BY <2>1, <4>1, <4>2, <4>3 DEF ArePlaces
    <3> QED
      BY <2>2, <3>1
  <2>6. CASE seq[n + 1] \in wanted
    <3> DEFINE c == Len(f[n])
               more == [j \in 1..(c + 1) |-> IF j = c + 1 THEN n + 1 ELSE at[j]]
    <3>1. /\ f[n + 1] = Append(f[n], seq[n + 1]) /\ Len(f[n + 1]) = c + 1
          /\ f[n + 1][c + 1] = seq[n + 1] /\ \A j \in 1..c : f[n + 1][j] = f[n][j]
      BY <2>3, <2>4, <2>6, AppendProperties
    <3>2. /\ c \in Nat /\ \A j \in 1..c : at[j] \in 1..n
      BY <2>1, <2>4 DEF ArePlaces
    <3> HIDE DEF c
    <3>3. \A j \in 1..(c + 1) : more[j] \in 1..(n + 1)
      BY <2>2, <3>2
    <3>4. more \in [1..(c + 1) -> 1..(n + 1)]
      BY <3>3
    <3>5. /\ more[c + 1] = n + 1 /\ c + 1 \in 1..(c + 1)
          /\ \A j \in 1..c : more[j] = at[j] /\ j \in 1..(c + 1) /\ more[j] <= n
          /\ \A j \in 1..(c + 1) : j = c + 1 \/ j \in 1..c
      BY <3>2
    <3> HIDE DEF more
    <3>6. \A j \in 1..(c + 1) : f[n + 1][j] = seq[more[j]] /\ seq[more[j]] \in wanted
      BY <2>1, <2>6, <3>1, <3>5 DEF ArePlaces, c
    <3>7. ASSUME NEW j \in 1..(c + 1), NEW k \in 1..(c + 1), j < k
          PROVE  more[j] < more[k]
      <4>1. j \in 1..c
        BY <3>2, <3>7
      <4>2. CASE k = c + 1
        BY <2>2, <3>2, <3>5, <4>1, <4>2
      <4>3. CASE k \in 1..c
        BY <2>1, <3>5, <3>7, <4>1, <4>3 DEF ArePlaces, c
      <4> QED
        BY <3>5, <4>2, <4>3
    <3>8. ASSUME NEW i \in 1..(n + 1), seq[i] \in wanted
          PROVE  \E j \in 1..(c + 1) : more[j] = i
      <4>1. CASE i = n + 1
        BY <3>5, <4>1
      <4>2. CASE i # n + 1
        <5>1. i \in 1..n
          BY <2>2, <4>2
        <5>2. PICK j \in 1..c : at[j] = i
          BY <2>1, <3>8, <5>1 DEF ArePlaces, c
        <5> QED
          BY <3>5, <5>2
      <4> QED
        BY <4>1, <4>2
    <3>9. ArePlaces(more, f[n + 1], seq, n + 1, wanted)
      BY <3>1, <3>4, <3>6, <3>7, <3>8 DEF ArePlaces
    <3> QED
      BY <2>2, <3>9
  <2> QED
    BY <2>5, <2>6
<1>5. L \in T
  <2> HIDE DEF T, L
  <2>1. \A n \in 0..L : n \in T
    BY <1>e, <1>3, <1>4, EveryUpTo
  <2> QED
    BY <1>e, <2>1
<1> QED
  BY <1>1, <1>2, <1>5

\* What a WHERE on the members selects of a sequence that grew by one.
LEMMA WhereGrows ==
  ASSUME NEW V, NEW seq \in Seq(V), NEW e \in V, NEW wanted
  PROVE  Selected(Append(seq, e), wanted \cap Range(Append(seq, e))) =
           IF e \in wanted THEN Append(Selected(seq, wanted \cap Range(seq)), e)
           ELSE Selected(seq, wanted \cap Range(seq))
<1> DEFINE more == Append(seq, e)
<1>1. /\ more \in Seq(V) /\ DOMAIN seq = 1..Len(seq) /\ DOMAIN more = 1..Len(more)
  BY AppendProperties, LenProperties
<1>2. \A i \in DOMAIN more : more[i] \in Range(more)
  BY DEF Range
<1>3. \A i \in DOMAIN seq : seq[i] \in Range(seq)
  BY DEF Range
<1> HIDE DEF more
<1>4. \A i \in DOMAIN more : more[i] \in wanted \cap Range(more) <=> more[i] \in wanted
  BY <1>2
<1>5. \A i \in DOMAIN seq : seq[i] \in wanted \cap Range(seq) <=> seq[i] \in wanted
  BY <1>3
<1>6. Selected(more, wanted \cap Range(more)) = Selected(more, wanted)
  BY <1>1, <1>4, SelectedSame
<1>7. Selected(seq, wanted \cap Range(seq)) = Selected(seq, wanted)
  BY <1>5, SelectedSame
<1>8. Selected(more, wanted) = IF e \in wanted THEN Append(Selected(seq, wanted), e)
                               ELSE Selected(seq, wanted)
  BY SelectedGrows DEF more
<1> QED
  BY <1>6, <1>7, <1>8 DEF more

\* The same of a sequence cut after some of its members.
LEMMA PrefixFacts ==
  ASSUME NEW V, NEW seq \in Seq(V), NEW e \in V
  PROVE  /\ SubSeq(Append(seq, e), 1, Len(seq) + 1) = Append(seq, e)
         /\ \A i \in 1..Len(seq) : SubSeq(Append(seq, e), 1, i) = SubSeq(seq, 1, i)
         /\ SubSeq(seq, 1, Len(seq)) = seq
<1> DEFINE more == Append(seq, e)
           L == Len(seq)
<1>1. /\ L \in Nat /\ more \in Seq(V) /\ Len(more) = L + 1
      /\ \A i \in 1..L : more[i] = seq[i]
  BY AppendProperties, LenProperties
<1>2. SubSeq(seq, 1, L) = seq
  BY SubSeqFull
<1>3. SubSeq(more, 1, L + 1) = more
  BY <1>1, SubSeqFull
<1>4. ASSUME NEW i \in 1..L
      PROVE  SubSeq(more, 1, i) = SubSeq(seq, 1, i)
  <2> HIDE DEF more, L
  <2>1. \A j \in 1..i : j \in 1..Len(seq) /\ j \in 1..Len(more)
    BY <1>1 DEF L
  <2>2. i \in Int /\ 1 <= i /\ i - 1 + 1 = i
    BY <1>1
  <2>3. \A j \in 1..i : seq[j] \in V /\ more[j] \in V
    BY <1>1, <2>1, ElementOfSeq
  <2>4. /\ SubSeq(seq, 1, i) \in Seq(V) /\ Len(SubSeq(seq, 1, i)) = i
        /\ \A j \in 1..i : SubSeq(seq, 1, i)[j] = seq[1 + j - 1]
    BY <2>2, <2>3, SubSeqProperties
  <2>5. /\ SubSeq(more, 1, i) \in Seq(V) /\ Len(SubSeq(more, 1, i)) = i
        /\ \A j \in 1..i : SubSeq(more, 1, i)[j] = more[1 + j - 1]
    BY <2>2, <2>3, SubSeqProperties
  <2>6. \A j \in 1..i : 1 + j - 1 \in 1..L
    BY <1>1
  <2>7. \A j \in 1..i : SubSeq(more, 1, i)[j] = SubSeq(seq, 1, i)[j]
    BY <1>1, <2>4, <2>5, <2>6
  <2> QED
    BY <2>4, <2>5, <2>7, SeqEqual
<1> QED
  BY <1>2, <1>3, <1>4

\* A member and what follows it are appended one after the other.
LEMMA AppendedThen ==
  ASSUME NEW V, NEW seq \in Seq(V), NEW e \in V, NEW rest \in Seq(V)
  PROVE  seq \o (<<e>> \o rest) = Append(seq, e) \o rest
<1>1. <<e>> \in Seq(V)
  OBVIOUS
<1>2. Append(seq, e) = seq \o <<e>>
  BY AppendIsConcat
<1> QED
  BY <1>1, <1>2, ConcatAssociative

\* What follows may be appended before it is joined.
LEMMA ConcatThenAppend ==
  ASSUME NEW V, NEW seq \in Seq(V), NEW rest \in Seq(V), NEW e \in V
  PROVE  seq \o Append(rest, e) = Append(seq \o rest, e)
<1>1. <<e>> \in Seq(V) /\ seq \o rest \in Seq(V)
  BY ConcatProperties
<1>2. Append(rest, e) = rest \o <<e>> /\ Append(seq \o rest, e) = (seq \o rest) \o <<e>>
  BY <1>1, AppendIsConcat
<1> QED
  BY <1>1, <1>2, ConcatAssociative

\* Members appended together are appended one after the other.
LEMMA ManyAppended ==
  ASSUME NEW V, NEW seq \in Seq(V), NEW a \in V, NEW b \in V, NEW c \in V, NEW d \in V
  PROVE  /\ seq \o <<a>> = Append(seq, a)
         /\ seq \o <<a, b, c>> = Append(Append(Append(seq, a), b), c)
         /\ seq \o <<a, b, c, d>> = Append(Append(Append(Append(seq, a), b), c), d)
<1>1. \A s \in Seq(V) : \A x \in V : s \o <<x>> = Append(s, x) /\ Append(s, x) \in Seq(V)
  BY AppendIsConcat, AppendProperties
<1>2. <<a>> \in Seq(V) /\ <<a, b>> \in Seq(V) /\ <<a, b, c>> \in Seq(V)
  OBVIOUS
<1>3. /\ <<a, b, c, d>> = Append(<<a, b, c>>, d) /\ <<a, b, c>> = Append(<<a, b>>, c)
      /\ <<a, b>> = Append(<<a>>, b)
  OBVIOUS
<1>4. seq \o <<a, b>> = Append(Append(seq, a), b)
  <2>1. seq \o Append(<<a>>, b) = Append(seq \o <<a>>, b)
    BY <1>2, ConcatThenAppend
  <2> QED
    BY <1>1, <1>3, <2>1
<1>5. seq \o <<a, b, c>> = Append(Append(Append(seq, a), b), c)
  <2>1. seq \o Append(<<a, b>>, c) = Append(seq \o <<a, b>>, c)
    BY <1>2, ConcatThenAppend
  <2> QED
    BY <1>3, <1>4, <2>1
<1>6. seq \o <<a, b, c, d>> = Append(Append(Append(Append(seq, a), b), c), d)
  <2>1. seq \o Append(<<a, b, c>>, d) = Append(seq \o <<a, b, c>>, d)
    BY <1>2, ConcatThenAppend
  <2> QED
    BY <1>3, <1>5, <2>1
<1> QED
  BY <1>1, <1>5, <1>6

Ascending(s) == \A i, j \in 1..Len(s) : i < j => s[i] < s[j]
IsWithin(s, t) == \A i \in 1..Len(s) : \E j \in 1..Len(t) : s[i] = t[j]
AgreeUpTo(n, s, t) ==
  \A i \in 1..n : (i <= Len(s) <=> i <= Len(t)) /\ (i <= Len(s) => s[i] = t[i])

\* Where two ascending sequences agree so far, the next member of one bounds the other's.
LEMMA AscendingStep ==
  ASSUME NEW s \in Seq(Nat), NEW t \in Seq(Nat), Ascending(s), Ascending(t), IsWithin(s, t),
         NEW n \in Nat, n + 1 <= Len(s), AgreeUpTo(n, s, t)
  PROVE  n + 1 <= Len(t) /\ t[n + 1] <= s[n + 1]
<1>0. /\ Len(s) \in Nat /\ Len(t) \in Nat
      /\ \A i \in 1..Len(s) : s[i] \in Nat
      /\ \A i \in 1..Len(t) : t[i] \in Nat
  BY LenProperties, ElementOfSeq
<1>1. n + 1 \in 1..Len(s)
  BY <1>0
<1>2. PICK j \in 1..Len(t) : s[n + 1] = t[j]
  BY <1>1 DEF IsWithin
<1>3. j > n
  <2> SUFFICES ASSUME j \in 1..n PROVE FALSE
    BY <1>0
  <2>1. j \in 1..Len(s) /\ j < n + 1
    BY <1>0
  <2>2. s[j] = t[j] /\ s[j] < s[n + 1] /\ s[j] \in Nat
    BY <1>0, <1>1, <2>1 DEF AgreeUpTo, Ascending
  <2> QED
    BY <1>0, <1>1, <1>2, <2>2
<1>4. n + 1 \in 1..Len(t)
  BY <1>0, <1>3
<1>5. j = n + 1 \/ t[n + 1] < t[j]
  BY <1>0, <1>3, <1>4 DEF Ascending
<1>6. t[n + 1] \in Nat /\ t[j] \in Nat
  BY <1>0, <1>4
<1> QED
  BY <1>0, <1>2, <1>4, <1>5, <1>6

\* Of two sequences that agree as far as the longer goes, neither is the longer.
LEMMA AgreeingNotLonger ==
  ASSUME NEW s \in Seq(Nat), NEW t \in Seq(Nat), AgreeUpTo(Len(s), s, t)
  PROVE  Len(s) <= Len(t)
<1>0. Len(s) \in Nat /\ Len(t) \in Nat
  BY LenProperties
<1>1. CASE Len(s) = 0
  BY <1>0, <1>1
<1>2. CASE Len(s) # 0
  <2>1. Len(s) \in 1..Len(s)
    BY <1>0, <1>2
  <2> QED
    BY <1>0, <2>1 DEF AgreeUpTo
<1> QED
  BY <1>1, <1>2

\* Agreement is mutual.
LEMMA AgreeBothWays ==
  ASSUME NEW s, NEW t, NEW n, AgreeUpTo(n, s, t)
  PROVE  AgreeUpTo(n, t, s)
BY DEF AgreeUpTo

\* Two ascending sequences of naturals with the same members are the same.
LEMMA AscendingSame ==
  ASSUME NEW s \in Seq(Nat), NEW t \in Seq(Nat), Ascending(s), Ascending(t),
         IsWithin(s, t), IsWithin(t, s)
  PROVE  s = t
<1>0. /\ Len(s) \in Nat /\ Len(t) \in Nat
      /\ \A i \in 1..Len(s) : s[i] \in Nat
      /\ \A i \in 1..Len(t) : t[i] \in Nat
  BY LenProperties, ElementOfSeq
<1> DEFINE T == {n \in Nat : AgreeUpTo(n, s, t)}
<1>1. 0 \in T
  BY DEF AgreeUpTo
<1>2. ASSUME NEW n \in Nat, n \in T
      PROVE  n + 1 \in T
  <2>a. AgreeUpTo(n, s, t) /\ AgreeUpTo(n, t, s)
    BY <1>2, AgreeBothWays
  <2>1. n + 1 <= Len(s) => n + 1 <= Len(t) /\ t[n + 1] <= s[n + 1]
    BY <2>a, AscendingStep
  <2>2. n + 1 <= Len(t) => n + 1 <= Len(s) /\ s[n + 1] <= t[n + 1]
    BY <2>a, AscendingStep
  <2>3. n + 1 <= Len(s) <=> n + 1 <= Len(t)
    BY <2>1, <2>2
  <2>4. ASSUME n + 1 <= Len(s)
        PROVE  s[n + 1] = t[n + 1]
    <3>1. n + 1 \in 1..Len(s) /\ n + 1 \in 1..Len(t)
      BY <1>0, <2>3, <2>4
    <3>2. s[n + 1] \in Nat /\ t[n + 1] \in Nat
      BY <1>0, <3>1
    <3>3. t[n + 1] <= s[n + 1] /\ s[n + 1] <= t[n + 1]
      BY <2>1, <2>2, <2>4
    <3> QED
      BY <3>2, <3>3
  <2>5. \A i \in 1..(n + 1) : i = n + 1 \/ i \in 1..n
    OBVIOUS
  <2>6. AgreeUpTo(n + 1, s, t)
    BY <2>3, <2>4, <2>5, <2>a DEF AgreeUpTo
  <2> QED
    BY <2>6
<1>3. \A n \in Nat : n \in T
  <2> HIDE DEF T
  <2> QED
    BY <1>1, <1>2, EveryNatural
<1>4. AgreeUpTo(Len(s), s, t) /\ AgreeUpTo(Len(t), s, t)
  BY <1>0, <1>3
<1>5. Len(s) = Len(t)
  BY <1>0, <1>4, AgreeBothWays, AgreeingNotLonger
<1>6. \A i \in 1..Len(s) : s[i] = t[i]
  BY <1>0, <1>4 DEF AgreeUpTo
<1> QED
  BY <1>5, <1>6, SeqEqual

-----------------------------------------------------------------------------
(* Sums *)

\* A sum of nothing, and of numbers that one more joined.
LEMMA TotalGrows ==
  /\ Total(<<>>) = 0
  /\ \A L \in Nat : \A numbers \in [1..L -> Int] : \A more \in [1..(L + 1) -> Int] :
       (\A i \in 1..L : more[i] = numbers[i])
         => Total(numbers) \in Int /\ Total(more) = Total(numbers) + more[L + 1]
<1> DEFINE IsSum(f, numbers) ==
             f = [i \in 0..Len(numbers) |-> IF i = 0 THEN 0 ELSE f[i - 1] + numbers[i]]
<1>1. ASSUME NEW L \in Nat, NEW numbers \in [1..L -> Int]
      PROVE  /\ Len(numbers) = L
             /\ \E f \in [0..L -> Int] : IsSum(f, numbers) /\ Total(numbers) = f[L]
  <2>1. numbers \in Seq(Int) /\ Len(numbers) = L
    BY IsASeq, LenProperties
  <2> DEFINE step == [p \in (1..L) \X Int |-> p[2] + numbers[p[1]]]
  <2>2. step \in Steps(L, Int) /\ \A i \in 1..L : \A n \in Int : step[<<i, n>>] = n + numbers[i]
    BY DEF Steps
  <2> HIDE DEF step
  <2>r. step \in Steps(L, Int) /\ 0 \in Int
    BY <2>2
  <2>3. PICK f \in [0..L -> Int] : Follows(f, L, 0, step)
    <3> USE <2>r
    <3> QED
      BY ONLY L \in Nat, <2>r, RecursionExists
  <2>4. \A i \in 0..L : f[i] = IF i = 0 THEN 0 ELSE f[i - 1] + numbers[i]
    <3> SUFFICES ASSUME NEW i \in 0..L, i # 0 PROVE f[i] = f[i - 1] + numbers[i]
      BY <2>3 DEF Follows
    <3>1. i \in 1..L /\ f[i - 1] \in Int
      OBVIOUS
    <3> QED
      BY <2>2, <2>3, <3>1 DEF Follows
  <2>5. IsSum(f, numbers)
    BY <2>1, <2>4
  <2> DEFINE g == CHOOSE h : IsSum(h, numbers)
  <2>6. IsSum(g, numbers) /\ Total(numbers) = g[L]
    BY <2>1, <2>5 DEF Total
  <2> HIDE DEF g
  <2> DEFINE T == {i \in 0..L : g[i] = f[i]}
  <2>7. 0 \in T
    BY <2>1, <2>4, <2>6
  <2>8. ASSUME NEW n \in 0..(L - 1), n \in T
        PROVE  n + 1 \in T
    <3>1. n + 1 \in 0..L /\ n + 1 # 0 /\ (n + 1) - 1 = n
      OBVIOUS
    <3>2. g[n + 1] = g[n] + numbers[n + 1]
      BY <2>1, <2>6, <3>1
    <3>3. f[n + 1] = f[n] + numbers[n + 1]
      BY <2>4, <3>1
    <3> QED
      BY <2>8, <3>1, <3>2, <3>3
  <2>9. L \in T
    <3> HIDE DEF T
    <3>1. \A i \in 0..L : i \in T
      BY <2>7, <2>8, EveryUpTo
    <3> QED
      BY <3>1
  <2> QED
    BY <2>1, <2>5, <2>6, <2>9
<1>2. Total(<<>>) = 0
  <2>1. <<>> \in [1..0 -> Int]
    BY EmptySeq
  <2>2. PICK f : IsSum(f, <<>>) /\ Total(<<>>) = f[0] /\ Len(<<>>) = 0
    BY <1>1, <2>1
  <2>3. 0 \in 0..0
    OBVIOUS
  <2> QED
    BY <2>2, <2>3
<1>3. ASSUME NEW L \in Nat, NEW numbers \in [1..L -> Int], NEW more \in [1..(L + 1) -> Int],
             \A i \in 1..L : more[i] = numbers[i]
      PROVE  Total(numbers) \in Int /\ Total(more) = Total(numbers) + more[L + 1]
  <2>1. PICK f \in [0..L -> Int] : IsSum(f, numbers) /\ Total(numbers) = f[L]
    BY <1>1
  <2>2. PICK g \in [0..(L + 1) -> Int] : IsSum(g, more) /\ Total(more) = g[L + 1]
    <3>1. L + 1 \in Nat
      OBVIOUS
    <3> HIDE DEF IsSum
    <3> QED
      BY <1>1, <3>1
  <2>3. Len(numbers) = L /\ Len(more) = L + 1
    BY <1>1
  <2>4. /\ \A i \in 0..L : f[i] = IF i = 0 THEN 0 ELSE f[i - 1] + numbers[i]
        /\ \A i \in 0..(L + 1) : g[i] = IF i = 0 THEN 0 ELSE g[i - 1] + more[i]
    BY <2>1, <2>2, <2>3
  <2> DEFINE T == {i \in 0..L : g[i] = f[i]}
  <2>5. 0 \in T
    BY <2>4
  <2>6. ASSUME NEW n \in 0..(L - 1), n \in T
        PROVE  n + 1 \in T
    <3>1. /\ n + 1 \in 0..L /\ n + 1 \in 1..L /\ n + 1 \in 0..(L + 1) /\ n + 1 # 0
          /\ (n + 1) - 1 = n
      OBVIOUS
    <3>2. g[n + 1] = g[n] + more[n + 1] /\ f[n + 1] = f[n] + numbers[n + 1]
      BY <2>4, <3>1
    <3> QED
      BY <1>3, <2>6, <3>1, <3>2
  <2>7. g[L] = f[L]
    <3> HIDE DEF T
    <3>1. \A i \in 0..L : i \in T
      BY <2>5, <2>6, EveryUpTo
    <3> QED
      BY <3>1 DEF T
  <2>8. L + 1 \in 0..(L + 1) /\ L + 1 # 0 /\ (L + 1) - 1 = L /\ f[L] \in Int
    OBVIOUS
  <2> QED
    BY <2>1, <2>2, <2>4, <2>7, <2>8
<1> QED
  BY <1>2, <1>3

-----------------------------------------------------------------------------
(* The invariant of the records of a run *)

Sides == {"buy", "sell"}
Intents == [side : Sides, level : Nat, quantity : Nat \ {0}, price : Nat]
RestingOrders == [order : Nat \ {0}, intent : Intents, remaining : Nat]
Views == [cash : Int, quantity : Int, cost : Nat, realized : Int, unrealized : Int,
          fees : Nat, equity : Int]
FillRows ==
  [kind : {"fill"}, order : Nat, side : Sides, price : Nat, quantity : Nat, fee : Nat]
Rows ==
  [kind : {"run_status"}, status : {"created", "running", "failed", "stopped"}]
    \cup {DecisionRow}
    \cup [kind : {"order_intent"}, intent : Intents]
    \cup [kind : {"order_state"}, order : Nat, status : {"created"}, filled : {0},
          intent : Intents]
    \cup [kind : {"order_state"}, order : Nat,
          status : {"accepted", "partially_filled", "filled", "expired"}, filled : Int]
    \cup FillRows
    \cup [kind : {"position"}, view : Views, mark : Nat]
    \cup [kind : {"equity"}, view : Views]

\* Of a log of rows and the account that its rows lead to: the account is that of the fills.
AccountTells(log, p) ==
  /\ p \in Account /\ Balanced(p, InitialCash)
  /\ p.cash = CashFrom(FillAudit(log)) /\ p.quantity = QuantityFrom(FillAudit(log))

\* Each position and equity row is of the fills before it.
RowsTell(log) ==
  \A i \in 1..Len(log) : log[i].kind \in {"position", "equity"} =>
    /\ log[i].view.cash = CashFrom(FillAudit(SubSeq(log, 1, i)))
    /\ log[i].view.quantity = QuantityFrom(FillAudit(SubSeq(log, 1, i)))
    /\ ViewBalances(log[i].view, InitialCash)

\* The last rows are of the account as it is, and there are as many as there should be.
LatestTell(log, p, candles) ==
  LET fills == FillAudit(log)
      positions == OfKind(log, "position")
      equity == OfKind(log, "equity")
  IN /\ Len(positions) = Len(fills) /\ Len(equity) = Len(fills) + candles
     /\ equity = <<>> => p = NewPortfolio(InitialCash)
     /\ equity # <<>> => Last(equity).view = PortfolioView(p)
     /\ positions = <<>> => p.quantity = 0 /\ p.cost = 0
     /\ positions # <<>> => /\ Last(positions).view.quantity = p.quantity
                            /\ Last(positions).view.cost = p.cost

IsBook(orders) ==
  /\ orders \in Seq(RestingOrders)
  /\ \A i \in 1..Len(orders) : orders[i].remaining \in 1..orders[i].intent.quantity
  /\ \A i, j \in 1..Len(orders) : i < j => orders[i].order < orders[j].order

\* An order is closed by its last state and by no earlier one, and is then not resting.
IsOpen(states) ==
  states # <<>> /\ \A j \in 1..Len(states) : states[j].status \notin TerminalStates
IsShut(states) ==
  /\ states # <<>>
  /\ \A j \in 1..(Len(states) - 1) : states[j].status \notin TerminalStates
  /\ Last(states).status \in TerminalStates
OrdersTell(log, resting) ==
  /\ \A i \in 1..Len(Orders(log)) : Orders(log)[i].order = i
  /\ resting \subseteq 1..Len(Orders(log))
  /\ \A o \in 1..Len(Orders(log)) :
       /\ o \in resting => IsOpen(StatesOf(log, o))
       /\ o \notin resting => IsShut(StatesOf(log, o))

OrdersOf(orders) == {orders[i].order : i \in 1..Len(orders)}
Log == ledger \o todo

Started == {"persisting", "running", "ended"}

\* The rows that are written and those that the event in hand still writes are, together,
\* those of the account and the book.
LogInv ==
  /\ stage \in Stages
  /\ ledger \in Seq(Rows) /\ todo \in Seq(Rows)
  /\ stage \in {"desk", "starting"} =>
       ledger = <<>> /\ todo = <<>> /\ book = <<>> /\ portfolio = NewPortfolio(InitialCash)
  /\ stage = "persisting" <=> todo # <<>>
  /\ IsBook(book)
  /\ AccountTells(Log, portfolio)
  /\ RowsTell(Log)
  /\ LatestTell(Log, portfolio, Len(seen))
  /\ OrdersTell(Log, OrdersOf(book))

\* The candle that the grid of a run, or of a preview, starts from.
CandleBefore(boundary) == CandleOver(boundary - Interval, MinutesOf(boundary - Interval, 0))

\* What start decided, and the preview that the console still shows.
StartInv ==
  /\ bot \in Configs \cup {NoConfig}
  /\ bot # NoConfig => ValidGrid(bot)
  /\ clock \in FirstClock..MaxClock
  /\ preview # NoPreview =>
       preview.levels = GridIntents(preview.config, CandleBefore(preview.boundary).close)
  /\ stage \in {"starting"} \cup Started =>
       /\ run.config \in Configs /\ ValidGrid(run.config)
       /\ run.now \in 0..clock
  /\ stage \in Started =>
       /\ run.boundary = BucketOpen(run.now) /\ run.boundary >= Interval
       /\ run.first = FirstFullBaseOpen(run.now)
       /\ run.previous = CandleBefore(run.boundary)
  /\ stage \in {"running", "ended"} => preview = NoPreview
  /\ stage = "persisting" /\ preview # NoPreview /\ book # <<>> =>
       book = Resting(GridIntents(run.config, run.previous.close))

\* A whole number of units apart from zero (BASE_INTERVAL_MS, duration_ms).
IsMultiple(a, u) == \E k \in Int : a = k * u

\* The candle of a bucket of the minutes from one to another, said field by field.
Candles ==
  [openTime : Nat, closeTime : Int, closed : {TRUE}, open : Nat, high : Nat, low : Nat,
   close : Nat, volume : Nat]
Minutes(from, to) == {m \in from..to : m % Base = 0}
VolumesFrom(from, n) == [i \in 1..n |-> PriceOf[from + (i - 1) * Base].volume]
IsCandleOf(candle, bucket, from, to) ==
  /\ candle \in Candles
  /\ candle.openTime = bucket /\ candle.closeTime = to + Base - 1
  /\ candle.open = PriceOf[from].open /\ candle.close = PriceOf[to].close
  /\ \E m \in Minutes(from, to) : candle.high = PriceOf[m].high
  /\ \A m \in Minutes(from, to) : PriceOf[m].high <= candle.high
  /\ \E m \in Minutes(from, to) : candle.low = PriceOf[m].low
  /\ \A m \in Minutes(from, to) : PriceOf[m].low >= candle.low
  /\ candle.volume = Total(VolumesFrom(from, (to - from) \div Base + 1))

\* The first minute of the run in a bucket.
FirstIn(first, bucket) == IF first > bucket THEN first ELSE bucket

\* Of the run's first minute, the aggregator's next one and its candle, and what the
\* strategy saw: the aggregator has the minutes of the bucket in progress that the run was
\* shown, and the buckets before it were whole.
IsShown(first, next, current, candles) ==
  LET bucket == BucketOpen(first) + Len(candles) * Interval
  IN /\ next \in Nat /\ IsMultiple(next, Base)
     /\ BucketOpen(next) = bucket
     /\ current = NoCandle => next = FirstIn(first, bucket)
     /\ current # NoCandle =>
          /\ next > FirstIn(first, bucket) /\ next - Base <= LastMinute
          /\ IsCandleOf(current, bucket, FirstIn(first, bucket), next - Base)
     /\ \A i \in 1..Len(candles) :
          LET b == BucketOpen(first) + (i - 1) * Interval
          IN candles[i] = CandleOver(b, MinutesOf(b, first))

CandlesInv ==
  /\ nextMinute \in Nat /\ seen \in Seq(Candles)
  /\ aggregator = [expected |-> aggregator.expected, current |-> aggregator.current]
  /\ stage \notin Started => seen = <<>> /\ aggregator.expected = 0
  /\ stage \in Started =>
       IsShown(run.first, aggregator.expected, aggregator.current, seen)

RecordsInv == LogInv /\ StartInv /\ CandlesInv

-----------------------------------------------------------------------------
(* Rows *)

\* What kinds of rows there are, by their makers.
LEMMA RowMakers ==
  /\ \A status \in {"created", "running", "failed", "stopped"} : StatusRow(status) \in Rows
  /\ DecisionRow \in Rows
  /\ \A intent \in Intents : IntentRow(intent) \in Rows
  /\ \A order \in Nat, intent \in Intents : OrderRow(order, intent) \in Rows
  /\ \A order \in Nat, status \in {"accepted", "partially_filled", "filled", "expired"},
        filled \in Int : OrderStateRow(order, status, filled) \in Rows
  /\ \A order \in Nat, side \in Sides, price, quantity, fee \in Nat :
       FillRow(order, side, price, quantity, fee) \in FillRows
  /\ FillRows \subseteq Rows
  /\ \A view \in Views, mark \in Nat : PositionRow(view, mark) \in Rows
  /\ \A view \in Views : EquityRow(view) \in Rows
<1>1. \A status \in {"created", "running", "failed", "stopped"} : StatusRow(status) \in Rows
  BY DEF StatusRow, Rows
<1>2. DecisionRow \in Rows
  BY DEF Rows
<1>3. \A intent \in Intents : IntentRow(intent) \in Rows
  BY DEF IntentRow, Rows
<1>4. \A order \in Nat, intent \in Intents : OrderRow(order, intent) \in Rows
  BY DEF OrderRow, Rows
<1>5. \A order \in Nat, status \in {"accepted", "partially_filled", "filled", "expired"},
         filled \in Int : OrderStateRow(order, status, filled) \in Rows
  BY DEF OrderStateRow, Rows
<1>6. \A order \in Nat, side \in Sides, price, quantity, fee \in Nat :
        FillRow(order, side, price, quantity, fee) \in FillRows
  BY DEF FillRow, FillRows
<1>7. FillRows \subseteq Rows
  BY DEF Rows
<1>8. \A view \in Views, mark \in Nat : PositionRow(view, mark) \in Rows
  BY DEF PositionRow, Rows
<1>9. \A view \in Views : EquityRow(view) \in Rows
  BY DEF EquityRow, Rows
<1> QED
  BY <1>1, <1>2, <1>3, <1>4, <1>5, <1>6, <1>7, <1>8, <1>9

\* What a row of each kind holds.
LEMMA RowFacts ==
  ASSUME NEW row \in Rows
  PROVE  /\ row.kind \in RowKinds
         /\ row.kind = "fill" => row \in FillRows
         /\ row.kind \in {"position", "equity"} => row.view \in Views
         /\ row.kind = "order_state" => row.order \in Nat
         /\ row.kind = "order_state" /\ row.status = "created" => row.intent \in Intents
<1>1. CASE row \in [kind : {"run_status"}, status : {"created", "running", "failed", "stopped"}]
  BY <1>1 DEF RowKinds
<1>2. CASE row = DecisionRow
  BY <1>2 DEF RowKinds, DecisionRow
<1>3. CASE row \in [kind : {"order_intent"}, intent : Intents]
  BY <1>3 DEF RowKinds
<1>4. CASE row \in [kind : {"order_state"}, order : Nat, status : {"created"}, filled : {0},
                    intent : Intents]
  BY <1>4 DEF RowKinds
<1>5. CASE row \in [kind : {"order_state"}, order : Nat,
                    status : {"accepted", "partially_filled", "filled", "expired"},
                    filled : Int]
  BY <1>5 DEF RowKinds
<1>6. CASE row \in FillRows
  BY <1>6 DEF RowKinds, FillRows
<1>7. CASE row \in [kind : {"position"}, view : Views, mark : Nat]
  BY <1>7 DEF RowKinds
<1>8. CASE row \in [kind : {"equity"}, view : Views]
  BY <1>8 DEF RowKinds
<1> QED
  BY <1>1, <1>2, <1>3, <1>4, <1>5, <1>6, <1>7, <1>8 DEF Rows

\* What is selected has only the members it asks for.
LEMMA SelectedIn ==
  ASSUME NEW V, NEW seq \in Seq(V), NEW wanted
  PROVE  Selected(seq, wanted) \in Seq(V \cap wanted)
<1> DEFINE chosen == Selected(seq, wanted)
<1>1. chosen \in Seq(V) /\ \E at : ArePlaces(at, chosen, seq, Len(seq), wanted)
  BY SelectedFacts
<1> HIDE DEF chosen
<1>2. /\ Len(chosen) \in Nat /\ chosen \in [1..Len(chosen) -> V]
      /\ \A i \in 1..Len(chosen) : chosen[i] \in V
  BY <1>1, LenProperties, ElementOfSeq
<1>3. \A i \in 1..Len(chosen) : chosen[i] \in wanted
  BY <1>1 DEF ArePlaces
<1>4. chosen \in [1..Len(chosen) -> V \cap wanted]
  BY <1>2, <1>3
<1> QED
  BY <1>2, <1>4 DEF chosen

\* A sequence is of a larger set too.
LEMMA SeqOfLarger ==
  ASSUME NEW S, NEW T, S \subseteq T, NEW seq \in Seq(S)
  PROVE  seq \in Seq(T)
<1>1. Len(seq) \in Nat /\ seq \in [1..Len(seq) -> S]
  BY LenProperties
<1>2. seq \in [1..Len(seq) -> T]
  BY <1>1
<1> QED
  BY <1>1, <1>2

\* The rows of a kind, when a row is added.
LEMMA OfKindGrows ==
  ASSUME NEW log \in Seq(Rows), NEW row \in Rows, NEW kind
  PROVE  /\ OfKind(log, kind) \in Seq({r \in Rows : r.kind = kind})
         /\ OfKind(Append(log, row), kind) =
              IF row.kind = kind THEN Append(OfKind(log, kind), row) ELSE OfKind(log, kind)
<1> DEFINE more == Append(log, row)
           wanted == {r \in Rows : r.kind = kind}
<1>1. more \in Seq(Rows)
  BY AppendProperties
<1>2. \A s \in Seq(Rows) : Range(s) \subseteq Rows
  BY LenProperties, ElementOfSeq DEF Range
<1>3. \A s \in Seq(Rows) : OfKind(s, kind) = Selected(s, wanted \cap Range(s))
  <2> SUFFICES ASSUME NEW s \in Seq(Rows)
               PROVE  OfKind(s, kind) = Selected(s, wanted \cap Range(s))
    OBVIOUS
  <2>1. {r \in Range(s) : r.kind = kind} = wanted \cap Range(s)
    BY <1>2
  <2> QED
    BY <2>1 DEF OfKind
<1>4. row \in wanted <=> row.kind = kind
  OBVIOUS
<1>5. OfKind(log, kind) \in Seq(wanted)
  <2>1. Selected(log, wanted \cap Range(log)) \in Seq(Rows \cap (wanted \cap Range(log)))
    BY SelectedIn
  <2>2. Rows \cap (wanted \cap Range(log)) \subseteq wanted
    OBVIOUS
  <2> HIDE DEF wanted
  <2>3. Selected(log, wanted \cap Range(log)) \in Seq(wanted)
    BY <2>1, <2>2, SeqOfLarger
  <2> QED
    BY <1>3, <2>3
<1> HIDE DEF wanted
<1>6. Selected(more, wanted \cap Range(more)) =
        IF row \in wanted THEN Append(Selected(log, wanted \cap Range(log)), row)
        ELSE Selected(log, wanted \cap Range(log))
  BY WhereGrows
<1>7. OfKind(more, kind) =
        IF row.kind = kind THEN Append(OfKind(log, kind), row) ELSE OfKind(log, kind)
  BY <1>1, <1>3, <1>4, <1>6
<1> QED
  BY <1>5, <1>7 DEF wanted

\* The orders made, when a row is added.
LEMMA OrdersGrow ==
  ASSUME NEW log \in Seq(Rows), NEW row \in Rows
  PROVE  /\ Orders(log) \in Seq({r \in Rows : r.kind = "order_state" /\ r.status = "created"})
         /\ Orders(Append(log, row)) =
              IF row.kind = "order_state" /\ row.status = "created"
              THEN Append(Orders(log), row) ELSE Orders(log)
<1> DEFINE more == Append(log, row)
           wanted == {r \in Rows : r.kind = "order_state" /\ r.status = "created"}
<1>1. more \in Seq(Rows)
  BY AppendProperties
<1>2. \A s \in Seq(Rows) : Range(s) \subseteq Rows
  BY LenProperties, ElementOfSeq DEF Range
<1>3. \A s \in Seq(Rows) : Orders(s) = Selected(s, wanted \cap Range(s))
  <2> SUFFICES ASSUME NEW s \in Seq(Rows)
               PROVE  Orders(s) = Selected(s, wanted \cap Range(s))
    OBVIOUS
  <2>1. {r \in Range(s) : r.kind = "order_state" /\ r.status = "created"} = wanted \cap Range(s)
    BY <1>2
  <2> QED
    BY <2>1 DEF Orders
<1>4. row \in wanted <=> row.kind = "order_state" /\ row.status = "created"
  OBVIOUS
<1>5. Orders(log) \in Seq(wanted)
  <2>1. Selected(log, wanted \cap Range(log)) \in Seq(Rows \cap (wanted \cap Range(log)))
    BY SelectedIn
  <2>2. Rows \cap (wanted \cap Range(log)) \subseteq wanted
    OBVIOUS
  <2> HIDE DEF wanted
  <2>3. Selected(log, wanted \cap Range(log)) \in Seq(wanted)
    BY <2>1, <2>2, SeqOfLarger
  <2> QED
    BY <1>3, <2>3
<1> HIDE DEF wanted
<1>6. Selected(more, wanted \cap Range(more)) =
        IF row \in wanted THEN Append(Selected(log, wanted \cap Range(log)), row)
        ELSE Selected(log, wanted \cap Range(log))
  BY WhereGrows
<1>7. Orders(more) =
        IF row.kind = "order_state" /\ row.status = "created"
        THEN Append(Orders(log), row) ELSE Orders(log)
  BY <1>1, <1>3, <1>4, <1>6
<1> QED
  BY <1>5, <1>7 DEF wanted

\* The states of an order, when a row is added.
LEMMA StatesGrow ==
  ASSUME NEW log \in Seq(Rows), NEW row \in Rows, NEW order
  PROVE  /\ StatesOf(log, order) \in Seq({r \in Rows : r.kind = "order_state" /\ r.order = order})
         /\ StatesOf(Append(log, row), order) =
              IF row.kind = "order_state" /\ row.order = order
              THEN Append(StatesOf(log, order), row) ELSE StatesOf(log, order)
<1> DEFINE more == Append(log, row)
           wanted == {r \in Rows : r.kind = "order_state" /\ r.order = order}
<1>1. more \in Seq(Rows)
  BY AppendProperties
<1>2. \A s \in Seq(Rows) : Range(s) \subseteq Rows
  BY LenProperties, ElementOfSeq DEF Range
<1>3. \A s \in Seq(Rows) : StatesOf(s, order) = Selected(s, wanted \cap Range(s))
  <2> SUFFICES ASSUME NEW s \in Seq(Rows)
               PROVE  StatesOf(s, order) = Selected(s, wanted \cap Range(s))
    OBVIOUS
  <2>1. {r \in Range(s) : r.kind = "order_state" /\ r.order = order} = wanted \cap Range(s)
    BY <1>2
  <2> QED
    BY <2>1 DEF StatesOf
<1>4. row \in wanted <=> row.kind = "order_state" /\ row.order = order
  OBVIOUS
<1>5. StatesOf(log, order) \in Seq(wanted)
  <2>1. Selected(log, wanted \cap Range(log)) \in Seq(Rows \cap (wanted \cap Range(log)))
    BY SelectedIn
  <2>2. Rows \cap (wanted \cap Range(log)) \subseteq wanted
    OBVIOUS
  <2> HIDE DEF wanted
  <2>3. Selected(log, wanted \cap Range(log)) \in Seq(wanted)
    BY <2>1, <2>2, SeqOfLarger
  <2> QED
    BY <1>3, <2>3
<1> HIDE DEF wanted
<1>6. Selected(more, wanted \cap Range(more)) =
        IF row \in wanted THEN Append(Selected(log, wanted \cap Range(log)), row)
        ELSE Selected(log, wanted \cap Range(log))
  BY WhereGrows
<1>7. StatesOf(more, order) =
        IF row.kind = "order_state" /\ row.order = order
        THEN Append(StatesOf(log, order), row) ELSE StatesOf(log, order)
  BY <1>1, <1>3, <1>4, <1>6
<1> QED
  BY <1>5, <1>7 DEF wanted

\* Of no rows nothing is selected.
LEMMA NoRows ==
  /\ \A kind : OfKind(<<>>, kind) = <<>>
  /\ Orders(<<>>) = <<>>
  /\ \A order : StatesOf(<<>>, order) = <<>>
BY SelectedGrows DEF OfKind, Orders, StatesOf

\* What one more fill takes out of the cash and adds to the position.
LEMMA FillsGrow ==
  ASSUME NEW fills \in Seq(FillRows), NEW fill \in FillRows
  PROVE  /\ CashFrom(fills) \in Int /\ QuantityFrom(fills) \in Int
         /\ SignedQuantity(fill) \in Int
         /\ CashFrom(Append(fills, fill)) =
              CashFrom(fills) - (SignedQuantity(fill) * fill.price + fill.fee)
         /\ QuantityFrom(Append(fills, fill)) = QuantityFrom(fills) + SignedQuantity(fill)
<1> DEFINE L == Len(fills)
           more == Append(fills, fill)
           paid == [i \in 1..L |-> SignedQuantity(fills[i]) * fills[i].price + fills[i].fee]
           paidMore == [i \in 1..(L + 1) |-> SignedQuantity(more[i]) * more[i].price + more[i].fee]
           held == [i \in 1..L |-> SignedQuantity(fills[i])]
           heldMore == [i \in 1..(L + 1) |-> SignedQuantity(more[i])]
<1>1. /\ L \in Nat /\ DOMAIN fills = 1..L /\ DOMAIN more = 1..(L + 1)
      /\ more \in Seq(FillRows) /\ Len(more) = L + 1
      /\ more[L + 1] = fill /\ \A i \in 1..L : more[i] = fills[i]
  BY LenProperties, AppendProperties
<1>2. \A f \in FillRows :
        SignedQuantity(f) \in Int /\ SignedQuantity(f) * f.price + f.fee \in Int
  <2> SUFFICES ASSUME NEW f \in FillRows
               PROVE  SignedQuantity(f) \in Int /\ SignedQuantity(f) * f.price + f.fee \in Int
    OBVIOUS
  <2>1. f.quantity \in Nat /\ f.price \in Nat /\ f.fee \in Nat
    BY DEF FillRows
  <2>2. SignedQuantity(f) \in Int
    BY <2>1 DEF SignedQuantity, SignedDelta
  <2> HIDE DEF L, more, paid, paidMore, held, heldMore
  <2> QED
    BY <2>1, <2>2
<1>3. (\A i \in 1..L : fills[i] \in FillRows) /\ \A i \in 1..(L + 1) : more[i] \in FillRows
  BY <1>1, ElementOfSeq
<1>4. paid \in [1..L -> Int] /\ paidMore \in [1..(L + 1) -> Int]
  BY <1>2, <1>3
<1>5. held \in [1..L -> Int] /\ heldMore \in [1..(L + 1) -> Int]
  BY <1>2, <1>3
<1>6. \A i \in 1..L : paidMore[i] = paid[i] /\ heldMore[i] = held[i]
  <2> SUFFICES ASSUME NEW i \in 1..L PROVE paidMore[i] = paid[i] /\ heldMore[i] = held[i]
    OBVIOUS
  <2>1. i \in 1..(L + 1) /\ more[i] = fills[i]
    BY <1>1
  <2> QED
    BY <2>1
<1>7. /\ paidMore[L + 1] = SignedQuantity(fill) * fill.price + fill.fee
      /\ heldMore[L + 1] = SignedQuantity(fill)
  BY <1>1
<1>8. /\ CashFrom(fills) = InitialCash - Total(paid) /\ QuantityFrom(fills) = Total(held)
      /\ CashFrom(more) = InitialCash - Total(paidMore) /\ QuantityFrom(more) = Total(heldMore)
  BY <1>1 DEF CashFrom, QuantityFrom
<1> HIDE DEF paid, paidMore, held, heldMore, L
<1>9. Total(paid) \in Int /\ Total(paidMore) = Total(paid) + paidMore[L + 1]
  BY <1>1, <1>4, <1>6, TotalGrows
<1>10. Total(held) \in Int /\ Total(heldMore) = Total(held) + heldMore[L + 1]
  BY <1>1, <1>5, <1>6, TotalGrows
<1>11. InitialCash \in Int /\ SignedQuantity(fill) * fill.price + fill.fee \in Int
       /\ SignedQuantity(fill) \in Int
  BY <1>2, RecordsAssumption
<1> DEFINE cost == SignedQuantity(fill) * fill.price + fill.fee
<1>12. CashFrom(more) = CashFrom(fills) - cost /\ CashFrom(fills) \in Int
  <2>1. Total(paidMore) = Total(paid) + cost
    BY <1>7, <1>9
  <2>2. cost \in Int
    BY <1>11
  <2> HIDE DEF cost
  <2> QED
    BY <1>8, <1>9, <1>11, <2>1, <2>2
<1> QED
  BY <1>7, <1>8, <1>10, <1>11, <1>12

\* The rows that a run starts from tell of a new account, and of nothing owed.
LEMMA NothingFilled ==
  /\ CashFrom(<<>>) = InitialCash /\ QuantityFrom(<<>>) = 0
<1>1. DOMAIN <<>> = {} /\ [i \in {} |-> 0] = <<>>
  OBVIOUS
<1>2. [i \in DOMAIN <<>> |-> SignedQuantity(<<>>[i]) * <<>>[i].price + <<>>[i].fee] = <<>>
  BY <1>1
<1>3. [i \in DOMAIN <<>> |-> SignedQuantity(<<>>[i])] = <<>>
  BY <1>1
<1> QED
  BY <1>2, <1>3, TotalGrows, RecordsAssumption DEF CashFrom, QuantityFrom

-----------------------------------------------------------------------------
(* The account and the rows that tell of it *)

Told(log, p, candles) == AccountTells(log, p) /\ RowsTell(log) /\ LatestTell(log, p, candles)

\* A row that moves no money is told of by nothing, and one that does is checked when it
\* is added: the rows before it keep the fills before them.
LEMMA RowsTellGrows ==
  ASSUME NEW log \in Seq(Rows), NEW row \in Rows, RowsTell(log),
         row.kind \in {"position", "equity"} =>
           /\ row.view.cash = CashFrom(FillAudit(log))
           /\ row.view.quantity = QuantityFrom(FillAudit(log))
           /\ ViewBalances(row.view, InitialCash)
  PROVE  RowsTell(Append(log, row))
<1> DEFINE more == Append(log, row)
<1>1. /\ Len(log) \in Nat /\ more \in Seq(Rows) /\ Len(more) = Len(log) + 1
      /\ more[Len(log) + 1] = row /\ \A i \in 1..Len(log) : more[i] = log[i]
  BY LenProperties, AppendProperties
<1>2. /\ SubSeq(more, 1, Len(log) + 1) = more
      /\ \A i \in 1..Len(log) : SubSeq(more, 1, i) = SubSeq(log, 1, i)
  BY PrefixFacts
<1>3. row.kind \in {"position", "equity"} => FillAudit(more) = FillAudit(log)
  BY OfKindGrows DEF FillAudit
<1> HIDE DEF more
<1>4. ASSUME NEW i \in 1..Len(more), more[i].kind \in {"position", "equity"}
      PROVE  /\ more[i].view.cash = CashFrom(FillAudit(SubSeq(more, 1, i)))
             /\ more[i].view.quantity = QuantityFrom(FillAudit(SubSeq(more, 1, i)))
             /\ ViewBalances(more[i].view, InitialCash)
  <2>1. CASE i = Len(log) + 1
    BY <1>1, <1>2, <1>3, <1>4, <2>1
  <2>2. CASE i \in 1..Len(log)
    BY <1>1, <1>2, <1>4, <2>2 DEF RowsTell
  <2>3. i = Len(log) + 1 \/ i \in 1..Len(log)
    BY <1>1
  <2> QED
    BY <2>1, <2>2, <2>3
<1> QED
  BY <1>4 DEF RowsTell, more

\* A status, a decision, an intent or an order's state is not of the account.
LEMMA OtherRow ==
  ASSUME NEW log \in Seq(Rows), NEW row \in Rows, NEW p, NEW candles,
         Told(log, p, candles), row.kind \notin {"fill", "position", "equity"}
  PROVE  Told(Append(log, row), p, candles)
<1>1. \A kind \in {"fill", "position", "equity"} :
        OfKind(Append(log, row), kind) = OfKind(log, kind)
  BY OfKindGrows
<1>2. RowsTell(Append(log, row))
  BY RowsTellGrows DEF Told
<1>3. AccountTells(Append(log, row), p)
  BY <1>1 DEF Told, AccountTells, FillAudit
<1>4. LatestTell(Append(log, row), p, candles)
  BY <1>1 DEF Told, LatestTell, FillAudit
<1> QED
  BY <1>2, <1>3, <1>4 DEF Told

\* The view of an account is one of those that rows hold.
LEMMA ViewIsView ==
  ASSUME NEW p \in Account
  PROVE  PortfolioView(p) \in Views
<1>1. /\ p.cash \in Int /\ p.quantity \in Int /\ p.cost \in Nat /\ p.realized \in Int
      /\ p.fees \in Nat /\ p.mark \in Nat
  BY DEF Account
<1>2. p.quantity * p.mark \in Int
  BY <1>1
<1>3. Sign(p.quantity) * p.cost \in Int
  BY <1>1 DEF Sign
<1>4. /\ p.quantity * p.mark - Sign(p.quantity) * p.cost \in Int
      /\ p.cash + p.quantity * p.mark \in Int
  BY <1>1, <1>2, <1>3
<1> QED
  BY <1>1, <1>4 DEF PortfolioView, Views

\* The last of what was appended is what was appended.
LEMMA LastAppended ==
  ASSUME NEW V, NEW seq \in Seq(V), NEW e \in V
  PROVE  /\ Last(Append(seq, e)) = e /\ Append(seq, e) # <<>>
         /\ Len(Append(seq, e)) = Len(seq) + 1
BY AppendProperties, LenProperties DEF Last

\* The fill, position and equity rows, when a row is added.
LEMMA MoneyRowsGrow ==
  ASSUME NEW log \in Seq(Rows), NEW row \in Rows
  PROVE  /\ OfKind(Append(log, row), "fill") =
              IF row.kind = "fill" THEN Append(OfKind(log, "fill"), row) ELSE OfKind(log, "fill")
         /\ OfKind(Append(log, row), "position") =
              IF row.kind = "position" THEN Append(OfKind(log, "position"), row)
              ELSE OfKind(log, "position")
         /\ OfKind(Append(log, row), "equity") =
              IF row.kind = "equity" THEN Append(OfKind(log, "equity"), row)
              ELSE OfKind(log, "equity")
BY OfKindGrows

\* A candle's mark leaves an equity row of the account marked at its close
\* (PaperRunCore::process_strategy_candle).
LEMMA MarkTells ==
  ASSUME NEW log \in Seq(Rows), NEW p, NEW candles \in Nat, Told(log, p, candles),
         NEW price \in Nat
  PROVE  /\ EquityRow(PortfolioView(MarkPortfolio(p, price))) \in Rows
         /\ Told(Append(log, EquityRow(PortfolioView(MarkPortfolio(p, price)))),
                 MarkPortfolio(p, price), candles + 1)
<1> DEFINE marked == MarkPortfolio(p, price)
           view == PortfolioView(marked)
           row == EquityRow(view)
           more == Append(log, row)
<1>1. /\ p \in Account /\ Balanced(p, InitialCash) /\ InitialCash \in Int
      /\ p.cash = CashFrom(FillAudit(log)) /\ p.quantity = QuantityFrom(FillAudit(log))
  BY RecordsAssumption DEF Told, AccountTells
<1>2. marked \in Account /\ Balanced(marked, InitialCash)
  BY <1>1, MarkKeepsBalance
<1>3. marked.cash = p.cash /\ marked.quantity = p.quantity /\ marked.cost = p.cost
  BY <1>1 DEF MarkPortfolio, Account
<1> HIDE DEF marked
<1>4. view \in Views /\ ViewBalances(view, InitialCash)
  BY <1>1, <1>2, ViewIsView, ViewOfBalancedBalances
<1>5. view.cash = p.cash /\ view.quantity = p.quantity
  BY <1>3 DEF PortfolioView
<1> HIDE DEF view
<1>6. row \in Rows /\ row.kind = "equity" /\ row.view = view
  BY <1>4, RowMakers DEF EquityRow
<1> HIDE DEF row
<1>7. /\ OfKind(more, "fill") = OfKind(log, "fill")
      /\ OfKind(more, "position") = OfKind(log, "position")
      /\ OfKind(more, "equity") = Append(OfKind(log, "equity"), row)
  BY <1>6, OfKindGrows
<1>8. RowsTell(more)
  BY <1>1, <1>4, <1>5, <1>6, RowsTellGrows DEF Told
<1>9. AccountTells(more, marked)
  BY <1>1, <1>2, <1>3, <1>7 DEF AccountTells, FillAudit
<1>10. LatestTell(more, marked, candles + 1)
  <2> DEFINE equity == OfKind(log, "equity")
             positions == OfKind(log, "position")
             fills == OfKind(log, "fill")
  <2>1. LatestTell(log, p, candles)
    BY DEF Told
  <2>2. equity \in Seq({r \in Rows : r.kind = "equity"}) /\ row \in {r \in Rows : r.kind = "equity"}
    BY <1>6, OfKindGrows
  <2>3. /\ Last(Append(equity, row)) = row /\ Append(equity, row) # <<>>
        /\ Len(Append(equity, row)) = Len(equity) + 1
    BY <2>2, LastAppended
  <2>4. Len(fills) \in Nat
    <3>1. fills \in Seq({r \in Rows : r.kind = "fill"})
      BY <1>6, OfKindGrows
    <3> QED
      BY <3>1, LenProperties
  <2>5. Len(positions) = Len(fills) /\ Len(equity) = Len(fills) + candles
    BY <2>1 DEF LatestTell, FillAudit
  <2>6. Len(Append(equity, row)) = Len(fills) + (candles + 1)
    BY <2>3, <2>4, <2>5
  <2>7. /\ positions = <<>> => p.quantity = 0 /\ p.cost = 0
        /\ positions # <<>> => /\ Last(positions).view.quantity = p.quantity
                               /\ Last(positions).view.cost = p.cost
    BY <2>1 DEF LatestTell
  <2> HIDE DEF equity, positions, fills
  <2>8. /\ OfKind(more, "fill") = fills /\ OfKind(more, "position") = positions
        /\ OfKind(more, "equity") = Append(equity, row)
    BY <1>7 DEF fills, positions, equity
  <2>9. Last(Append(equity, row)).view = PortfolioView(marked)
    BY <1>6, <2>3 DEF view
  <2> HIDE DEF more
  <2> QED
    BY <1>3, <2>3, <2>5, <2>6, <2>7, <2>8, <2>9 DEF LatestTell, FillAudit
<1> QED
  BY <1>6, <1>8, <1>9, <1>10 DEF Told, row, view, marked

\* A fill of an order, and the account after it.
IsFill(p, after, order, side, price, quantity, fee) ==
  /\ order \in Nat /\ side \in Sides /\ price \in Nat /\ quantity \in Nat \ {0} /\ fee \in Nat
  /\ after = ApplyFill(p, side, quantity, price, fee)

\* The four rows of a fill, whatever state of its order is between them, tell of the
\* account after it (LivePaperExecution::process_trade and persist_fill).
LEMMA FillTells ==
  ASSUME NEW log \in Seq(Rows), NEW p, NEW candles \in Nat, Told(log, p, candles),
         NEW after, NEW order, NEW side, NEW price, NEW quantity, NEW fee,
         IsFill(p, after, order, side, price, quantity, fee),
         NEW state \in Rows, state.kind = "order_state"
  PROVE  /\ FillRow(order, side, price, quantity, fee) \in Rows
         /\ PositionRow(PortfolioView(after), price) \in Rows
         /\ EquityRow(PortfolioView(after)) \in Rows
         /\ Told(Append(Append(Append(Append(log,
                   FillRow(order, side, price, quantity, fee)), state),
                   PositionRow(PortfolioView(after), price)), EquityRow(PortfolioView(after))),
                 after, candles)
<1> DEFINE view == PortfolioView(after)
           fill == FillRow(order, side, price, quantity, fee)
           position == PositionRow(view, price)
           equity == EquityRow(view)
           log1 == Append(log, fill)
           log2 == Append(log1, state)
           log3 == Append(log2, position)
           log4 == Append(log3, equity)
<1>0. /\ order \in Nat /\ side \in Sides /\ price \in Nat /\ quantity \in Nat \ {0}
      /\ fee \in Nat /\ after = ApplyFill(p, side, quantity, price, fee)
  BY DEF IsFill
<1>1. /\ p \in Account /\ Balanced(p, InitialCash) /\ InitialCash \in Int
      /\ p.cash = CashFrom(FillAudit(log)) /\ p.quantity = QuantityFrom(FillAudit(log))
  BY RecordsAssumption DEF Told, AccountTells
<1>2. after \in Account /\ Balanced(after, InitialCash)
  BY <1>0, <1>1, FillKeepsBalance DEF Sides
<1>3. view \in Views /\ ViewBalances(view, InitialCash)
  BY <1>1, <1>2, ViewIsView, ViewOfBalancedBalances
<1>4. view.cash = after.cash /\ view.quantity = after.quantity /\ view.cost = after.cost
  BY DEF PortfolioView
<1>5. /\ fill \in FillRows /\ fill \in Rows /\ fill.kind = "fill" /\ fill.price = price
      /\ fill.fee = fee /\ SignedQuantity(fill) = SignedDelta(side, quantity)
  <2>1. quantity \in Nat
    BY <1>0
  <2>2. fill \in FillRows
    BY <1>0, <2>1, RowMakers
  <2> QED
    BY <2>2, RowMakers DEF FillRow, SignedQuantity
<1>6. /\ after.cash = p.cash - SignedDelta(side, quantity) * price - fee
      /\ after.quantity = p.quantity + SignedDelta(side, quantity)
  BY <1>0, <1>1 DEF ApplyFill, Settle, Account
<1> HIDE DEF view, fill
<1>7. /\ position \in Rows /\ position.kind = "position" /\ position.view = view
      /\ equity \in Rows /\ equity.kind = "equity" /\ equity.view = view
  BY <1>0, <1>3, RowMakers DEF PositionRow, EquityRow
<1> HIDE DEF position, equity
<1>8. log1 \in Seq(Rows) /\ log2 \in Seq(Rows) /\ log3 \in Seq(Rows) /\ log4 \in Seq(Rows)
  <2>1. \A s \in Seq(Rows) : \A r \in Rows : Append(s, r) \in Seq(Rows)
    BY AppendProperties
  <2> QED
    BY <1>5, <1>7, <2>1
<1>9. /\ OfKind(log1, "fill") = Append(OfKind(log, "fill"), fill)
      /\ OfKind(log1, "position") = OfKind(log, "position")
      /\ OfKind(log1, "equity") = OfKind(log, "equity")
  BY <1>5, OfKindGrows
<1> HIDE DEF log1
<1>10. /\ OfKind(log2, "fill") = OfKind(log1, "fill")
       /\ OfKind(log2, "position") = OfKind(log1, "position")
       /\ OfKind(log2, "equity") = OfKind(log1, "equity")
  <2>1. ASSUME NEW k, k # "order_state"
        PROVE  OfKind(log2, k) = OfKind(log1, k)
    BY <1>8, <2>1, OfKindGrows
  <2> QED
    BY <2>1
<1> HIDE DEF log2
<1>11. /\ OfKind(log3, "fill") = OfKind(log2, "fill")
       /\ OfKind(log3, "position") = Append(OfKind(log2, "position"), position)
       /\ OfKind(log3, "equity") = OfKind(log2, "equity")
  BY <1>7, <1>8, MoneyRowsGrow
<1> HIDE DEF log3
<1>12. /\ OfKind(log4, "fill") = OfKind(log3, "fill")
       /\ OfKind(log4, "position") = OfKind(log3, "position")
       /\ OfKind(log4, "equity") = Append(OfKind(log3, "equity"), equity)
  BY <1>7, <1>8, MoneyRowsGrow
<1>13. /\ after.cash = CashFrom(FillAudit(log1)) /\ after.quantity = QuantityFrom(FillAudit(log1))
  <2> DEFINE fills == OfKind(log, "fill")
             signed == SignedDelta(side, quantity)
  <2>1. fills \in Seq(FillRows)
    <3>1. {r \in Rows : r.kind = "fill"} \subseteq FillRows
      BY RowFacts
    <3> QED
      BY <3>1, OfKindGrows, SeqOfLarger
  <2> HIDE DEF fills
  <2>2. /\ CashFrom(fills) \in Int /\ QuantityFrom(fills) \in Int
        /\ CashFrom(Append(fills, fill)) = CashFrom(fills) - (signed * price + fee)
        /\ QuantityFrom(Append(fills, fill)) = QuantityFrom(fills) + signed
    BY <1>5, <2>1, FillsGrow
  <2>3. signed \in Int /\ signed * price \in Int
    BY <1>0 DEF SignedDelta
  <2>4. p.cash = CashFrom(fills) /\ p.quantity = QuantityFrom(fills)
    BY <1>1 DEF fills, FillAudit
  <2>5. after.cash = p.cash - signed * price - fee
    BY <1>6
  <2> DEFINE product == signed * price
  <2>6. p.cash - product - fee = CashFrom(fills) - (product + fee)
    <3>1. product \in Int
      BY <2>3
    <3> HIDE DEF product
    <3> QED
      BY <1>0, <2>2, <2>4, <3>1
  <2>7. FillAudit(log1) = Append(fills, fill)
    BY <1>9 DEF fills, FillAudit
  <2> QED
    BY <1>6, <2>2, <2>4, <2>5, <2>6, <2>7
<1>14. RowsTell(log4)
  <2>1. RowsTell(log1)
    <3>1. fill.kind \notin {"position", "equity"}
      BY <1>5
    <3> QED
      BY <1>5, <3>1, RowsTellGrows DEF Told, log1
  <2>2. RowsTell(log2)
    BY <1>8, <2>1, RowsTellGrows DEF log2
  <2>3. RowsTell(log3)
    BY <1>3, <1>4, <1>7, <1>8, <1>10, <1>13, <2>2, RowsTellGrows DEF log3, FillAudit
  <2> QED
    BY <1>3, <1>4, <1>7, <1>8, <1>10, <1>11, <1>13, <2>3, RowsTellGrows DEF FillAudit
<1>15. AccountTells(log4, after)
  BY <1>2, <1>10, <1>11, <1>12, <1>13 DEF AccountTells, FillAudit
<1>16. LatestTell(log4, after, candles)
  <2> DEFINE fills == OfKind(log, "fill")
             positions == OfKind(log, "position")
             equities == OfKind(log, "equity")
  <2>1. LatestTell(log, p, candles)
    BY DEF Told
  <2>2. Len(positions) = Len(fills) /\ Len(equities) = Len(fills) + candles
    BY <2>1 DEF LatestTell, FillAudit
  <2>3. /\ positions \in Seq({r \in Rows : r.kind = "position"})
        /\ position \in {r \in Rows : r.kind = "position"}
        /\ equities \in Seq({r \in Rows : r.kind = "equity"})
        /\ equity \in {r \in Rows : r.kind = "equity"}
        /\ fills \in Seq({r \in Rows : r.kind = "fill"})
        /\ fill \in {r \in Rows : r.kind = "fill"}
    BY <1>5, <1>7, OfKindGrows
  <2>4. /\ OfKind(log4, "fill") = Append(fills, fill)
        /\ OfKind(log4, "position") = Append(positions, position)
        /\ OfKind(log4, "equity") = Append(equities, equity)
    BY <1>9, <1>10, <1>11, <1>12
  <2> HIDE DEF fills, positions, equities, log4
  <2>5. /\ Last(Append(positions, position)) = position /\ Append(positions, position) # <<>>
        /\ Len(Append(positions, position)) = Len(positions) + 1
    BY <2>3, LastAppended
  <2>6. /\ Last(Append(equities, equity)) = equity /\ Append(equities, equity) # <<>>
        /\ Len(Append(equities, equity)) = Len(equities) + 1
    BY <2>3, LastAppended
  <2>7. Len(Append(fills, fill)) = Len(fills) + 1 /\ Len(fills) \in Nat
    BY <2>3, LastAppended, LenProperties
  <2>8. /\ Len(OfKind(log4, "position")) = Len(FillAudit(log4))
        /\ Len(OfKind(log4, "equity")) = Len(FillAudit(log4)) + candles
    BY <2>2, <2>4, <2>5, <2>6, <2>7 DEF FillAudit
  <2> QED
    BY <1>4, <1>7, <2>4, <2>5, <2>6, <2>8 DEF LatestTell, view
<1> QED
  BY <1>5, <1>7, <1>14, <1>15, <1>16 DEF Told, log4, log3, log2, log1, equity, position, view, fill

-----------------------------------------------------------------------------
(* The orders and the rows that tell of them *)

\* A state added to an order that is open leaves it open or shuts it.
LEMMA StateAdded ==
  ASSUME NEW V, NEW states \in Seq(V), NEW row \in V, states = <<>> \/ IsOpen(states)
  PROVE  /\ row.status \notin TerminalStates => IsOpen(Append(states, row))
         /\ row.status \in TerminalStates => IsShut(Append(states, row))
<1> DEFINE more == Append(states, row)
<1>1. /\ Len(states) \in Nat /\ more # <<>> /\ Len(more) = Len(states) + 1
      /\ more[Len(states) + 1] = row /\ \A i \in 1..Len(states) : more[i] = states[i]
  BY AppendProperties, LenProperties
<1>2. Last(more) = row
  BY LastAppended
<1> HIDE DEF more
<1>3. \A i \in 1..Len(states) : more[i].status \notin TerminalStates
  <2>1. CASE states = <<>>
    <3>1. 1..Len(states) = {}
      BY <2>1, EmptySeq
    <3> QED
      BY <3>1
  <2>2. CASE IsOpen(states)
    BY <1>1, <2>2 DEF IsOpen
  <2> QED
    BY <2>1, <2>2
<1>4. ASSUME row.status \notin TerminalStates
      PROVE  IsOpen(more)
  <2>1. \A i \in 1..Len(more) : i = Len(states) + 1 \/ i \in 1..Len(states)
    BY <1>1
  <2>2. \A i \in 1..Len(more) : more[i].status \notin TerminalStates
    BY <1>1, <1>3, <1>4, <2>1
  <2> QED
    BY <1>1, <2>2 DEF IsOpen
<1>5. ASSUME row.status \in TerminalStates
      PROVE  IsShut(more)
  <2>1. Len(more) - 1 = Len(states)
    BY <1>1
  <2> QED
    BY <1>1, <1>2, <1>3, <1>5, <2>1 DEF IsShut
<1> QED
  BY <1>4, <1>5 DEF more

\* A row that is no state of an order tells nothing of orders.
LEMMA NoOrderRow ==
  ASSUME NEW log \in Seq(Rows), NEW row \in Rows, NEW resting,
         OrdersTell(log, resting), row.kind # "order_state"
  PROVE  OrdersTell(Append(log, row), resting) /\ Orders(Append(log, row)) = Orders(log)
<1>1. Orders(Append(log, row)) = Orders(log)
  BY OrdersGrow
<1>2. \A o : StatesOf(Append(log, row), o) = StatesOf(log, o)
  BY StatesGrow
<1> QED
  BY <1>1, <1>2 DEF OrdersTell

\* A state of a resting order closes it or leaves it resting.
LEMMA StateTells ==
  ASSUME NEW log \in Seq(Rows), NEW row \in Rows, NEW resting, OrdersTell(log, resting),
         row.kind = "order_state", row.status # "created", row.order \in resting
  PROVE  OrdersTell(Append(log, row),
                    IF row.status \in TerminalStates THEN resting \ {row.order} ELSE resting)
<1> DEFINE more == Append(log, row)
           left == IF row.status \in TerminalStates THEN resting \ {row.order} ELSE resting
<1>1. Orders(more) = Orders(log)
  BY OrdersGrow
<1>2. /\ \A o : o # row.order => StatesOf(more, o) = StatesOf(log, o)
      /\ StatesOf(more, row.order) = Append(StatesOf(log, row.order), row)
      /\ StatesOf(log, row.order) \in
           Seq({r \in Rows : r.kind = "order_state" /\ r.order = row.order})
  BY StatesGrow
<1>3. IsOpen(StatesOf(log, row.order))
  BY DEF OrdersTell
<1>4. /\ row.status \notin TerminalStates => IsOpen(StatesOf(more, row.order))
      /\ row.status \in TerminalStates => IsShut(StatesOf(more, row.order))
  <2> DEFINE V == {r \in Rows : r.kind = "order_state" /\ r.order = row.order}
  <2>1. row \in V /\ StatesOf(log, row.order) \in Seq(V)
    BY <1>2
  <2> HIDE DEF V, more
  <2> QED
    BY <1>2, <1>3, <2>1, StateAdded
<1> HIDE DEF more
<1>5. ASSUME NEW o \in 1..Len(Orders(more))
      PROVE  /\ o \in left => IsOpen(StatesOf(more, o))
             /\ o \notin left => IsShut(StatesOf(more, o))
  <2>1. CASE o = row.order
    BY <1>4, <2>1
  <2>2. CASE o # row.order
    <3>1. o \in left <=> o \in resting
      BY <2>2
    <3> QED
      BY <1>1, <1>2, <2>2, <3>1 DEF OrdersTell
  <2> QED
    BY <2>1, <2>2
<1>6. left \subseteq 1..Len(Orders(more))
  BY <1>1 DEF OrdersTell
<1> HIDE DEF left
<1>7. OrdersTell(more, left)
  BY <1>1, <1>5, <1>6 DEF OrdersTell
<1> QED
  BY <1>7 DEF more, left

\* A created order rests from its row on (persist_order).
LEMMA CreatedTells ==
  ASSUME NEW log \in Seq(Rows), NEW row \in Rows, NEW resting, OrdersTell(log, resting),
         row.kind = "order_state", row.status = "created",
         row.order = Len(Orders(log)) + 1, StatesOf(log, row.order) = <<>>
  PROVE  /\ OrdersTell(Append(log, row), resting \cup {row.order})
         /\ Len(Orders(Append(log, row))) = row.order
<1> DEFINE more == Append(log, row)
           both == resting \cup {row.order}
           V == {r \in Rows : r.kind = "order_state" /\ r.status = "created"}
<1>1. Orders(log) \in Seq(V) /\ row \in V /\ Orders(more) = Append(Orders(log), row)
  BY OrdersGrow
<1> HIDE DEF V
<1>2. /\ Len(Orders(log)) \in Nat /\ Len(Orders(more)) = Len(Orders(log)) + 1
      /\ Orders(more)[Len(Orders(log)) + 1] = row
      /\ \A i \in 1..Len(Orders(log)) : Orders(more)[i] = Orders(log)[i]
  BY <1>1, AppendProperties, LenProperties
<1>3. /\ \A o : o # row.order => StatesOf(more, o) = StatesOf(log, o)
      /\ StatesOf(more, row.order) = Append(<<>>, row)
  BY StatesGrow
<1>4. IsOpen(StatesOf(more, row.order))
  <2>1. <<>> \in Seq(Rows) /\ row.status \notin TerminalStates
    BY EmptySeq DEF TerminalStates
  <2> HIDE DEF more
  <2> QED
    BY <1>3, <2>1, StateAdded
<1> HIDE DEF more
<1>5. \A o \in 1..Len(Orders(more)) : o = row.order \/ o \in 1..Len(Orders(log))
  BY <1>2
<1>6. row.order \in 1..Len(Orders(more)) /\ 1..Len(Orders(log)) \subseteq 1..Len(Orders(more))
      /\ row.order \notin 1..Len(Orders(log))
  BY <1>2
<1>7. \A i \in 1..Len(Orders(more)) : Orders(more)[i].order = i
  BY <1>2, <1>5 DEF OrdersTell
<1>8. ASSUME NEW o \in 1..Len(Orders(more))
      PROVE  /\ o \in both => IsOpen(StatesOf(more, o))
             /\ o \notin both => IsShut(StatesOf(more, o))
  <2>1. CASE o = row.order
    BY <1>4, <2>1
  <2>2. CASE o # row.order
    <3>1. o \in both <=> o \in resting
      BY <2>2
    <3> QED
      BY <1>3, <1>5, <2>2, <3>1 DEF OrdersTell
  <2> QED
    BY <2>1, <2>2
<1>9. both \subseteq 1..Len(Orders(more))
  BY <1>6 DEF OrdersTell
<1> HIDE DEF both
<1>10. OrdersTell(more, both)
  BY <1>7, <1>8, <1>9 DEF OrdersTell
<1> QED
  BY <1>2, <1>10 DEF more, both

-----------------------------------------------------------------------------
(* A trade *)

Unfilled == {resting \in RestingOrders : resting.remaining \in 1..resting.intent.quantity}
Accounts ==
  {account \in [portfolio : Account, rows : Seq(Rows)] : Balanced(account.portfolio, InitialCash)}
Agree(log, p, candles, resting) ==
  log \in Seq(Rows) /\ Told(log, p, candles) /\ OrdersTell(log, resting)

\* What one trade fills of an order, and what it costs (PaperFillPolicy::fill_quantity).
LEMMA ChunkFacts ==
  ASSUME NEW resting \in Unfilled
  PROVE  /\ resting.order \in Nat /\ resting.intent.side \in Sides /\ resting.intent.price \in Nat
         /\ resting.intent.quantity \in Nat /\ resting.remaining \in Nat
         /\ Chunk(resting) \in Nat \ {0} /\ Chunk(resting) <= resting.remaining
         /\ Fee(Chunk(resting), resting.intent.price) \in Nat
         /\ resting.remaining - Chunk(resting) \in Nat
<1>1. /\ resting.order \in Nat /\ resting.intent.side \in Sides /\ resting.intent.price \in Nat
      /\ resting.intent.quantity \in Nat /\ resting.remaining \in Nat \ {0}
  <2>1. resting \in RestingOrders /\ resting.remaining \in 1..resting.intent.quantity
    BY DEF Unfilled
  <2>2. resting.order \in Nat /\ resting.intent \in Intents /\ resting.remaining \in Nat
    BY <2>1 DEF RestingOrders
  <2>3. resting.intent.side \in Sides /\ resting.intent.price \in Nat
        /\ resting.intent.quantity \in Nat
    BY <2>2 DEF Intents
  <2> QED
    BY <2>1, <2>2, <2>3
<1>2. Chunk(resting) \in Nat \ {0} /\ Chunk(resting) <= resting.remaining
  BY <1>1, RecordsAssumption DEF Chunk
<1>3. Fee(Chunk(resting), resting.intent.price) \in Nat
  <2> DEFINE q == Chunk(resting)
             money == q * resting.intent.price * FeeRate
  <2>1. q \in Nat /\ resting.intent.price \in Nat /\ FeeRate \in Nat /\ Whole \in Nat \ {0}
    BY <1>1, <1>2, RecordsAssumption, GridAssumption
  <2>2. money \in Nat
    <3>1. q * resting.intent.price \in Nat
      BY <2>1
    <3> QED
      BY <2>1, <3>1
  <2> HIDE DEF money
  <2>3. money \div Whole \in Nat
    BY <2>1, <2>2
  <2> QED
    BY <2>3 DEF Fee, money
<1> QED
  BY <1>1, <1>2, <1>3

\* An order that a trade fills in part rests, and one that it fills to the end does not.
Left(resting, orders) ==
  IF Chunk(resting) = resting.remaining THEN orders \ {resting.order} ELSE orders

Four(a, b, c, d) == <<a, b, c, d>>
WithFour(log, a, b, c, d) == Append(Append(Append(Append(log, a), b), c), d)
AreRows(written, rows, a, b, c, d) ==
  written \in Seq(Rows) /\ rows \in Seq(Rows) /\ a \in Rows /\ b \in Rows /\ c \in Rows /\ d \in Rows

\* Four rows after those that an event has left so far are appended to the log.
LEMMA FourRows ==
  ASSUME NEW written, NEW rows, NEW a, NEW b, NEW c, NEW d, AreRows(written, rows, a, b, c, d)
  PROVE  /\ rows \o Four(a, b, c, d) \in Seq(Rows)
         /\ written \o rows \in Seq(Rows)
         /\ written \o (rows \o Four(a, b, c, d)) = WithFour(written \o rows, a, b, c, d)
<1> DEFINE four == Four(a, b, c, d)
<1> USE DEF AreRows
<1>1. four \in Seq(Rows)
  BY DEF Four
<1>2. written \o rows \in Seq(Rows) /\ rows \o four \in Seq(Rows)
  BY <1>1, ConcatProperties
<1>3. (written \o rows) \o four = WithFour(written \o rows, a, b, c, d)
  BY <1>2, ManyAppended DEF WithFour, Four
<1> HIDE DEF four
<1>4. (written \o rows) \o four = written \o (rows \o four)
  BY <1>1, ConcatAssociative
<1> QED
  BY <1>2, <1>3, <1>4 DEF four

\* One fill keeps rows, account and orders in agreement.
LEMMA FillOneAgrees ==
  ASSUME NEW written \in Seq(Rows), NEW account \in Accounts, NEW candles \in Nat,
         NEW orders, NEW resting \in Unfilled, resting.order \in orders,
         Agree(written \o account.rows, account.portfolio, candles, orders)
  PROVE  /\ FillOne(account, resting) \in Accounts
         /\ Agree(written \o FillOne(account, resting).rows,
                  FillOne(account, resting).portfolio, candles, Left(resting, orders))
<1> DEFINE side == resting.intent.side
           price == resting.intent.price
           quantity == Chunk(resting)
           fee == Fee(quantity, price)
           filled == resting.intent.quantity - resting.remaining + quantity
           p == account.portfolio
           after == ApplyFill(p, side, quantity, price, fee)
           status == IF filled = resting.intent.quantity THEN "filled" ELSE "partially_filled"
           fill == FillRow(resting.order, side, price, quantity, fee)
           state == OrderStateRow(resting.order, status, filled)
           position == PositionRow(PortfolioView(after), price)
           equity == EquityRow(PortfolioView(after))
           left == account.rows \o Four(fill, state, position, equity)
           log == written \o account.rows
<1>1. /\ resting.order \in Nat /\ side \in Sides /\ price \in Nat /\ quantity \in Nat \ {0}
      /\ fee \in Nat /\ resting.intent.quantity \in Nat /\ resting.remaining \in Nat
      /\ filled \in Int
  BY ChunkFacts
<1>2. FillOne(account, resting) = [portfolio |-> after, rows |-> left]
  BY DEF FillOne, Four
<1>3. status = "filled" <=> quantity = resting.remaining
  BY <1>1
<1>4. /\ account.rows \in Seq(Rows) /\ p \in Account /\ Balanced(p, InitialCash)
      /\ InitialCash \in Int
  BY RecordsAssumption DEF Accounts
<1> HIDE DEF fee, quantity, filled
<1>5. state \in Rows /\ state.kind = "order_state" /\ state.order = resting.order
      /\ state.status = status /\ status \in {"filled", "partially_filled"}
  BY <1>1, RowMakers DEF OrderStateRow
<1>6. log \in Seq(Rows) /\ Told(log, p, candles) /\ OrdersTell(log, orders)
  BY DEF Agree
<1>d. IsFill(p, after, resting.order, side, price, quantity, fee)
  BY <1>1 DEF IsFill
<1> HIDE DEF state, status, after, price, side, p, log
<1>7. /\ fill \in Rows /\ position \in Rows /\ equity \in Rows
      /\ Told(Append(Append(Append(Append(log, fill), state), position), equity), after, candles)
  <2>1. /\ FillRow(resting.order, side, price, quantity, fee) \in Rows
        /\ PositionRow(PortfolioView(after), price) \in Rows
        /\ EquityRow(PortfolioView(after)) \in Rows
        /\ Told(Append(Append(Append(Append(log,
                  FillRow(resting.order, side, price, quantity, fee)), state),
                  PositionRow(PortfolioView(after), price)), EquityRow(PortfolioView(after))),
                after, candles)
    <3> HIDE DEF fill, position, equity
    <3> QED
      BY <1>5, <1>6, <1>d, FillTells
  <2> QED
    BY <2>1
<1>8. fill.kind = "fill" /\ position.kind = "position" /\ equity.kind = "equity"
  BY DEF FillRow, PositionRow, EquityRow
<1> HIDE DEF fill, position, equity
<1>9. after \in Account /\ Balanced(after, InitialCash)
  BY <1>1, <1>4, FillKeepsBalance DEF after, Sides
<1>10. /\ left \in Seq(Rows) /\ written \o left \in Seq(Rows)
       /\ written \o left = Append(Append(Append(Append(log, fill), state), position), equity)
  <2>1. account.rows \in Seq(Rows)
    BY <1>4
  <2>2. AreRows(written, account.rows, fill, state, position, equity)
    BY <1>5, <1>7, <2>1 DEF AreRows
  <2>3. left \in Seq(Rows)
    BY <2>2, FourRows
  <2>4. written \o left = WithFour(log, fill, state, position, equity)
    <3> DEFINE so == account.rows
    <3>1. left = so \o Four(fill, state, position, equity) /\ log = written \o so
          /\ AreRows(written, so, fill, state, position, equity)
      BY <2>2 DEF log
    <3> HIDE DEF so, left, log
    <3> QED
      BY <3>1, FourRows
  <2> HIDE DEF left, log
  <2>5. written \o left \in Seq(Rows)
    BY <2>3, ConcatProperties
  <2> QED
    BY <2>3, <2>4, <2>5 DEF WithFour
<1> HIDE DEF left, log
<1>12. OrdersTell(written \o left, Left(resting, orders))
  <2> DEFINE log1 == Append(log, fill)
             log2 == Append(log1, state)
             log3 == Append(log2, position)
  <2>0. /\ log1 \in Seq(Rows) /\ log2 \in Seq(Rows) /\ log3 \in Seq(Rows)
    <3>1. \A s \in Seq(Rows) : \A r \in Rows : Append(s, r) \in Seq(Rows)
      BY AppendProperties
    <3> QED
      BY <1>5, <1>6, <1>7, <3>1
  <2>1. OrdersTell(log1, orders)
    BY <1>6, <1>7, <1>8, NoOrderRow
  <2> HIDE DEF log1
  <2>2. OrdersTell(log2, Left(resting, orders))
    <3>1. OrdersTell(Append(log1, state),
                     IF state.status \in TerminalStates THEN orders \ {state.order} ELSE orders)
      <4>1. state.status # "created"
        BY <1>5
      <4> QED
        BY <1>5, <2>0, <2>1, <4>1, StateTells
    <3>2. state.status \in TerminalStates <=> quantity = resting.remaining
      BY <1>3, <1>5 DEF TerminalStates
    <3> QED
      BY <1>5, <3>1, <3>2 DEF Left, quantity
  <2> HIDE DEF log2
  <2>3. OrdersTell(log3, Left(resting, orders))
    BY <1>7, <1>8, <2>0, <2>2, NoOrderRow
  <2> HIDE DEF log3
  <2>4. OrdersTell(Append(log3, equity), Left(resting, orders))
    BY <1>7, <1>8, <2>0, <2>3, NoOrderRow
  <2> QED
    BY <1>10, <2>4 DEF log3, log2, log1
<1>14. [portfolio |-> after, rows |-> left] \in Accounts
  BY <1>9, <1>10 DEF Accounts
<1>15. Told(written \o left, after, candles)
  BY <1>7, <1>10
<1>16. Agree(written \o left, after, candles, Left(resting, orders))
  BY <1>10, <1>12, <1>15 DEF Agree
<1> QED
  BY <1>2, <1>14, <1>16

\* One fill makes an account of an account.
LEMMA FillOneIsAccount ==
  ASSUME NEW account \in Accounts, NEW resting \in Unfilled
  PROVE  FillOne(account, resting) \in Accounts
<1> DEFINE side == resting.intent.side
           price == resting.intent.price
           quantity == Chunk(resting)
           fee == Fee(quantity, price)
           filled == resting.intent.quantity - resting.remaining + quantity
           p == account.portfolio
           after == ApplyFill(p, side, quantity, price, fee)
           status == IF filled = resting.intent.quantity THEN "filled" ELSE "partially_filled"
           fill == FillRow(resting.order, side, price, quantity, fee)
           state == OrderStateRow(resting.order, status, filled)
           position == PositionRow(PortfolioView(after), price)
           equity == EquityRow(PortfolioView(after))
           rows == account.rows \o <<fill, state, position, equity>>
<1>1. /\ resting.order \in Nat /\ side \in Sides /\ price \in Nat /\ quantity \in Nat \ {0}
      /\ fee \in Nat /\ filled \in Int
  BY ChunkFacts
<1>2. FillOne(account, resting) = [portfolio |-> after, rows |-> rows]
  BY DEF FillOne
<1>3. /\ account.rows \in Seq(Rows) /\ p \in Account /\ Balanced(p, InitialCash)
      /\ InitialCash \in Int
  BY RecordsAssumption DEF Accounts
<1> HIDE DEF fee, quantity, filled
<1>4. after \in Account /\ Balanced(after, InitialCash)
  BY <1>1, <1>3, FillKeepsBalance DEF Sides
<1> HIDE DEF after
<1>5. fill \in Rows /\ state \in Rows /\ position \in Rows /\ equity \in Rows
  <2>1. PortfolioView(after) \in Views
    BY <1>4, ViewIsView
  <2> QED
    BY <1>1, <2>1, RowMakers
<1> HIDE DEF fill, state, position, equity
<1>6. rows \in Seq(Rows)
  <2>1. <<fill, state, position, equity>> \in Seq(Rows)
    BY <1>5
  <2> QED
    BY <1>3, <2>1, ConcatProperties
<1> HIDE DEF rows
<1> QED
  BY <1>2, <1>4, <1>6 DEF Accounts

\* The account after each of the orders was filled exists, step by step.
LEMMA FillEachBy ==
  ASSUME NEW account \in Accounts, NEW orders \in Seq(Unfilled)
  PROVE  \E after : /\ FillEach(account, orders) = after[Len(orders)]
                    /\ after[0] = account
                    /\ \A i \in 1..Len(orders) : after[i] = FillOne(after[i - 1], orders[i])
<1> DEFINE L == Len(orders)
           Is(f) == f = [i \in 0..L |-> IF i = 0 THEN account ELSE FillOne(f[i - 1], orders[i])]
           step == [pair \in (1..L) \X Accounts |-> FillOne(pair[2], orders[pair[1]])]
<1>1. L \in Nat /\ \A i \in 1..L : orders[i] \in Unfilled
  BY LenProperties, ElementOfSeq
<1>2. \A i \in 1..L : \A a \in Accounts : FillOne(a, orders[i]) \in Accounts
  BY <1>1, FillOneIsAccount
<1>3. /\ step \in Steps(L, Accounts)
      /\ \A i \in 1..L : \A a \in Accounts : step[<<i, a>>] = FillOne(a, orders[i])
  BY <1>2 DEF Steps
<1> HIDE DEF step, L
<1>4. PICK f \in [0..L -> Accounts] : Follows(f, L, account, step)
  BY <1>1, <1>3, RecursionExists
<1>5. \A i \in 0..L : f[i] = IF i = 0 THEN account ELSE FillOne(f[i - 1], orders[i])
  <2> SUFFICES ASSUME NEW i \in 0..L, i # 0 PROVE f[i] = FillOne(f[i - 1], orders[i])
    BY <1>4 DEF Follows
  <2>1. i \in 1..L /\ i - 1 \in 0..L
    BY <1>1
  <2>2. f[i - 1] \in Accounts
    BY <2>1
  <2> QED
    BY <1>3, <1>4, <2>1, <2>2 DEF Follows
<1>6. Is(f)
  BY <1>5
<1> DEFINE g == CHOOSE h : Is(h)
<1>7. Is(g)
  BY <1>6
<1>8. FillEach(account, orders) = g[L]
  BY DEF FillEach, L
<1> HIDE DEF g
<1>9. g[0] = account /\ \A i \in 1..L : g[i] = FillOne(g[i - 1], orders[i])
  <2>1. 0 \in 0..L /\ \A i \in 1..L : i \in 0..L /\ i # 0
    BY <1>1
  <2> QED
    BY <1>7, <2>1
<1> QED
  BY <1>8, <1>9 DEF L

\* An order after a trade, and the orders of the book after it.
AfterTrade(resting, price) ==
  IF Touches(resting, price) THEN [resting EXCEPT !.remaining = @ - Chunk(resting)] ELSE resting
TakenBy(price) == [i \in DOMAIN book |-> AfterTrade(book[i], price)]
IsFilledUp(resting, price) == Touches(resting, price) /\ Chunk(resting) = resting.remaining

\* What a trade makes of an order: less remains of it, nothing if it is filled up.
LEMMA AfterTradeFacts ==
  ASSUME NEW resting \in Unfilled, NEW price
  PROVE  /\ AfterTrade(resting, price) \in RestingOrders
         /\ AfterTrade(resting, price).order = resting.order
         /\ AfterTrade(resting, price).intent = resting.intent
         /\ AfterTrade(resting, price).remaining \in 0..resting.intent.quantity
         /\ AfterTrade(resting, price).remaining > 0 <=> ~IsFilledUp(resting, price)
<1>1. /\ resting \in RestingOrders /\ resting.remaining \in 1..resting.intent.quantity
      /\ resting.intent.quantity \in Nat
  BY ChunkFacts DEF Unfilled
<1>2. /\ Chunk(resting) \in Nat \ {0} /\ Chunk(resting) <= resting.remaining
      /\ resting.remaining \in Nat /\ resting.remaining - Chunk(resting) \in Nat
  BY ChunkFacts
<1>3. CASE ~Touches(resting, price)
  <2>1. AfterTrade(resting, price) = resting
    BY <1>3 DEF AfterTrade
  <2> QED
    BY <1>1, <1>3, <2>1 DEF IsFilledUp
<1>4. CASE Touches(resting, price)
  <2> DEFINE less == resting.remaining - Chunk(resting)
  <2>1. AfterTrade(resting, price) = [resting EXCEPT !.remaining = less]
    BY <1>4 DEF AfterTrade
  <2>2. less \in Nat /\ less <= resting.remaining
        /\ (less > 0 <=> Chunk(resting) # resting.remaining)
    BY <1>2
  <2> HIDE DEF less
  <2>3. /\ [resting EXCEPT !.remaining = less] \in RestingOrders
        /\ [resting EXCEPT !.remaining = less].order = resting.order
        /\ [resting EXCEPT !.remaining = less].intent = resting.intent
        /\ [resting EXCEPT !.remaining = less].remaining = less
    BY <1>1, <2>2 DEF RestingOrders
  <2>4. less \in 0..resting.intent.quantity
    BY <1>1, <1>2, <2>2
  <2> QED
    BY <1>4, <2>1, <2>2, <2>3, <2>4 DEF IsFilledUp
<1> QED
  BY <1>3, <1>4

\* What stays in the book after a trade are the orders that it did not fill up, in their
\* order (ExecutionBook::retain_open).
LEMMA BookAfterTrade ==
  ASSUME IsBook(book), NEW price
  PROVE  /\ IsBook(RetainOpen(TakenBy(price)))
         /\ OrdersOf(RetainOpen(TakenBy(price))) =
              {book[i].order : i \in {k \in 1..Len(book) : ~IsFilledUp(book[k], price)}}
<1> DEFINE taken == TakenBy(price)
           L == Len(book)
           wanted == {resting \in Range(taken) : resting.remaining > 0}
           kept == RetainOpen(taken)
<1>1. /\ L \in Nat /\ DOMAIN book = 1..L /\ \A i \in 1..L : book[i] \in Unfilled
  <2>1. book \in Seq(RestingOrders)
    BY DEF IsBook
  <2>2. L \in Nat /\ DOMAIN book = 1..L /\ \A i \in 1..L : book[i] \in RestingOrders
    BY <2>1, LenProperties, ElementOfSeq
  <2> QED
    BY <2>2 DEF IsBook, Unfilled
<1>2. taken = [i \in 1..L |-> AfterTrade(book[i], price)]
  BY <1>1 DEF TakenBy
<1> HIDE DEF taken
<1>3. \A i \in 1..L : /\ taken[i] \in RestingOrders /\ taken[i].order = book[i].order
                      /\ taken[i].intent = book[i].intent
                      /\ taken[i].remaining \in 0..taken[i].intent.quantity
                      /\ taken[i].remaining > 0 <=> ~IsFilledUp(book[i], price)
  <2> SUFFICES ASSUME NEW i \in 1..L
               PROVE  /\ taken[i] \in RestingOrders /\ taken[i].order = book[i].order
                      /\ taken[i].intent = book[i].intent
                      /\ taken[i].remaining \in 0..taken[i].intent.quantity
                      /\ taken[i].remaining > 0 <=> ~IsFilledUp(book[i], price)
    OBVIOUS
  <2>1. taken[i] = AfterTrade(book[i], price) /\ book[i] \in Unfilled
    BY <1>1, <1>2
  <2> QED
    BY <2>1, AfterTradeFacts
<1>4. taken \in Seq(RestingOrders) /\ Len(taken) = L
  <2>1. taken \in [1..L -> RestingOrders]
    BY <1>2, <1>3
  <2> QED
    BY <1>1, <2>1
<1>5. kept = Selected(taken, wanted)
  BY DEF RetainOpen
<1>6. \A i \in 1..L : taken[i] \in wanted <=> taken[i].remaining > 0
  BY <1>4, LenProperties DEF Range
<1> HIDE DEF wanted, kept
<1>7. /\ kept \in Seq(RestingOrders)
      /\ \E at : ArePlaces(at, kept, taken, L, wanted)
  BY <1>4, <1>5, SelectedFacts
<1>8. PICK at : ArePlaces(at, kept, taken, L, wanted)
  BY <1>7
<1>9. /\ Len(kept) \in Nat /\ \A j \in 1..Len(kept) : at[j] \in 1..L
      /\ \A j \in 1..Len(kept) : kept[j] = taken[at[j]] /\ taken[at[j]] \in wanted
      /\ \A j, k \in 1..Len(kept) : j < k => at[j] < at[k]
      /\ \A i \in 1..L : taken[i] \in wanted => \E j \in 1..Len(kept) : at[j] = i
  BY <1>7, <1>8, LenProperties DEF ArePlaces
<1>10. \A j \in 1..Len(kept) : /\ kept[j].order = book[at[j]].order
                               /\ kept[j].remaining \in 1..kept[j].intent.quantity
                               /\ ~IsFilledUp(book[at[j]], price)
  <2> SUFFICES ASSUME NEW j \in 1..Len(kept)
               PROVE  /\ kept[j].order = book[at[j]].order
                      /\ kept[j].remaining \in 1..kept[j].intent.quantity
                      /\ ~IsFilledUp(book[at[j]], price)
    OBVIOUS
  <2>1. at[j] \in 1..L /\ kept[j] = taken[at[j]] /\ taken[at[j]].remaining > 0
    BY <1>6, <1>9
  <2>2. kept[j].intent.quantity \in Nat
    BY <1>3, <2>1 DEF RestingOrders, Intents
  <2> QED
    BY <1>3, <2>1, <2>2
<1>11. \A j, k \in 1..Len(kept) : j < k => kept[j].order < kept[k].order
  <2> SUFFICES ASSUME NEW j \in 1..Len(kept), NEW k \in 1..Len(kept), j < k
               PROVE  kept[j].order < kept[k].order
    OBVIOUS
  <2>1. at[j] \in 1..L /\ at[k] \in 1..L /\ at[j] < at[k]
    BY <1>9
  <2>2. book[at[j]].order < book[at[k]].order
    BY <2>1 DEF IsBook
  <2> QED
    BY <1>10, <2>2
<1>12. IsBook(kept)
  BY <1>7, <1>10, <1>11 DEF IsBook
<1>13. OrdersOf(kept) = {book[i].order : i \in {k \in 1..L : ~IsFilledUp(book[k], price)}}
  <2>1. OrdersOf(kept) = {kept[j].order : j \in 1..Len(kept)}
    BY DEF OrdersOf
  <2>2. {book[i].order : i \in {k \in 1..L : ~IsFilledUp(book[k], price)}}
          = {book[i].order : i \in {k \in 1..L : \E j \in 1..Len(kept) : at[j] = k}}
    <3>1. \A k \in 1..L : ~IsFilledUp(book[k], price) <=> \E j \in 1..Len(kept) : at[j] = k
      BY <1>3, <1>6, <1>9, <1>10
    <3> QED
      BY <3>1
  <2>3. {kept[j].order : j \in 1..Len(kept)}
          = {book[i].order : i \in {k \in 1..L : \E j \in 1..Len(kept) : at[j] = k}}
    <3>1. \A j \in 1..Len(kept) : at[j] \in 1..L /\ kept[j].order = book[at[j]].order
      BY <1>9, <1>10
    <3>2. ASSUME NEW j \in 1..Len(kept)
          PROVE  kept[j].order
                   \in {book[i].order : i \in {k \in 1..L : \E l \in 1..Len(kept) : at[l] = k}}
      BY <3>1
    <3>3. ASSUME NEW i \in 1..L, NEW j \in 1..Len(kept), at[j] = i
          PROVE  book[i].order \in {kept[l].order : l \in 1..Len(kept)}
      BY <3>1, <3>3
    <3> QED
      BY <3>2, <3>3
  <2> QED
    BY <2>1, <2>2, <2>3
<1> QED
  BY <1>12, <1>13 DEF kept, taken

\* The orders that rest after the first n of those that a trade touches were filled.
RestingAfter(touched, n) ==
  {o \in OrdersOf(book) :
     \A j \in 1..n : touched[j].order = o => Chunk(touched[j]) # touched[j].remaining}

\* Each order that a trade touches rests until its own fill.
LEMMA TouchedRests ==
  ASSUME IsBook(book), NEW price
  PROVE  /\ Touched(price) \in Seq(Unfilled)
         /\ \A j \in 1..Len(Touched(price)) :
              /\ Touched(price)[j].order \in OrdersOf(book)
              /\ \A k \in 1..Len(Touched(price)) :
                   k # j => Touched(price)[k].order # Touched(price)[j].order
         /\ RestingAfter(Touched(price), Len(Touched(price))) =
              {book[i].order : i \in {k \in 1..Len(book) : ~IsFilledUp(book[k], price)}}
<1> DEFINE L == Len(book)
           wanted == {resting \in Range(book) : Touches(resting, price)}
           touched == Touched(price)
<1>1. book \in Seq(Unfilled) /\ L \in Nat /\ \A i \in 1..L : book[i] \in Unfilled
  <2>1. book \in Seq(RestingOrders)
    BY DEF IsBook
  <2>2. L \in Nat /\ book \in [1..L -> RestingOrders]
        /\ \A i \in 1..L : book[i] \in RestingOrders
    BY <2>1, LenProperties, ElementOfSeq
  <2>3. \A i \in 1..L : book[i] \in Unfilled
    BY <2>2 DEF IsBook, Unfilled
  <2>4. book \in [1..L -> Unfilled]
    BY <2>2, <2>3
  <2> QED
    BY <2>2, <2>3, <2>4
<1>2. \A i \in 1..L : book[i] \in wanted <=> Touches(book[i], price)
  BY <1>1, LenProperties DEF Range
<1>3. touched = Selected(book, wanted)
  BY DEF Touched
<1> HIDE DEF wanted, touched
<1>4. touched \in Seq(Unfilled) /\ \E at : ArePlaces(at, touched, book, L, wanted)
  BY <1>1, <1>3, SelectedFacts
<1>5. PICK at : ArePlaces(at, touched, book, L, wanted)
  BY <1>4
<1>6. /\ Len(touched) \in Nat /\ \A j \in 1..Len(touched) : at[j] \in 1..L
      /\ \A j \in 1..Len(touched) : touched[j] = book[at[j]] /\ book[at[j]] \in wanted
      /\ \A j, k \in 1..Len(touched) : j < k => at[j] < at[k]
      /\ \A i \in 1..L : book[i] \in wanted => \E j \in 1..Len(touched) : at[j] = i
  BY <1>4, <1>5, LenProperties DEF ArePlaces
<1>7. \A i, k \in 1..L : /\ i < k => book[i].order < book[k].order
                         /\ book[i].order \in Nat
  BY <1>1, ChunkFacts DEF IsBook
<1>8. \A i, k \in 1..L : book[i].order = book[k].order => i = k
  <2> SUFFICES ASSUME NEW i \in 1..L, NEW k \in 1..L, book[i].order = book[k].order, i # k
               PROVE  FALSE
    OBVIOUS
  <2>1. i < k \/ k < i
    BY <1>1
  <2> QED
    BY <1>7, <2>1
<1>9. ASSUME NEW j \in 1..Len(touched)
      PROVE  /\ touched[j].order \in OrdersOf(book)
             /\ \A k \in 1..Len(touched) : k # j => touched[k].order # touched[j].order
  <2>1. touched[j].order \in OrdersOf(book)
    BY <1>6 DEF OrdersOf
  <2>2. ASSUME NEW k \in 1..Len(touched), k # j, touched[k].order = touched[j].order
        PROVE  FALSE
    <3>0. /\ at[k] \in 1..L /\ at[j] \in 1..L
          /\ touched[k] = book[at[k]] /\ touched[j] = book[at[j]]
      BY <1>6
    <3>1. at[k] = at[j]
      BY <1>8, <2>2, <3>0
    <3>2. k < j \/ j < k
      BY <1>6, <2>2
    <3> QED
      BY <1>6, <3>1, <3>2
  <2> QED
    BY <2>1, <2>2
<1>10. RestingAfter(touched, Len(touched)) =
         {book[i].order : i \in {k \in 1..L : ~IsFilledUp(book[k], price)}}
  <2>1. ASSUME NEW i \in 1..L,
               \A j \in 1..Len(touched) :
                 touched[j].order = book[i].order => Chunk(touched[j]) # touched[j].remaining
        PROVE  ~IsFilledUp(book[i], price)
    <3> SUFFICES ASSUME IsFilledUp(book[i], price) PROVE FALSE
      OBVIOUS
    <3>1. Touches(book[i], price) /\ Chunk(book[i]) = book[i].remaining
      BY DEF IsFilledUp
    <3>2. PICK j \in 1..Len(touched) : at[j] = i
      BY <1>2, <1>6, <3>1
    <3>3. touched[j] = book[i]
      BY <1>6, <3>2
    <3> QED
      BY <2>1, <3>1, <3>3
  <2>2. ASSUME NEW i \in 1..L, ~IsFilledUp(book[i], price),
               NEW j \in 1..Len(touched), touched[j].order = book[i].order
        PROVE  Chunk(touched[j]) # touched[j].remaining
    <3>1. at[j] = i
      BY <1>6, <1>8, <2>2
    <3>2. touched[j] = book[i] /\ Touches(book[i], price)
      BY <1>2, <1>6, <3>1
    <3> QED
      BY <2>2, <3>2 DEF IsFilledUp
  <2> QED
    BY <2>1, <2>2 DEF RestingAfter, OrdersOf
<1> QED
  BY <1>4, <1>9, <1>10 DEF touched

\* One more fill.
LEMMA RestingAfterOne ==
  ASSUME NEW touched, NEW n \in Nat,
         \A k \in 1..n : touched[k].order # touched[n + 1].order
  PROVE  /\ RestingAfter(touched, n + 1) = Left(touched[n + 1], RestingAfter(touched, n))
         /\ touched[n + 1].order \in OrdersOf(book)
              => touched[n + 1].order \in RestingAfter(touched, n)
<1>1. \A k \in 1..(n + 1) : k = n + 1 \/ k \in 1..n
  OBVIOUS
<1>2. n + 1 \in 1..(n + 1) /\ 1..n \subseteq 1..(n + 1)
  OBVIOUS
<1>3. CASE Chunk(touched[n + 1]) = touched[n + 1].remaining
  BY <1>1, <1>2, <1>3 DEF RestingAfter, Left
<1>4. CASE Chunk(touched[n + 1]) # touched[n + 1].remaining
  BY <1>1, <1>2, <1>4 DEF RestingAfter, Left
<1>5. touched[n + 1].order \in OrdersOf(book)
              => touched[n + 1].order \in RestingAfter(touched, n)
  BY DEF RestingAfter
<1> QED
  BY <1>3, <1>4, <1>5

\* A trade keeps rows, account and book in agreement, whatever orders it touches
\* (LivePaperExecution::process_trade).
LEMMA TradeAgrees ==
  ASSUME IsBook(book), NEW price, NEW candles \in Nat, ledger \in Seq(Rows),
         Agree(ledger, portfolio, candles, OrdersOf(book)), NEW account,
         account = FillEach([portfolio |-> portfolio, rows |-> <<>>], Touched(price))
  PROVE  /\ account \in Accounts
         /\ Agree(ledger \o account.rows, account.portfolio, candles,
                  OrdersOf(RetainOpen(TakenBy(price))))
<1> DEFINE touched == Touched(price)
           L == Len(touched)
           start == [portfolio |-> portfolio, rows |-> <<>>]
<1>1. /\ touched \in Seq(Unfilled) /\ L \in Nat
      /\ \A j \in 1..L : touched[j] \in Unfilled /\ touched[j].order \in OrdersOf(book)
      /\ \A j, k \in 1..L : k # j => touched[k].order # touched[j].order
      /\ RestingAfter(touched, L) =
           {book[i].order : i \in {k \in 1..Len(book) : ~IsFilledUp(book[k], price)}}
  BY TouchedRests, LenProperties, ElementOfSeq
<1> HIDE DEF touched
<1>2. /\ start \in Accounts /\ start.portfolio = portfolio /\ start.rows = <<>>
  <2>1. <<>> \in Seq(Rows)
    BY EmptySeq
  <2>2. portfolio \in Account /\ Balanced(portfolio, InitialCash)
    BY DEF Agree, Told, AccountTells
  <2> QED
    BY <2>1, <2>2 DEF Accounts
<1>3. PICK after : /\ FillEach(start, touched) = after[L] /\ after[0] = start
                   /\ \A i \in 1..L : after[i] = FillOne(after[i - 1], touched[i])
  <2> HIDE DEF start
  <2> QED
    BY <1>1, <1>2, FillEachBy
<1> DEFINE T == {n \in 0..L :
                  /\ after[n] \in Accounts
                  /\ Agree(ledger \o after[n].rows, after[n].portfolio, candles,
                           RestingAfter(touched, n))}
<1>4. 0 \in T
  <2>1. ledger \o <<>> = ledger
    BY ConcatEmptySeq
  <2>2. RestingAfter(touched, 0) = OrdersOf(book)
    BY DEF RestingAfter
  <2>3. 0 \in 0..L
    BY <1>1
  <2> HIDE DEF start
  <2>4. after[0].portfolio = portfolio /\ after[0].rows = <<>> /\ after[0] \in Accounts
    BY <1>2, <1>3
  <2> QED
    BY <2>1, <2>2, <2>3, <2>4
<1> HIDE DEF start
<1>5. ASSUME NEW n \in 0..(L - 1), n \in T
      PROVE  n + 1 \in T
  <2>1. n + 1 \in 1..L /\ n \in Nat /\ (n + 1) - 1 = n /\ 1..n \subseteq 1..L /\ n + 1 \in 0..L
        /\ \A k \in 1..n : k # n + 1
    BY <1>1
  <2>2. after[n + 1] = FillOne(after[n], touched[n + 1]) /\ touched[n + 1] \in Unfilled
    BY <1>1, <1>3, <2>1
  <2>3. \A k \in 1..n : touched[k].order # touched[n + 1].order
    BY <1>1, <2>1
  <2>4. /\ RestingAfter(touched, n + 1) = Left(touched[n + 1], RestingAfter(touched, n))
        /\ touched[n + 1].order \in RestingAfter(touched, n)
    BY <1>1, <2>1, <2>3, RestingAfterOne
  <2>5. /\ after[n] \in Accounts
        /\ Agree(ledger \o after[n].rows, after[n].portfolio, candles, RestingAfter(touched, n))
    BY <1>5
  <2>6. /\ FillOne(after[n], touched[n + 1]) \in Accounts
        /\ Agree(ledger \o FillOne(after[n], touched[n + 1]).rows,
                 FillOne(after[n], touched[n + 1]).portfolio, candles,
                 Left(touched[n + 1], RestingAfter(touched, n)))
    BY <2>2, <2>4, <2>5, FillOneAgrees
  <2> QED
    BY <2>1, <2>2, <2>4, <2>6
<1>6. L \in T
  <2> HIDE DEF T, L
  <2>0. L \in Nat
    BY <1>1 DEF L
  <2>1. \A n \in 0..L : n \in T
    BY <1>4, <1>5, <2>0, EveryUpTo
  <2> QED
    BY <2>0, <2>1
<1>7. RestingAfter(touched, L) = OrdersOf(RetainOpen(TakenBy(price)))
  BY <1>1, BookAfterTrade
<1>8. account = after[L]
  BY <1>3 DEF start, touched
<1> QED
  BY <1>6, <1>7, <1>8

-----------------------------------------------------------------------------
(* The start and the end *)

\* A sequence of one more is the sequence with one more.
LEMMA FirstGrows ==
  ASSUME NEW V, NEW n \in Nat, NEW f, \A i \in 1..(n + 1) : f[i] \in V
  PROVE  /\ [i \in 1..n |-> f[i]] \in Seq(V)
         /\ [i \in 1..(n + 1) |-> f[i]] = Append([i \in 1..n |-> f[i]], f[n + 1])
<1> DEFINE s == [i \in 1..n |-> f[i]]
           t == [i \in 1..(n + 1) |-> f[i]]
<1>1. /\ n + 1 \in 1..(n + 1) /\ \A i \in 1..n : i \in 1..(n + 1)
      /\ \A i \in 1..(n + 1) : i = n + 1 \/ i \in 1..n
  OBVIOUS
<1>2. s \in Seq(V) /\ Len(s) = n /\ t \in Seq(V) /\ Len(t) = n + 1
  <2>1. s \in [1..n -> V] /\ t \in [1..(n + 1) -> V]
    BY <1>1
  <2> QED
    BY <2>1
<1>3. /\ Append(s, f[n + 1]) \in Seq(V) /\ Len(Append(s, f[n + 1])) = n + 1
      /\ Append(s, f[n + 1])[n + 1] = f[n + 1]
      /\ \A i \in 1..n : Append(s, f[n + 1])[i] = s[i]
  BY <1>1, <1>2, AppendProperties
<1>4. \A i \in 1..(n + 1) : t[i] = Append(s, f[n + 1])[i]
  BY <1>1, <1>3
<1> HIDE DEF s, t
<1>5. t = Append(s, f[n + 1])
  BY <1>2, <1>3, <1>4, SeqEqual
<1> QED
  BY <1>2, <1>5 DEF s, t

\* The rows that end a run close every order that rests, and leave the account as it is
\* (LivePaperExecution::expire_pending, PaperRunCore::stop and fail).
LEMMA EndAgrees ==
  ASSUME IsBook(book), NEW candles \in Nat, ledger \in Seq(Rows),
         Agree(ledger, portfolio, candles, OrdersOf(book)), NEW status \in {"failed", "stopped"}
  PROVE  /\ EndRows(status) \in Seq(Rows) /\ EndRows(status) # <<>>
         /\ Agree(ledger \o EndRows(status), portfolio, candles, {})
<1> DEFINE L == Len(book)
           row == [i \in 1..L |-> OrderStateRow(book[i].order, "expired",
                                                book[i].intent.quantity - book[i].remaining)]
           first(n) == [i \in 1..n |-> row[i]]
           left(n) == {o \in OrdersOf(book) : \A j \in 1..n : book[j].order # o}
<1>1. /\ L \in Nat /\ DOMAIN book = 1..L
      /\ \A i \in 1..L : book[i] \in RestingOrders
  BY LenProperties, ElementOfSeq DEF IsBook
<1>2. \A i \in 1..L : /\ row[i] \in Rows /\ row[i].kind = "order_state"
                      /\ row[i].order = book[i].order /\ row[i].status = "expired"
  <2> SUFFICES ASSUME NEW i \in 1..L
               PROVE  /\ row[i] \in Rows /\ row[i].kind = "order_state"
                      /\ row[i].order = book[i].order /\ row[i].status = "expired"
    OBVIOUS
  <2>1. /\ book[i].order \in Nat /\ book[i].intent.quantity - book[i].remaining \in Int
    BY <1>1 DEF RestingOrders, Intents
  <2>2. row[i] = OrderStateRow(book[i].order, "expired",
                               book[i].intent.quantity - book[i].remaining)
    OBVIOUS
  <2> HIDE DEF row
  <2>3. row[i] \in Rows
    BY <2>1, <2>2, RowMakers
  <2> QED
    BY <2>2, <2>3 DEF OrderStateRow
<1>3. EndRows(status) = first(L) \o <<StatusRow(status)>>
  BY <1>1 DEF EndRows
<1> HIDE DEF row, L
<1> DEFINE T == {n \in 0..L : first(n) \in Seq(Rows)
                              /\ Agree(ledger \o first(n), portfolio, candles, left(n))}
<1>4. 0 \in T
  <2>1. first(0) = <<>> /\ 0 \in 0..L
    BY <1>1
  <2>2. ledger \o <<>> = ledger
    BY ConcatEmptySeq
  <2>3. left(0) = OrdersOf(book)
    OBVIOUS
  <2>4. <<>> \in Seq(Rows)
    BY EmptySeq
  <2> HIDE DEF first, left
  <2> QED
    BY <2>1, <2>2, <2>3, <2>4
<1>5. ASSUME NEW n \in 0..(L - 1), n \in T
      PROVE  n + 1 \in T
  <2>1. n \in Nat /\ n + 1 \in 1..L /\ n + 1 \in 0..L /\ 1..(n + 1) \subseteq 1..L
    BY <1>1
  <2>2. first(n) \in Seq(Rows) /\ first(n + 1) = Append(first(n), row[n + 1])
    BY <1>2, <2>1, FirstGrows
  <2>3. Agree(ledger \o first(n), portfolio, candles, left(n))
    BY <1>5
  <2>4. row[n + 1].order \in left(n)
    <3>1. book[n + 1].order \in OrdersOf(book)
      BY <2>1 DEF OrdersOf, L
    <3>2. \A j \in 1..n : book[j].order < book[n + 1].order
      BY <2>1 DEF IsBook, L
    <3>3. \A j \in 1..n : book[j].order \in Nat
      BY <1>1, <2>1 DEF RestingOrders
    <3>4. \A j \in 1..n : book[j].order # book[n + 1].order
      BY <3>2, <3>3
    <3> QED
      BY <1>2, <2>1, <3>1, <3>4
  <2>5. left(n + 1) = left(n) \ {row[n + 1].order}
    <3>1. \A j \in 1..(n + 1) : j = n + 1 \/ j \in 1..n
      BY <2>1
    <3>2. n + 1 \in 1..(n + 1) /\ 1..n \subseteq 1..(n + 1)
      BY <2>1
    <3> QED
      BY <1>2, <2>1, <3>1, <3>2
  <2> DEFINE log == ledger \o first(n)
  <2>6. ledger \o first(n + 1) = Append(log, row[n + 1])
    <3> DEFINE one == row[n + 1]
               some == first(n)
    <3>1. one \in Rows /\ some \in Seq(Rows) /\ first(n + 1) = Append(some, one)
      BY <1>2, <2>1, <2>2
    <3> HIDE DEF first, one, some
    <3>2. ledger \o Append(some, one) = Append(ledger \o some, one)
      BY <3>1, ConcatThenAppend
    <3>3. ledger \o first(n + 1) = Append(ledger \o some, one)
      BY <3>1, <3>2
    <3> QED
      BY <3>3 DEF one, some
  <2>7. log \in Seq(Rows) /\ Told(log, portfolio, candles) /\ OrdersTell(log, left(n))
    BY <2>3 DEF Agree
  <2> HIDE DEF first, left, log
  <2>8. row[n + 1] \in Rows /\ row[n + 1].kind = "order_state" /\ row[n + 1].status = "expired"
    BY <1>2, <2>1
  <2>9. Told(Append(log, row[n + 1]), portfolio, candles)
    BY <2>7, <2>8, OtherRow
  <2>10. OrdersTell(Append(log, row[n + 1]), left(n) \ {row[n + 1].order})
    <3>1. OrdersTell(Append(log, row[n + 1]),
                     IF row[n + 1].status \in TerminalStates
                     THEN left(n) \ {row[n + 1].order} ELSE left(n))
      BY <2>4, <2>7, <2>8, StateTells
    <3> QED
      BY <2>8, <3>1 DEF TerminalStates
  <2>11. Append(log, row[n + 1]) \in Seq(Rows) /\ first(n + 1) \in Seq(Rows)
    BY <2>2, <2>7, <2>8, AppendProperties
  <2>12. Agree(ledger \o first(n + 1), portfolio, candles, left(n + 1))
    BY <2>5, <2>6, <2>9, <2>10, <2>11 DEF Agree
  <2> QED
    BY <2>1, <2>11, <2>12
<1>6. first(L) \in Seq(Rows) /\ Agree(ledger \o first(L), portfolio, candles, {})
  <2>1. left(L) = {}
    BY DEF OrdersOf, L
  <2>2. L \in T
    <3> HIDE DEF T
    <3>1. \A n \in 0..L : n \in T
      BY <1>1, <1>4, <1>5, EveryUpTo
    <3> QED
      BY <1>1, <3>1
  <2> HIDE DEF first, left
  <2> QED
    BY <2>1, <2>2
<1> DEFINE expired == first(L)
           last == StatusRow(status)
<1>7. expired \in Seq(Rows) /\ Agree(ledger \o expired, portfolio, candles, {})
  BY <1>6
<1> HIDE DEF first, expired
<1>8. last \in Rows /\ last.kind = "run_status"
  BY RowMakers DEF StatusRow
<1> HIDE DEF last
<1>9. EndRows(status) = Append(expired, last)
  BY <1>3, <1>7, <1>8, AppendIsConcat DEF expired, last
<1>10. ledger \o Append(expired, last) = Append(ledger \o expired, last)
  BY <1>7, <1>8, ConcatThenAppend
<1>11. /\ Append(expired, last) \in Seq(Rows) /\ Append(expired, last) # <<>>
  BY <1>7, <1>8, AppendProperties
<1>12. Agree(Append(ledger \o expired, last), portfolio, candles, {})
  <2> DEFINE log == ledger \o expired
  <2>1. log \in Seq(Rows) /\ Told(log, portfolio, candles) /\ OrdersTell(log, {})
    BY <1>7 DEF Agree
  <2> HIDE DEF log
  <2>2. Told(Append(log, last), portfolio, candles)
    BY <1>8, <2>1, OtherRow
  <2>3. OrdersTell(Append(log, last), {})
    BY <1>8, <2>1, NoOrderRow
  <2>4. Append(log, last) \in Seq(Rows)
    BY <1>8, <2>1, AppendProperties
  <2> QED
    BY <2>2, <2>3, <2>4 DEF Agree, log
<1> QED
  BY <1>9, <1>10, <1>11, <1>12

\* Before any row there is a new account and no order.
LEMMA NothingTold ==
  /\ Told(<<>>, NewPortfolio(InitialCash), 0) /\ OrdersTell(<<>>, {})
  /\ Agree(<<>>, NewPortfolio(InitialCash), 0, {})
<1>1. Len(<<>>) = 0 /\ <<>> \in Seq(Rows) /\ 1..0 = {}
  BY EmptySeq
<1>2. /\ NewPortfolio(InitialCash) \in Account
      /\ Balanced(NewPortfolio(InitialCash), InitialCash)
      /\ NewPortfolio(InitialCash).cash = InitialCash
      /\ NewPortfolio(InitialCash).quantity = 0 /\ NewPortfolio(InitialCash).cost = 0
  <2>1. InitialCash \in Int
    BY RecordsAssumption
  <2> QED
    BY <2>1, NewIsBalanced DEF NewPortfolio
<1>3. AccountTells(<<>>, NewPortfolio(InitialCash))
  BY <1>2, NothingFilled, NoRows DEF AccountTells, FillAudit
<1>4. RowsTell(<<>>)
  BY <1>1 DEF RowsTell
<1>5. LatestTell(<<>>, NewPortfolio(InitialCash), 0)
  BY <1>1, <1>2, NoRows DEF LatestTell, FillAudit
<1>6. OrdersTell(<<>>, {})
  BY <1>1, NoRows DEF OrdersTell
<1> QED
  BY <1>1, <1>3, <1>4, <1>5, <1>6 DEF Told, Agree

\* A status or a decision appended to rows that agree.
LEMMA OtherAgrees ==
  ASSUME NEW log, NEW p, NEW candles, NEW resting, Agree(log, p, candles, resting),
         NEW row \in Rows, row.kind \notin {"fill", "position", "equity", "order_state"}
  PROVE  /\ Agree(Append(log, row), p, candles, resting)
         /\ Orders(Append(log, row)) = Orders(log)
         /\ \A o : StatesOf(Append(log, row), o) = StatesOf(log, o)
<1>1. log \in Seq(Rows) /\ Told(log, p, candles) /\ OrdersTell(log, resting)
  BY DEF Agree
<1>2. Told(Append(log, row), p, candles)
  BY <1>1, OtherRow
<1>3. OrdersTell(Append(log, row), resting) /\ Orders(Append(log, row)) = Orders(log)
  BY <1>1, NoOrderRow
<1>4. Append(log, row) \in Seq(Rows)
  BY <1>1, AppendProperties
<1>5. \A o : StatesOf(Append(log, row), o) = StatesOf(log, o)
  BY <1>1, StatesGrow
<1> QED
  BY <1>2, <1>3, <1>4, <1>5 DEF Agree

\* The rows of a log that have made the first n orders and no other.
HasOrders(log, n) ==
  /\ Agree(log, NewPortfolio(InitialCash), 0, 1..n)
  /\ Len(Orders(log)) = n
  /\ \A o \in Nat : o > n => StatesOf(log, o) = <<>>

\* An intent, its order and the order's acceptance (persist_strategy_output).
LEMMA OneMoreOrder ==
  ASSUME NEW log, NEW n \in Nat, HasOrders(log, n), NEW intent \in Intents
  PROVE  /\ IntentRow(intent) \in Rows /\ OrderRow(n + 1, intent) \in Rows
         /\ OrderStateRow(n + 1, "accepted", 0) \in Rows
         /\ HasOrders(Append(Append(Append(log, IntentRow(intent)), OrderRow(n + 1, intent)),
                             OrderStateRow(n + 1, "accepted", 0)), n + 1)
<1> DEFINE a == IntentRow(intent)
           b == OrderRow(n + 1, intent)
           c == OrderStateRow(n + 1, "accepted", 0)
           p == NewPortfolio(InitialCash)
           log1 == Append(log, a)
           log2 == Append(log1, b)
           log3 == Append(log2, c)
<1>0. n + 1 \in Nat /\ 0 \in Int
  OBVIOUS
<1>1. /\ a \in Rows /\ b \in Rows /\ c \in Rows
      /\ a.kind = "order_intent" /\ b.kind = "order_state" /\ c.kind = "order_state"
      /\ b.status = "created" /\ c.status = "accepted" /\ b.order = n + 1 /\ c.order = n + 1
  <2>1. a \in Rows /\ b \in Rows /\ c \in Rows
    BY <1>0, RowMakers
  <2> QED
    BY <2>1 DEF IntentRow, OrderRow, OrderStateRow
<1> HIDE DEF a, b, c, p
<1>2. /\ Agree(log, p, 0, 1..n) /\ Len(Orders(log)) = n
      /\ \A o \in Nat : o > n => StatesOf(log, o) = <<>>
  BY DEF HasOrders, p
<1>3. /\ Agree(log1, p, 0, 1..n) /\ Len(Orders(log1)) = n
      /\ \A o : StatesOf(log1, o) = StatesOf(log, o)
  BY <1>1, <1>2, OtherAgrees
<1>4. log1 \in Seq(Rows) /\ Told(log1, p, 0) /\ OrdersTell(log1, 1..n)
  BY <1>3 DEF Agree
<1>5. StatesOf(log1, n + 1) = <<>>
  BY <1>0, <1>2, <1>3
<1> HIDE DEF log1
<1>6. Told(log2, p, 0) /\ log2 \in Seq(Rows)
  <2>1. b.kind \notin {"fill", "position", "equity"}
    BY <1>1
  <2> QED
    BY <1>1, <1>4, <2>1, OtherRow, AppendProperties
<1>7. OrdersTell(log2, (1..n) \cup {n + 1}) /\ Len(Orders(log2)) = n + 1
  BY <1>1, <1>3, <1>4, <1>5, CreatedTells
<1>8. \A o \in Nat : o > n + 1 => StatesOf(log2, o) = <<>>
  <2>1. \A o : o # n + 1 => StatesOf(log2, o) = StatesOf(log1, o)
    BY <1>1, <1>4, StatesGrow
  <2> QED
    BY <1>2, <1>3, <2>1
<1> HIDE DEF log2
<1>9. Told(log3, p, 0) /\ log3 \in Seq(Rows)
  <2>1. c.kind \notin {"fill", "position", "equity"}
    BY <1>1
  <2> QED
    BY <1>1, <1>6, <2>1, OtherRow, AppendProperties
<1>10. OrdersTell(log3, 1..(n + 1)) /\ Len(Orders(log3)) = n + 1
  <2>1. (1..n) \cup {n + 1} = 1..(n + 1) /\ n + 1 \in 1..(n + 1)
    OBVIOUS
  <2>2. OrdersTell(log3, IF c.status \in TerminalStates THEN (1..(n + 1)) \ {c.order}
                         ELSE 1..(n + 1))
    BY <1>1, <1>6, <1>7, <2>1, StateTells
  <2>3. c.status \notin TerminalStates
    BY <1>1 DEF TerminalStates
  <2>4. Orders(log3) = Orders(log2)
    BY <1>1, <1>6, OrdersGrow
  <2> QED
    BY <1>7, <2>2, <2>3, <2>4
<1>11. \A o \in Nat : o > n + 1 => StatesOf(log3, o) = <<>>
  <2>1. \A o : o # n + 1 => StatesOf(log3, o) = StatesOf(log2, o)
    BY <1>1, <1>6, StatesGrow
  <2> QED
    BY <1>8, <2>1
<1>12. HasOrders(log3, n + 1)
  BY <1>9, <1>10, <1>11 DEF HasOrders, Agree, p
<1> QED
  BY <1>1, <1>12 DEF log3, log2, log1, a, b, c

\* The rows that a start writes tell of a new account and of an order for each intent
\* (PaperRunCore::start).
LEMMA StartAgrees ==
  ASSUME NEW intents \in Seq(Intents)
  PROVE  /\ <<StatusRow("created")>> \in Seq(Rows)
         /\ StartRows(intents) \in Seq(Rows) /\ StartRows(intents) # <<>>
         /\ Agree(<<StatusRow("created")>> \o StartRows(intents),
                  NewPortfolio(InitialCash), 0, 1..Len(intents))
<1> DEFINE L == Len(intents)
           three(i) == <<IntentRow(intents[i]), OrderRow(i, intents[i]),
                         OrderStateRow(i, "accepted", 0)>>
           base == <<StatusRow("running"), DecisionRow>>
           Is(f) == f = [i \in 0..L |-> IF i = 0 THEN base ELSE f[i - 1] \o three(i)]
           step == [pair \in (1..L) \X Seq(Rows) |-> pair[2] \o three(pair[1])]
           written == <<StatusRow("created")>>
<1>1. L \in Nat /\ \A i \in 1..L : intents[i] \in Intents
  BY LenProperties, ElementOfSeq
<1>2. ASSUME NEW i \in 1..L
      PROVE  three(i) \in Seq(Rows)
  <2>1. IntentRow(intents[i]) \in Rows
    BY <1>1, RowMakers
  <2>2. OrderRow(i, intents[i]) \in Rows /\ OrderStateRow(i, "accepted", 0) \in Rows
    <3>1. i \in Nat /\ 0 \in Int
      OBVIOUS
    <3> QED
      BY <1>1, <3>1, RowMakers
  <2> QED
    BY <2>1, <2>2
<1> HIDE DEF three
<1>3. /\ StatusRow("running") \in Rows /\ StatusRow("running").kind = "run_status"
      /\ StatusRow("created") \in Rows /\ StatusRow("created").kind = "run_status"
      /\ DecisionRow \in Rows /\ DecisionRow.kind = "decision"
  BY RowMakers DEF StatusRow, DecisionRow
<1>4. base \in Seq(Rows) /\ written \in Seq(Rows)
  BY <1>3
<1>5. /\ step \in Steps(L, Seq(Rows))
      /\ \A i \in 1..L : \A s \in Seq(Rows) : step[<<i, s>>] = s \o three(i)
  <2>1. \A i \in 1..L : \A s \in Seq(Rows) : s \o three(i) \in Seq(Rows)
    BY <1>2, ConcatProperties
  <2> QED
    BY <2>1 DEF Steps
<1> HIDE DEF base, step, L
<1>6. PICK f \in [0..L -> Seq(Rows)] : Follows(f, L, base, step)
  BY <1>1, <1>4, <1>5, RecursionExists
<1>7. \A i \in 0..L : f[i] = IF i = 0 THEN base ELSE f[i - 1] \o three(i)
  <2> SUFFICES ASSUME NEW i \in 0..L, i # 0 PROVE f[i] = f[i - 1] \o three(i)
    BY <1>6 DEF Follows
  <2>1. i \in 1..L /\ i - 1 \in 0..L
    BY <1>1
  <2>2. f[i - 1] \in Seq(Rows)
    BY <2>1
  <2>3. f[i] = step[<<i, f[i - 1]>>]
    BY <1>6, <2>1 DEF Follows
  <2> QED
    BY <1>5, <2>1, <2>2, <2>3
<1>8. Is(f)
  BY <1>7
<1> DEFINE g == CHOOSE h : Is(h)
<1>9. Is(g)
  BY <1>8
<1>10. StartRows(intents) = g[L]
  BY DEF StartRows, L, base, three
<1> HIDE DEF g
<1>11. g[0] = base /\ \A i \in 1..L : g[i] = g[i - 1] \o three(i)
  <2>1. 0 \in 0..L /\ \A i \in 1..L : i \in 0..L /\ i # 0
    BY <1>1
  <2> QED
    BY <1>9, <2>1
<1> DEFINE T == {n \in 0..L : /\ g[n] \in Seq(Rows) /\ g[n] # <<>>
                              /\ HasOrders(written \o g[n], n)}
<1>12. 0 \in T
  <2>1. written = Append(<<>>, StatusRow("created"))
    OBVIOUS
  <2>2. /\ Agree(written, NewPortfolio(InitialCash), 0, {}) /\ Orders(written) = <<>>
        /\ \A o : StatesOf(written, o) = <<>>
    <3> DEFINE none == <<>>
               row == StatusRow("created")
               p == NewPortfolio(InitialCash)
    <3>1. Agree(none, p, 0, {}) /\ Orders(none) = <<>> /\ \A o : StatesOf(none, o) = <<>>
      BY NothingTold, NoRows
    <3>2. row \in Rows /\ row.kind \notin {"fill", "position", "equity", "order_state"}
      BY <1>3
    <3> HIDE DEF none, row, p
    <3>3. /\ Agree(Append(none, row), p, 0, {}) /\ Orders(Append(none, row)) = Orders(none)
          /\ \A o : StatesOf(Append(none, row), o) = StatesOf(none, o)
      BY <3>1, <3>2, OtherAgrees
    <3>4. written = Append(none, row)
      BY <2>1 DEF none, row
    <3> QED
      BY <3>1, <3>3, <3>4 DEF p
  <2> HIDE DEF written
  <2> DEFINE running == Append(written, StatusRow("running"))
  <2>3. /\ Agree(running, NewPortfolio(InitialCash), 0, {}) /\ Orders(running) = <<>>
        /\ \A o : StatesOf(running, o) = <<>>
    BY <1>3, <2>2, OtherAgrees
  <2> HIDE DEF running
  <2>4. /\ Agree(Append(running, DecisionRow), NewPortfolio(InitialCash), 0, {})
        /\ Orders(Append(running, DecisionRow)) = <<>>
        /\ \A o : StatesOf(Append(running, DecisionRow), o) = <<>>
    BY <1>3, <2>3, OtherAgrees
  <2>5. written \o base = Append(running, DecisionRow)
    <3> DEFINE a == StatusRow("running")
               b == DecisionRow
    <3>1. base = Append(<<a>>, b) /\ <<a>> \in Seq(Rows) /\ a \in Rows /\ b \in Rows
      BY <1>3 DEF base
    <3>2. written \o <<a>> = Append(written, a)
      BY <1>3, <1>4, AppendIsConcat
    <3> HIDE DEF a, b
    <3>3. written \o Append(<<a>>, b) = Append(written \o <<a>>, b)
      BY <1>4, <3>1, ConcatThenAppend
    <3> QED
      BY <3>1, <3>2, <3>3 DEF a, b, running
  <2>6. Len(<<>>) = 0 /\ 1..0 = {} /\ 0 \in 0..L
    BY <1>1, EmptySeq
  <2>7. HasOrders(written \o base, 0)
    BY <2>4, <2>5, <2>6 DEF HasOrders
  <2>8. base # <<>>
    BY DEF base
  <2> QED
    BY <1>4, <1>11, <2>6, <2>7, <2>8
<1> HIDE DEF written
<1>13. ASSUME NEW n \in 0..(L - 1), n \in T
       PROVE  n + 1 \in T
  <2>1. n \in Nat /\ n + 1 \in 1..L /\ n + 1 \in 0..L /\ (n + 1) - 1 = n
    BY <1>1
  <2> DEFINE intent == intents[n + 1]
             a == IntentRow(intent)
             b == OrderRow(n + 1, intent)
             c == OrderStateRow(n + 1, "accepted", 0)
             so == g[n]
             log == written \o so
  <2>2. so \in Seq(Rows) /\ so # <<>> /\ HasOrders(log, n) /\ intent \in Intents
    BY <1>1, <1>13, <2>1
  <2> HIDE DEF intent, so, log
  <2>3. /\ a \in Rows /\ b \in Rows /\ c \in Rows
        /\ HasOrders(Append(Append(Append(log, a), b), c), n + 1)
    BY <2>1, <2>2, OneMoreOrder
  <2>4. g[n + 1] = so \o <<a, b, c>>
    BY <1>11, <2>1 DEF so, three, intent
  <2> HIDE DEF a, b, c
  <2>5. /\ so \o <<a, b, c>> = Append(Append(Append(so, a), b), c)
        /\ Append(so, a) \in Seq(Rows) /\ Append(Append(so, a), b) \in Seq(Rows)
        /\ Append(Append(Append(so, a), b), c) \in Seq(Rows)
        /\ Append(Append(Append(so, a), b), c) # <<>>
    <3>1. so \o <<a, b, c>> = Append(Append(Append(so, a), b), c)
      BY <2>2, <2>3, ManyAppended
    <3>2. \A s \in Seq(Rows) : \A r \in Rows : Append(s, r) \in Seq(Rows) /\ Append(s, r) # <<>>
      BY AppendProperties
    <3> QED
      BY <2>2, <2>3, <3>1, <3>2
  <2>6. written \o Append(Append(Append(so, a), b), c) = Append(Append(Append(log, a), b), c)
    <3>1. written \o Append(so, a) = Append(log, a)
      BY <1>4, <2>2, <2>3, ConcatThenAppend DEF log
    <3> DEFINE s1 == Append(so, a)
    <3>2. s1 \in Seq(Rows) /\ Append(s1, b) \in Seq(Rows)
      BY <2>5
    <3> HIDE DEF s1
    <3>3. written \o Append(s1, b) = Append(written \o s1, b)
      BY <1>4, <2>3, <3>2, ConcatThenAppend
    <3> DEFINE s2 == Append(s1, b)
    <3>4. s2 \in Seq(Rows)
      BY <3>2
    <3> HIDE DEF s2
    <3>5. written \o Append(s2, c) = Append(written \o s2, c)
      BY <1>4, <2>3, <3>4, ConcatThenAppend
    <3> QED
      BY <3>1, <3>3, <3>5 DEF s1, s2
  <2>7. HasOrders(written \o g[n + 1], n + 1) /\ g[n + 1] \in Seq(Rows) /\ g[n + 1] # <<>>
    BY <2>3, <2>4, <2>5, <2>6
  <2> QED
    BY <2>1, <2>7
<1>14. L \in T
  <2> HIDE DEF T
  <2>1. \A n \in 0..L : n \in T
    BY <1>1, <1>12, <1>13, EveryUpTo
  <2> QED
    BY <1>1, <2>1
<1> QED
  BY <1>4, <1>10, <1>14 DEF HasOrders, L, written

\* A grid that is refused: the run was created, ran and failed.
LEMMA RefusalAgrees ==
  /\ <<StatusRow("running"), StatusRow("failed")>> \in Seq(Rows)
  /\ Agree(<<StatusRow("created")>> \o <<StatusRow("running"), StatusRow("failed")>>,
           NewPortfolio(InitialCash), 0, {})
<1> DEFINE a == StatusRow("created")
           b == StatusRow("running")
           c == StatusRow("failed")
<1>1. /\ a \in Rows /\ a.kind = "run_status" /\ b \in Rows /\ b.kind = "run_status"
      /\ c \in Rows /\ c.kind = "run_status"
  BY RowMakers DEF StatusRow
<1> HIDE DEF a, b, c
<1>2. <<a>> = Append(<<>>, a) /\ <<b, c>> = Append(<<b>>, c) /\ <<b, c>> \in Seq(Rows)
      /\ <<a>> \in Seq(Rows) /\ <<b>> \in Seq(Rows)
  BY <1>1
<1>3. Agree(Append(Append(Append(<<>>, a), b), c), NewPortfolio(InitialCash), 0, {})
  <2>1. Agree(Append(<<>>, a), NewPortfolio(InitialCash), 0, {})
    BY <1>1, NothingTold, OtherAgrees
  <2>2. Agree(Append(Append(<<>>, a), b), NewPortfolio(InitialCash), 0, {})
    BY <1>1, <2>1, OtherAgrees
  <2> QED
    BY <1>1, <2>2, OtherAgrees
<1>4. <<a>> \o <<b, c>> = Append(Append(Append(<<>>, a), b), c)
  <2> DEFINE s == <<a>>
             t == <<b>>
  <2>1. s \in Seq(Rows) /\ t \in Seq(Rows) /\ s = Append(<<>>, a) /\ <<b, c>> = Append(t, c)
    BY <1>2
  <2>2. s \o t = Append(s, b)
    BY <1>1, <2>1, AppendIsConcat
  <2> HIDE DEF s, t
  <2>3. s \o Append(t, c) = Append(s \o t, c)
    BY <1>1, <2>1, ConcatThenAppend
  <2> QED
    BY <2>1, <2>2, <2>3 DEF s
<1> QED
  BY <1>2, <1>3, <1>4 DEF a, b, c

-----------------------------------------------------------------------------
(* Time *)

\* There is one quotient.
LEMMA QuotientIs ==
  ASSUME NEW t \in Int, NEW q \in Int, NEW u \in Nat \ {0}, q * u <= t, t < q * u + u
  PROVE  t \div u = q
<1> DEFINE p == t \div u
<1>1. p \in Int /\ p * u <= t /\ t < p * u + u
  OBVIOUS
<1> HIDE DEF p
<1>2. CASE p < q
  <2>1. q - p - 1 \in Nat /\ u \in Nat
    BY <1>1, <1>2
  <2>2. (q - p - 1) * u \in Nat
    BY <2>1
  <2>3. (q - p - 1) * u = q * u - p * u - u
    BY <1>1
  <2> QED
    BY <1>1, <2>2, <2>3
<1>3. CASE q < p
  <2>1. p - q - 1 \in Nat /\ u \in Nat
    BY <1>1, <1>3
  <2>2. (p - q - 1) * u \in Nat
    BY <2>1
  <2>3. (p - q - 1) * u = p * u - q * u - u
    BY <1>1
  <2> QED
    BY <1>1, <2>2, <2>3
<1> QED
  BY <1>1, <1>2, <1>3 DEF p

\* A multiple is what leaves no rest.
LEMMA MultipleRest ==
  ASSUME NEW a \in Int, NEW u \in Nat \ {0}
  PROVE  IsMultiple(a, u) <=> a % u = 0
<1> DEFINE q == a \div u
           r == a % u
<1>1. a = q * u + r /\ q \in Int /\ r \in Int
  <2>1. a % u = a - u * (a \div u)
    OBVIOUS
  <2>2. q \in Int /\ r \in Int /\ r = a - u * q
    BY <2>1
  <2> HIDE DEF q, r
  <2> QED
    BY <2>2
<1>2. ASSUME IsMultiple(a, u)
      PROVE  a % u = 0
  <2>1. PICK k \in Int : a = k * u
    BY <1>2 DEF IsMultiple
  <2>2. k * u \in Int
    OBVIOUS
  <2>3. a \div u = k
    BY <2>1, <2>2, QuotientIs
  <2>4. q = k
    BY <2>3
  <2> HIDE DEF q, r
  <2>5. r = 0
    BY <1>1, <2>1, <2>2, <2>4
  <2> QED
    BY <2>5 DEF r
<1>3. ASSUME a % u = 0
      PROVE  IsMultiple(a, u)
  <2>1. a = q * u
    BY <1>1, <1>3
  <2> QED
    BY <1>1, <2>1 DEF IsMultiple
<1> QED
  BY <1>2, <1>3

\* The start of a bucket, whatever its length (TradingInterval::bucket_open_ms).
LEMMA FloorFacts ==
  ASSUME NEW t \in Int, NEW u \in Nat \ {0}
  PROVE  /\ Floor(t, u) \in Int /\ Floor(t, u) <= t /\ t < Floor(t, u) + u
         /\ IsMultiple(Floor(t, u), u)
         /\ t \in Nat => Floor(t, u) \in Nat
<1> DEFINE p == t \div u
<1>1. p \in Int /\ p * u <= t /\ t < p * u + u /\ p * u \in Int /\ (t \in Nat => p \in Nat)
  OBVIOUS
<1>2. Floor(t, u) = p * u
  BY DEF Floor
<1> HIDE DEF p
<1>3. p \in Nat => p * u \in Nat
  OBVIOUS
<1> QED
  BY <1>1, <1>2, <1>3 DEF IsMultiple

\* There is one bucket that holds a time.
LEMMA FloorIs ==
  ASSUME NEW t \in Int, NEW a \in Int, NEW u \in Nat \ {0}, IsMultiple(a, u),
         a <= t, t < a + u
  PROVE  Floor(t, u) = a
<1>1. PICK k \in Int : a = k * u
  BY DEF IsMultiple
<1>2. t \div u = k
  BY <1>1, QuotientIs
<1> QED
  BY <1>1, <1>2 DEF Floor

\* Multiples of a unit, and the ones next to them.
LEMMA MultipleFacts ==
  ASSUME NEW a \in Int, NEW u \in Nat \ {0}, IsMultiple(a, u)
  PROVE  /\ IsMultiple(a + u, u) /\ IsMultiple(a - u, u)
         /\ \A n \in Int : n * u \in Int /\ IsMultiple(a + n * u, u)
         /\ \A b \in Int : IsMultiple(b, u) => IsMultiple(b - a, u)
         /\ \A b \in Int : IsMultiple(b, u) /\ a < b => a + u <= b
<1>1. PICK k \in Int : a = k * u
  BY DEF IsMultiple
<1>2. k + 1 \in Int /\ k - 1 \in Int /\ a + u = (k + 1) * u /\ a - u = (k - 1) * u
  BY <1>1
<1>3. ASSUME NEW n \in Int
      PROVE  n * u \in Int /\ IsMultiple(a + n * u, u)
  <2>1. k + n \in Int /\ a + n * u = (k + n) * u
    BY <1>1
  <2> QED
    BY <2>1 DEF IsMultiple
<1>4. ASSUME NEW b \in Int, IsMultiple(b, u)
      PROVE  IsMultiple(b - a, u) /\ (a < b => a + u <= b)
  <2>1. PICK j \in Int : b = j * u
    BY <1>4 DEF IsMultiple
  <2>2. j - k \in Int /\ b - a = (j - k) * u
    BY <1>1, <2>1
  <2>3. ASSUME a < b
        PROVE  a + u <= b
    <3>1. CASE j - k <= 0
      <4>1. k - j \in Nat /\ u \in Nat
        BY <3>1
      <4>2. (k - j) * u \in Nat /\ (k - j) * u = a - b
        BY <1>1, <2>1, <4>1
      <4> QED
        BY <2>3, <4>2
    <3>2. CASE j - k >= 1
      <4>1. j - k - 1 \in Nat /\ u \in Nat
        BY <3>2
      <4>2. (j - k - 1) * u \in Nat /\ (j - k - 1) * u = b - a - u
        BY <1>1, <2>1, <4>1
      <4> QED
        BY <4>2
    <3> QED
      BY <3>1, <3>2
  <2> QED
    BY <2>2, <2>3 DEF IsMultiple
<1> QED
  BY <1>2, <1>3, <1>4 DEF IsMultiple

\* A bucket is a whole number of minutes.
LEMMA ClockFacts ==
  /\ Base \in Nat \ {0} /\ Interval \in Nat \ {0} /\ IsMultiple(Interval, Base)
  /\ Base <= Interval
  /\ \A a \in Int : IsMultiple(a, Interval) => IsMultiple(a, Base)
<1>1. Base \in Nat \ {0} /\ Interval \in Nat \ {0} /\ Interval % Base = 0
  BY ClockAssumption
<1>2. PICK j \in Int : Interval = j * Base
  BY <1>1, MultipleRest DEF IsMultiple
<1>3. ASSUME NEW a \in Int, IsMultiple(a, Interval)
      PROVE  IsMultiple(a, Base)
  <2>1. PICK k \in Int : a = k * Interval
    BY <1>3 DEF IsMultiple
  <2>2. k * j \in Int /\ a = (k * j) * Base
    BY <1>1, <1>2, <2>1
  <2> QED
    BY <2>2 DEF IsMultiple
<1>4. Base <= Interval
  <2>1. IsMultiple(0, Base) /\ IsMultiple(Interval, Base)
    BY <1>1, <1>2 DEF IsMultiple
  <2>2. 0 < Interval /\ 0 + Base = Base
    BY <1>1
  <2> QED
    BY <1>1, <2>1, <2>2, MultipleFacts
<1> QED
  BY <1>1, <1>2, <1>3, <1>4 DEF IsMultiple

-----------------------------------------------------------------------------
(* Candles *)

\* The exchange has a price for every minute up to the last one.
LEMMA PriceFacts ==
  ASSUME NEW m \in 0..LastMinute, IsMultiple(m, Base)
  PROVE  /\ PriceOf[m].open \in Nat /\ PriceOf[m].high \in Nat /\ PriceOf[m].low \in Nat
         /\ PriceOf[m].close \in Nat /\ PriceOf[m].volume \in Nat
<1>1. m % Base = 0
  BY MultipleRest, ClockFacts, RecordsAssumption
<1> DEFINE price == PriceOf[m]
<1>2. price \in [open : Nat, high : Nat, low : Nat, close : Nat, volume : Nat]
  BY <1>1, RecordsAssumption
<1> HIDE DEF price
<1>3. /\ price.open \in Nat /\ price.high \in Nat /\ price.low \in Nat
      /\ price.close \in Nat /\ price.volume \in Nat
  BY <1>2
<1> QED
  BY <1>3 DEF price

\* The largest and the smallest of a set are its only ones.
LEMMA ExtremeIs ==
  ASSUME NEW S \in SUBSET Int, NEW x \in S
  PROVE  /\ (\A y \in S : x >= y) => Max(S) = x
         /\ (\A y \in S : x <= y) => Min(S) = x
<1>1. ASSUME \A y \in S : x >= y
      PROVE  Max(S) = x
  <2> DEFINE Is(m) == m \in S /\ \A y \in S : m >= y
  <2>1. Is(x) /\ \A m : Is(m) => m = x
    <3> SUFFICES ASSUME NEW m, Is(m) PROVE m = x
      BY <1>1
    <3>1. m >= x /\ x >= m /\ m \in Int /\ x \in Int
      BY <1>1
    <3> QED
      BY <3>1
  <2>2. Max(S) = CHOOSE m : Is(m)
    BY DEF Max
  <2> HIDE DEF Is
  <2> QED
    BY <2>1, <2>2
<1>2. ASSUME \A y \in S : x <= y
      PROVE  Min(S) = x
  <2> DEFINE Is(m) == m \in S /\ \A y \in S : m <= y
  <2>1. Is(x) /\ \A m : Is(m) => m = x
    <3> SUFFICES ASSUME NEW m, Is(m) PROVE m = x
      BY <1>2
    <3>1. m <= x /\ x <= m /\ m \in Int /\ x \in Int
      BY <1>2
    <3> QED
      BY <3>1
  <2>2. Min(S) = CHOOSE m : Is(m)
    BY DEF Min
  <2> HIDE DEF Is
  <2> QED
    BY <2>1, <2>2
<1> QED
  BY <1>1, <1>2

\* The minutes between two of them are times of the exchange.
LEMMA MinutesFacts ==
  ASSUME NEW from \in Nat, NEW to \in Nat, from <= to, to <= LastMinute,
         IsMultiple(from, Base), IsMultiple(to, Base)
  PROVE  /\ from \in Minutes(from, to) /\ to \in Minutes(from, to)
         /\ Minutes(from, to) \in SUBSET Int
         /\ Max(Minutes(from, to)) = to /\ Min(Minutes(from, to)) = from
         /\ \A m \in Minutes(from, to) :
              /\ m \in 0..LastMinute /\ IsMultiple(m, Base)
              /\ PriceOf[m].high \in Nat /\ PriceOf[m].low \in Nat
<1>1. Base \in Nat \ {0} /\ LastMinute \in Nat
  BY ClockFacts, RecordsAssumption
<1> DEFINE S == Minutes(from, to)
<1>2. \A m \in Int : IsMultiple(m, Base) <=> m % Base = 0
  BY <1>1, MultipleRest
<1>3. \A m : m \in S <=> m \in Int /\ from <= m /\ m <= to /\ IsMultiple(m, Base)
  BY <1>2 DEF Minutes
<1> HIDE DEF S
<1>4. from \in S /\ to \in S /\ S \in SUBSET Int
  BY <1>3
<1>5. Max(S) = to /\ Min(S) = from
  BY <1>3, <1>4, ExtremeIs
<1>6. \A m \in S : m \in 0..LastMinute /\ IsMultiple(m, Base)
  BY <1>1, <1>3
<1> QED
  BY <1>4, <1>5, <1>6, PriceFacts DEF S

\* A candle of some minutes is the one that the exchange makes of them.
LEMMA CandleIs ==
  ASSUME NEW from \in Nat, NEW to \in Nat, from <= to, to <= LastMinute,
         IsMultiple(from, Base), IsMultiple(to, Base),
         NEW candle, NEW bucket, IsCandleOf(candle, bucket, from, to)
  PROVE  candle = CandleOver(bucket, Minutes(from, to))
<1> DEFINE S == Minutes(from, to)
           highs == {PriceOf[m].high : m \in S}
           lows == {PriceOf[m].low : m \in S}
<1>1. /\ S \in SUBSET Int /\ Max(S) = to /\ Min(S) = from
      /\ \A m \in S : PriceOf[m].high \in Nat /\ PriceOf[m].low \in Nat
  BY MinutesFacts
<1>2. /\ candle \in Candles
      /\ candle.openTime = bucket /\ candle.closeTime = to + Base - 1
      /\ candle.open = PriceOf[from].open /\ candle.close = PriceOf[to].close
      /\ candle.volume = Total(VolumesFrom(from, (to - from) \div Base + 1))
      /\ candle.closed = TRUE
  BY DEF IsCandleOf, Candles
<1>3. Max(highs) = candle.high
  <2>1. highs \in SUBSET Int /\ candle.high \in highs /\ \A y \in highs : candle.high >= y
    BY <1>1 DEF IsCandleOf
  <2> QED
    BY <2>1, ExtremeIs
<1>4. Min(lows) = candle.low
  <2>1. lows \in SUBSET Int /\ candle.low \in lows /\ \A y \in lows : candle.low <= y
    BY <1>1 DEF IsCandleOf
  <2> QED
    BY <2>1, ExtremeIs
<1> DEFINE volume == Total(VolumesFrom(from, (to - from) \div Base + 1))
<1>5. CandleOver(bucket, S) =
        [openTime |-> bucket, closeTime |-> to + Base - 1, closed |-> TRUE,
         open |-> PriceOf[from].open, close |-> PriceOf[to].close,
         high |-> Max(highs), low |-> Min(lows), volume |-> volume]
  <2> DEFINE last == Max(S)
             first == Min(S)
  <2>1. CandleOver(bucket, S) =
          [openTime |-> bucket, closeTime |-> last + Base - 1, closed |-> TRUE,
           open |-> PriceOf[first].open, close |-> PriceOf[last].close,
           high |-> Max(highs), low |-> Min(lows),
           volume |-> Total(VolumesFrom(first, (last - first) \div Base + 1))]
    BY DEF CandleOver, VolumesFrom
  <2>2. last = to /\ first = from
    BY <1>1
  <2> HIDE DEF last, first, highs, lows
  <2> QED
    BY <2>1, <2>2
<1> HIDE DEF highs, lows, volume, S
<1>6. candle = [openTime |-> candle.openTime, closeTime |-> candle.closeTime,
                closed |-> candle.closed, open |-> candle.open, close |-> candle.close,
                high |-> candle.high, low |-> candle.low, volume |-> candle.volume]
  BY <1>2 DEF Candles
<1> QED
  BY <1>2, <1>3, <1>4, <1>5, <1>6 DEF volume, S

\* The minutes of a bucket that are not before a time are those from the first of them to
\* the last of the bucket.
LEMMA MinutesOfIs ==
  ASSUME NEW bucket \in Nat, IsMultiple(bucket, Base), NEW first \in Int, NEW from \in Int,
         from = IF first > bucket THEN first ELSE bucket
  PROVE  MinutesOf(bucket, first) = Minutes(from, bucket + Interval - Base)
<1>1. /\ Base \in Nat \ {0} /\ Interval \in Nat \ {0} /\ IsMultiple(Interval, Base)
      /\ \A m \in Int : IsMultiple(m, Base) <=> m % Base = 0
  BY ClockFacts, MultipleRest
<1> DEFINE last == bucket + Interval - Base
<1>2. bucket + Interval \in Int /\ IsMultiple(bucket + Interval, Base)
  <2>1. PICK j \in Int : Interval = j * Base
    BY <1>1 DEF IsMultiple
  <2> QED
    BY <1>1, <2>1, MultipleFacts
<1>3. \A m \in Int : IsMultiple(m, Base) /\ m < bucket + Interval => m <= last
  <2> SUFFICES ASSUME NEW m \in Int, IsMultiple(m, Base), m < bucket + Interval
               PROVE  m <= last
    OBVIOUS
  <2>1. m + Base <= bucket + Interval
    BY <1>1, <1>2, MultipleFacts
  <2> QED
    BY <1>1, <2>1
<1>4. \A m \in Int : m % Base = 0 => (m <= bucket + Interval - 1 <=> m <= last)
  <2> SUFFICES ASSUME NEW m \in Int, m % Base = 0
               PROVE  m <= bucket + Interval - 1 <=> m <= last
    OBVIOUS
  <2>1. m < bucket + Interval => m <= last
    BY <1>1, <1>3
  <2> QED
    BY <1>1, <2>1
<1>5. \A m : m \in MinutesOf(bucket, first) <=>
               m \in Int /\ bucket <= m /\ first <= m /\ m <= bucket + Interval - 1 /\ m % Base = 0
  BY <1>1 DEF MinutesOf
<1>6. \A m : m \in Minutes(from, last) <=> m \in Int /\ from <= m /\ m <= last /\ m % Base = 0
  BY <1>1 DEF Minutes
<1>7. \A m \in Int : from <= m <=> bucket <= m /\ first <= m
  OBVIOUS
<1> HIDE DEF last
<1>8. \A m : m \in MinutesOf(bucket, first) <=> m \in Minutes(from, last)
  BY <1>4, <1>5, <1>6, <1>7
<1> QED
  BY <1>8 DEF last

\* The candle before a boundary that has passed is whole, and the exchange has its close.
LEMMA CandleBeforeFacts ==
  ASSUME NEW boundary \in 0..LastMinute, IsMultiple(boundary, Interval), boundary >= Interval
  PROVE  /\ CandleBefore(boundary).closeTime = boundary - 1
         /\ CandleBefore(boundary).close \in Nat
<1> DEFINE b == boundary - Interval
           to == b + Interval - Base
           S == Minutes(b, to)
<1>1. /\ Base \in Nat \ {0} /\ Interval \in Nat \ {0} /\ Base <= Interval
      /\ LastMinute \in Nat /\ boundary \in Nat
  BY ClockFacts, RecordsAssumption
<1>2. b \in Nat /\ IsMultiple(b, Base) /\ IsMultiple(to, Base)
  <2>1. b \in Nat /\ IsMultiple(b, Base) /\ IsMultiple(boundary, Base)
    BY <1>1, MultipleFacts, ClockFacts
  <2>2. to = boundary - Base
    BY <1>1
  <2> QED
    BY <1>1, <2>1, <2>2, MultipleFacts
<1>3. to \in Nat /\ b <= to /\ to <= LastMinute /\ to + Base - 1 = boundary - 1
      /\ to \in 0..LastMinute
  BY <1>1
<1>4. Max(S) = to
  BY <1>2, <1>3, MinutesFacts
<1>5. MinutesOf(b, 0) = S
  <2>1. b = IF 0 > b THEN 0 ELSE b
    BY <1>2
  <2> HIDE DEF b
  <2> QED
    BY <1>2, <2>1, MinutesOfIs
<1>6. CandleBefore(boundary) = CandleOver(b, S)
  BY <1>5 DEF CandleBefore
<1> HIDE DEF S, to, b
<1>7. CandleOver(b, S).closeTime = to + Base - 1 /\ CandleOver(b, S).close = PriceOf[to].close
  BY <1>4 DEF CandleOver
<1> QED
  BY <1>2, <1>3, <1>6, <1>7, PriceFacts

\* A candle of the exchange with another opening, or closed as it is.
LEMMA CandleFields ==
  ASSUME NEW a, NEW b, NEW c, NEW d, NEW e, NEW f, NEW g, NEW t, NEW r,
         r = [openTime |-> a, closeTime |-> b, closed |-> TRUE, open |-> c, high |-> d,
              low |-> e, close |-> f, volume |-> g]
  PROVE  /\ [r EXCEPT !.openTime = t] =
              [openTime |-> t, closeTime |-> b, closed |-> TRUE, open |-> c, high |-> d,
               low |-> e, close |-> f, volume |-> g]
         /\ [r EXCEPT !.closed = TRUE] = r
<1> DEFINE Of(o) == [openTime : {o}, closeTime : {b}, closed : {TRUE}, open : {c}, high : {d},
                     low : {e}, close : {f}, volume : {g}]
<1>1. r \in Of(a)
  OBVIOUS
<1> DEFINE s == [r EXCEPT !.openTime = t]
           u == [r EXCEPT !.closed = TRUE]
<1>2. s \in Of(t) /\ u \in Of(a)
  BY <1>1
<1> HIDE DEF s, u
<1>3. s = [openTime |-> t, closeTime |-> b, closed |-> TRUE, open |-> c, high |-> d,
           low |-> e, close |-> f, volume |-> g]
  BY <1>2
<1>4. u = r
  BY <1>1, <1>2
<1> QED
  BY <1>3, <1>4 DEF s, u

\* The candle that a start takes of the exchange's is the whole one before its boundary
\* (previous_completed_replay_candle).
LEMMA PreviousIs ==
  ASSUME NEW now \in 0..LastMinute, NEW boundary \in 0..now, IsMultiple(boundary, Interval),
         NEW candle \in PreviousCompleted(ExchangeCandles(now), boundary)
  PROVE  candle = CandleBefore(boundary) /\ boundary >= Interval
<1>1. /\ candle \in ExchangeCandles(now) /\ candle.closed = TRUE
      /\ candle.openTime = boundary - Interval
  <2>1. candle \in ExchangeCandles(now) /\ candle.closed /\ candle.openTime = boundary - Interval
    BY DEF PreviousCompleted
  <2>2. PICK b \in 0..now :
          candle = [CandleOver(b, MinutesOf(b, b)) EXCEPT !.closed = b + Interval <= now]
    BY <2>1 DEF ExchangeCandles
  <2>3. candle.closed = (b + Interval <= now)
    BY <2>2 DEF CandleOver
  <2>4. (b + Interval <= now) \in BOOLEAN
    OBVIOUS
  <2> QED
    BY <2>1, <2>3, <2>4
<1>2. PICK b \in 0..now :
        /\ b % Interval = 0
        /\ candle = [CandleOver(b, MinutesOf(b, b)) EXCEPT !.closed = b + Interval <= now]
  BY <1>1 DEF ExchangeCandles
<1>3. Base \in Nat \ {0} /\ Interval \in Nat \ {0} /\ LastMinute \in Nat
  BY ClockFacts, RecordsAssumption
<1>4. candle.openTime = b /\ candle.closed = (b + Interval <= now)
  BY <1>2 DEF CandleOver
<1>5. b = boundary - Interval /\ b \in Nat /\ boundary >= Interval
  BY <1>1, <1>3, <1>4
<1>6. IsMultiple(b, Base)
  BY <1>2, <1>3, <1>5, MultipleRest, ClockFacts
<1>7. MinutesOf(b, b) = MinutesOf(b, 0)
  <2>1. b = (IF b > b THEN b ELSE b) /\ b = IF 0 > b THEN 0 ELSE b
    BY <1>5
  <2>2. MinutesOf(b, b) = Minutes(b, b + Interval - Base)
    BY <1>5, <1>6, <2>1, MinutesOfIs
  <2>3. MinutesOf(b, 0) = Minutes(b, b + Interval - Base)
    BY <1>5, <1>6, <2>1, MinutesOfIs
  <2> QED
    BY <2>2, <2>3
<1>8. [CandleOver(b, MinutesOf(b, b)) EXCEPT !.closed = TRUE] = CandleOver(b, MinutesOf(b, b))
  BY CandleFields DEF CandleOver
<1>9. candle = CandleOver(b, MinutesOf(b, 0))
  <2>1. (b + Interval <= now) = TRUE
    BY <1>1, <1>4
  <2> QED
    BY <1>2, <1>7, <1>8, <2>1
<1> QED
  BY <1>5, <1>9 DEF CandleBefore

\* The first minute of a bucket in progress is its candle (ReplayAggregator::push).
LEMMA FirstMinute ==
  ASSUME NEW m \in 0..LastMinute, IsMultiple(m, Base), NEW bucket \in Nat
  PROVE  IsCandleOf([MinuteCandle(m) EXCEPT !.openTime = bucket], bucket, m, m)
<1> DEFINE candle == [MinuteCandle(m) EXCEPT !.openTime = bucket]
           price == PriceOf[m]
<1>1. Base \in Nat \ {0} /\ m \in Nat /\ m <= LastMinute /\ m + Base - 1 \in Int
  BY ClockFacts, RecordsAssumption
<1>2. /\ price.open \in Nat /\ price.high \in Nat /\ price.low \in Nat
      /\ price.close \in Nat /\ price.volume \in Nat
  BY PriceFacts
<1>3. candle = [openTime |-> bucket, closeTime |-> m + Base - 1, closed |-> TRUE,
                open |-> price.open, high |-> price.high, low |-> price.low,
                close |-> price.close, volume |-> price.volume]
  BY CandleFields DEF MinuteCandle
<1>4. m \in Minutes(m, m) /\ \A n \in Minutes(m, m) : n = m
  <2>1. m \in Minutes(m, m)
    BY <1>1, MinutesFacts
  <2>2. \A n \in Minutes(m, m) : n = m
    BY <1>1 DEF Minutes
  <2> QED
    BY <2>1, <2>2
<1>5. Total(VolumesFrom(m, (m - m) \div Base + 1)) = price.volume
  <2>1. (m - m) \div Base + 1 = 1
    <3>1. 0 * Base <= 0 /\ 0 < 0 * Base + Base /\ m - m = 0
      BY <1>1
    <3>2. 0 \div Base = 0
      BY <1>1, <3>1, QuotientIs
    <3> QED
      BY <3>1, <3>2
  <2> DEFINE none == [i \in 1..0 |-> 0]
             one == VolumesFrom(m, 1)
  <2>2. none \in [1..0 -> Int] /\ none = <<>> /\ 1..0 = {}
    BY EmptySeq
  <2>3. one \in [1..(0 + 1) -> Int] /\ one[0 + 1] = price.volume
    <3>1. one = [i \in 1..1 |-> PriceOf[m + (i - 1) * Base].volume]
      BY DEF VolumesFrom
    <3>2. \A i \in 1..1 : i = 1 /\ m + (i - 1) * Base = m
      BY <1>1
    <3> QED
      BY <1>2, <3>1, <3>2
  <2> HIDE DEF one, none, price
  <2>4. Total(one) = Total(none) + one[0 + 1]
    <3>1. \A i \in 1..0 : one[i] = none[i]
      BY <2>2
    <3>2. 0 \in Nat
      OBVIOUS
    <3> DEFINE L == 0
    <3>3. /\ L \in Nat /\ none \in [1..L -> Int] /\ one \in [1..(L + 1) -> Int]
          /\ \A i \in 1..L : one[i] = none[i]
      BY <2>2, <2>3, <3>1, <3>2
    <3> HIDE DEF L
    <3>4. Total(one) = Total(none) + one[L + 1]
      BY <3>3, TotalGrows
    <3> QED
      BY <3>4 DEF L
  <2>5. Total(one) = price.volume
    BY <1>2, <2>2, <2>3, <2>4, TotalGrows
  <2> QED
    BY <2>1, <2>5 DEF one
<1> HIDE DEF price
<1>6. candle \in Candles
  BY <1>1, <1>2, <1>3 DEF Candles
<1> QED
  BY <1>2, <1>3, <1>4, <1>5, <1>6 DEF IsCandleOf, price

\* One more minute in the candle in progress (ReplayAggregator::push, merge).
LEMMA AnotherMinute ==
  ASSUME NEW from \in Nat, NEW m \in 0..LastMinute, from < m,
         IsMultiple(from, Base), IsMultiple(m, Base), NEW bucket \in Nat,
         NEW candle, IsCandleOf(candle, bucket, from, m - Base)
  PROVE  IsCandleOf(Merge(candle, MinuteCandle(m)), bucket, from, m)
<1> DEFINE before == m - Base
           price == PriceOf[m]
           merged == Merge(candle, MinuteCandle(m))
           n == (before - from) \div Base + 1
<1>1. /\ Base \in Nat \ {0} /\ m \in Nat /\ m <= LastMinute /\ LastMinute \in Nat
      /\ m + Base - 1 \in Int /\ from + Base <= m
  BY ClockFacts, MultipleFacts, RecordsAssumption
<1>2. /\ before \in Nat /\ IsMultiple(before, Base) /\ from <= before /\ before <= LastMinute
  BY <1>1, MultipleFacts
<1>3. /\ price.open \in Nat /\ price.high \in Nat /\ price.low \in Nat
      /\ price.close \in Nat /\ price.volume \in Nat
  BY PriceFacts
<1>4. /\ m \in Minutes(from, m)
      /\ \A k : k \in Minutes(from, before) => k \in Minutes(from, m)
      /\ \A k \in Minutes(from, m) : k = m \/ k \in Minutes(from, before)
  <2>1. m \in Minutes(from, m)
    BY <1>1, MinutesFacts
  <2>2. \A k \in Int : k % Base = 0 <=> IsMultiple(k, Base)
    BY <1>1, MultipleRest
  <2>3. \A k \in Int : IsMultiple(k, Base) /\ k < m => k <= before
    <3> SUFFICES ASSUME NEW k \in Int, IsMultiple(k, Base), k < m
                 PROVE  k <= before
      OBVIOUS
    <3>1. k + Base <= m
      BY <1>1, MultipleFacts
    <3> QED
      BY <1>1, <3>1
  <2>4. \A k : k \in Minutes(from, m) <=> k \in Int /\ from <= k /\ k <= m /\ IsMultiple(k, Base)
    BY <1>1, <2>2 DEF Minutes
  <2>5. \A k : k \in Minutes(from, before) <=>
                 k \in Int /\ from <= k /\ k <= before /\ IsMultiple(k, Base)
    BY <1>2, <2>2 DEF Minutes
  <2> QED
    BY <1>1, <2>1, <2>3, <2>4, <2>5
<1>5. \A k \in Minutes(from, before) : PriceOf[k].high \in Nat /\ PriceOf[k].low \in Nat
  BY <1>2, MinutesFacts
<1>6. /\ candle \in Candles /\ candle.openTime = bucket
      /\ candle.open = PriceOf[from].open
      /\ \E k \in Minutes(from, before) : candle.high = PriceOf[k].high
      /\ \A k \in Minutes(from, before) : PriceOf[k].high <= candle.high
      /\ \E k \in Minutes(from, before) : candle.low = PriceOf[k].low
      /\ \A k \in Minutes(from, before) : PriceOf[k].low >= candle.low
      /\ candle.volume = Total(VolumesFrom(from, n))
  BY DEF IsCandleOf
<1>7. (m - from) \div Base = n /\ n \in Nat
  <2>1. IsMultiple(before - from, Base) /\ before - from \in Nat
    BY <1>1, <1>2, MultipleFacts
  <2>2. PICK k \in Int : before - from = k * Base
    BY <2>1 DEF IsMultiple
  <2>3. (before - from) \div Base = k
    BY <1>1, <2>1, <2>2, QuotientIs
  <2>4. m - from = (k + 1) * Base
    BY <1>1, <2>2
  <2>5. (m - from) \div Base = k + 1
    BY <1>1, <2>4, QuotientIs
  <2>6. k \in Nat
    <3>1. (before - from) \div Base \in Nat
      BY <1>1, <2>1
    <3> QED
      BY <2>3, <3>1
  <2> QED
    BY <2>3, <2>5, <2>6
<1> HIDE DEF n
<1>8. Total(VolumesFrom(from, n + 1)) = Total(VolumesFrom(from, n)) + price.volume
  <2>1. \A i \in 1..(n + 1) : /\ PriceOf[from + (i - 1) * Base].volume \in Nat
                              /\ i = n + 1 => from + (i - 1) * Base = m
    <3> SUFFICES ASSUME NEW i \in 1..(n + 1)
                 PROVE  /\ PriceOf[from + (i - 1) * Base].volume \in Nat
                        /\ i = n + 1 => from + (i - 1) * Base = m
      OBVIOUS
    <3> DEFINE at == from + (i - 1) * Base
    <3>1. at \in Int /\ IsMultiple(at, Base)
      BY <1>1, MultipleFacts
    <3>2. m - from = n * Base
      <4>1. IsMultiple(m - from, Base)
        BY <1>1, MultipleFacts
      <4>2. PICK k \in Int : m - from = k * Base
        BY <4>1 DEF IsMultiple
      <4>3. (m - from) \div Base = k
        BY <1>1, <4>2, QuotientIs
      <4> QED
        BY <1>7, <4>2, <4>3
    <3>3. (i - 1) * Base \in Nat /\ (i - 1) * Base <= n * Base
      <4>1. Base * (i - 1) \in Nat /\ Base * (i - 1) <= Base * n
        BY <1>1, <1>7, ProductMonotone
      <4> QED
        BY <1>1, <1>7, <4>1
    <3>4. at \in 0..LastMinute
      BY <1>1, <3>1, <3>2, <3>3
    <3>5. i = n + 1 => at = m
      BY <1>1, <1>7, <3>2
    <3> QED
      BY <3>1, <3>4, <3>5, PriceFacts
  <2> DEFINE s == VolumesFrom(from, n)
             t == VolumesFrom(from, n + 1)
  <2>2. s \in [1..n -> Int] /\ t \in [1..(n + 1) -> Int]
    BY <1>7, <2>1 DEF VolumesFrom
  <2>3. \A i \in 1..n : t[i] = s[i]
    BY <1>7 DEF VolumesFrom
  <2>4. t[n + 1] = price.volume
    <3>1. n + 1 \in 1..(n + 1)
      BY <1>7
    <3> QED
      BY <2>1, <3>1 DEF VolumesFrom
  <2> HIDE DEF s, t, price
  <2>5. Total(t) = Total(s) + t[n + 1]
    BY <1>7, <2>2, <2>3, TotalGrows
  <2> QED
    BY <2>4, <2>5 DEF s, t
<1> HIDE DEF price, before
<1>9. /\ merged \in Candles /\ merged.openTime = bucket /\ merged.closeTime = m + Base - 1
      /\ merged.open = candle.open /\ merged.close = price.close
      /\ merged.high = (IF price.high > candle.high THEN price.high ELSE candle.high)
      /\ merged.low = (IF price.low < candle.low THEN price.low ELSE candle.low)
      /\ merged.volume = candle.volume + price.volume
  <2> DEFINE minute == MinuteCandle(m)
             high == IF price.high > candle.high THEN price.high ELSE candle.high
             low == IF price.low < candle.low THEN price.low ELSE candle.low
  <2>1. /\ minute.closeTime = m + Base - 1 /\ minute.close = price.close
        /\ minute.high = price.high /\ minute.low = price.low /\ minute.volume = price.volume
    BY DEF MinuteCandle, price
  <2> HIDE DEF minute
  <2>2. merged = [candle EXCEPT !.closeTime = m + Base - 1, !.high = high, !.low = low,
                                !.close = price.close, !.volume = candle.volume + price.volume]
    BY <1>6, <2>1 DEF Merge, minute, Candles
  <2>3. high \in Nat /\ low \in Nat /\ candle.volume + price.volume \in Nat
    BY <1>3, <1>6 DEF Candles
  <2> HIDE DEF high, low, merged
  <2>4. merged \in Candles
    BY <1>1, <1>3, <1>6, <2>2, <2>3 DEF Candles
  <2>5. /\ merged.openTime = bucket /\ merged.closeTime = m + Base - 1
        /\ merged.open = candle.open /\ merged.close = price.close
        /\ merged.high = high /\ merged.low = low
        /\ merged.volume = candle.volume + price.volume
    BY <1>6, <2>2 DEF Candles
  <2> QED
    BY <2>4, <2>5 DEF high, low
<1> HIDE DEF merged
<1>10. candle.high \in Nat /\ candle.low \in Nat
  BY <1>6 DEF Candles
<1>11. /\ \E k \in Minutes(from, m) : merged.high = PriceOf[k].high
       /\ \A k \in Minutes(from, m) : PriceOf[k].high <= merged.high
  BY <1>3, <1>4, <1>5, <1>6, <1>9, <1>10 DEF price
<1>12. /\ \E k \in Minutes(from, m) : merged.low = PriceOf[k].low
       /\ \A k \in Minutes(from, m) : PriceOf[k].low >= merged.low
  BY <1>3, <1>4, <1>5, <1>6, <1>9, <1>10 DEF price
<1> QED
  BY <1>6, <1>7, <1>8, <1>9, <1>11, <1>12 DEF IsCandleOf, price, merged

\* Buckets of the replay interval, and those after them.
LEMMA BucketFacts ==
  /\ \A t \in Nat : /\ BucketOpen(t) \in Nat /\ BucketOpen(t) <= t
                    /\ t < BucketOpen(t) + Interval /\ IsMultiple(BucketOpen(t), Interval)
  /\ \A a \in Nat : IsMultiple(a, Interval) =>
       /\ a + Interval \in Nat /\ IsMultiple(a + Interval, Interval)
       /\ IsMultiple(a + Interval, Base) /\ IsMultiple(a, Base)
       /\ \A n \in Nat : a + n * Interval \in Nat /\ IsMultiple(a + n * Interval, Interval)
<1>1. Interval \in Nat \ {0}
  BY ClockFacts
<1>2. ASSUME NEW t \in Nat
      PROVE  /\ BucketOpen(t) \in Nat /\ BucketOpen(t) <= t
             /\ t < BucketOpen(t) + Interval /\ IsMultiple(BucketOpen(t), Interval)
  <2>1. t \in Int
    OBVIOUS
  <2>2. /\ Floor(t, Interval) \in Int /\ Floor(t, Interval) <= t
        /\ t < Floor(t, Interval) + Interval /\ IsMultiple(Floor(t, Interval), Interval)
        /\ t \in Nat => Floor(t, Interval) \in Nat
    BY <1>1, <2>1, FloorFacts
  <2> QED
    BY <2>2 DEF BucketOpen
<1>3. ASSUME NEW a \in Nat, IsMultiple(a, Interval)
      PROVE  /\ a + Interval \in Nat /\ IsMultiple(a + Interval, Interval)
             /\ IsMultiple(a + Interval, Base) /\ IsMultiple(a, Base)
             /\ \A n \in Nat : a + n * Interval \in Nat /\ IsMultiple(a + n * Interval, Interval)
  <2>1. a \in Int /\ a + Interval \in Nat
    BY <1>1
  <2>2. /\ IsMultiple(a + Interval, Interval)
        /\ \A n \in Int : IsMultiple(a + n * Interval, Interval)
    BY <1>1, <1>3, <2>1, MultipleFacts
  <2>3. \A n \in Nat : a + n * Interval \in Nat
    <3>1. \A n \in Nat : n * Interval \in Nat
      BY <1>1
    <3> QED
      BY <3>1
  <2>4. IsMultiple(a + Interval, Base) /\ IsMultiple(a, Base)
    BY <1>3, <2>1, <2>2, ClockFacts
  <2> QED
    BY <2>1, <2>2, <2>3, <2>4
<1> QED
  BY <1>2, <1>3

\* A run is shown its first bucket from its first minute on (first_full_base_open_at_or_after).
LEMMA FirstMinuteFacts ==
  ASSUME NEW now \in Nat
  PROVE  /\ FirstFullBaseOpen(now) \in Nat /\ IsMultiple(FirstFullBaseOpen(now), Base)
         /\ FirstFullBaseOpen(now) >= now /\ FirstFullBaseOpen(now) < now + Base
         /\ IsShown(FirstFullBaseOpen(now), FirstFullBaseOpen(now), NoCandle, <<>>)
<1> DEFINE floor == Floor(now, Base)
           first == FirstFullBaseOpen(now)
<1>1. Base \in Nat \ {0} /\ Interval \in Nat \ {0} /\ Base <= Interval
  BY ClockFacts
<1>2. floor \in Nat /\ floor <= now /\ now < floor + Base /\ IsMultiple(floor, Base)
  BY <1>1, FloorFacts
<1>3. IsMultiple(floor + Base, Base)
  BY <1>1, <1>2, MultipleFacts
<1>4. first = IF now = floor THEN floor ELSE floor + Base
  BY DEF FirstFullBaseOpen
<1> HIDE DEF floor, first
<1>5. first \in Nat /\ IsMultiple(first, Base) /\ first >= now /\ first < now + Base
  BY <1>1, <1>2, <1>3, <1>4
<1>6. BucketOpen(first) \in Nat /\ BucketOpen(first) <= first
  BY <1>5, BucketFacts
<1>7. IsShown(first, first, NoCandle, <<>>)
  <2>1. Len(<<>>) = 0 /\ 1..0 = {} /\ BucketOpen(first) + 0 * Interval = BucketOpen(first)
    BY <1>1, <1>6, EmptySeq
  <2>2. first = FirstIn(first, BucketOpen(first))
    BY <1>5, <1>6 DEF FirstIn
  <2> QED
    BY <1>5, <2>1, <2>2 DEF IsShown
<1> QED
  BY <1>5, <1>7 DEF first

\* The bucket of a minute that push accepts, and the candle in progress once it is in it.
LEMMA GrownIsCandle ==
  ASSUME NEW first \in Nat, IsMultiple(first, Base), NEW candles \in Seq(Candles),
         NEW m \in 0..LastMinute, NEW current, IsShown(first, m, current, candles),
         NEW bucket, bucket = BucketOpen(first) + Len(candles) * Interval
  PROVE  /\ bucket \in Nat /\ IsMultiple(bucket, Interval) /\ BucketOpen(m) = bucket
         /\ bucket <= m /\ m < bucket + Interval /\ IsMultiple(m, Base)
         /\ FirstIn(first, bucket) \in Nat /\ FirstIn(first, bucket) <= m
         /\ IsMultiple(FirstIn(first, bucket), Base)
         /\ IsCandleOf(Grown([expected |-> m, current |-> current], MinuteCandle(m)),
                       bucket, FirstIn(first, bucket), m)
<1> DEFINE from == FirstIn(first, bucket)
           aggr == [expected |-> m, current |-> current]
           minute == MinuteCandle(m)
           n == Len(candles)
<1>1. /\ Base \in Nat \ {0} /\ Interval \in Nat \ {0} /\ m \in Nat /\ n \in Nat
  BY ClockFacts, RecordsAssumption, LenProperties
<1>2. bucket \in Nat /\ IsMultiple(bucket, Interval)
  <2>1. BucketOpen(first) \in Nat /\ IsMultiple(BucketOpen(first), Interval)
    BY BucketFacts
  <2> HIDE DEF n
  <2>2. /\ BucketOpen(first) + n * Interval \in Nat
        /\ IsMultiple(BucketOpen(first) + n * Interval, Interval)
    BY <1>1, <2>1, BucketFacts
  <2> QED
    BY <2>2 DEF n
<1> HIDE DEF n
<1>3. /\ IsMultiple(m, Base) /\ BucketOpen(m) = bucket
      /\ current = NoCandle => m = from
      /\ current # NoCandle => m > from /\ IsCandleOf(current, bucket, from, m - Base)
  BY DEF IsShown
<1>4. bucket <= m /\ m < bucket + Interval
  BY <1>1, <1>3, BucketFacts
<1>5. IsMultiple(bucket, Base)
  BY <1>2, ClockFacts
<1>6. from \in Nat /\ IsMultiple(from, Base)
  BY <1>2, <1>5 DEF FirstIn
<1>7. minute.openTime = m
  BY DEF MinuteCandle
<1> HIDE DEF from
<1>8. from <= m
  BY <1>1, <1>3, <1>6
<1>9. IsCandleOf(Grown(aggr, minute), bucket, from, m)
  <2>1. CASE current = NoCandle
    <3>1. Grown(aggr, minute) = [minute EXCEPT !.openTime = bucket]
      BY <1>3, <1>7, <2>1 DEF Grown
    <3>2. IsCandleOf([minute EXCEPT !.openTime = bucket], bucket, m, m)
      BY <1>2, <1>3, FirstMinute
    <3> QED
      BY <1>3, <2>1, <3>1, <3>2
  <2>2. CASE current # NoCandle
    <3>1. Grown(aggr, minute) = Merge(current, minute)
      BY <2>2 DEF Grown
    <3>2. from < m /\ IsCandleOf(current, bucket, from, m - Base)
      BY <1>1, <1>3, <1>6, <2>2
    <3>3. IsCandleOf(Merge(current, minute), bucket, from, m)
      BY <1>2, <1>3, <1>6, <3>2, AnotherMinute
    <3> QED
      BY <3>1, <3>3
  <2> QED
    BY <2>1, <2>2
<1> QED
  BY <1>2, <1>3, <1>4, <1>6, <1>8, <1>9 DEF from

\* A minute that push accepts leaves the strategy with whole buckets: the bucket it ends is
\* given to process_strategy_candle with every minute of the run in it.
LEMMA PushShows ==
  ASSUME NEW first \in Nat, IsMultiple(first, Base), NEW candles \in Seq(Candles),
         NEW m \in 0..LastMinute, NEW current, IsShown(first, m, current, candles),
         NEW grown, grown = Grown([expected |-> m, current |-> current], MinuteCandle(m))
  PROVE  /\ grown \in Candles
         /\ Completes(MinuteCandle(m)) =>
              IsShown(first, m + Base, NoCandle, Append(candles, grown))
         /\ ~Completes(MinuteCandle(m)) => IsShown(first, m + Base, grown, candles)
<1> DEFINE n == Len(candles)
           bucket == BucketOpen(first) + n * Interval
           from == FirstIn(first, bucket)
<1>1. /\ bucket \in Nat /\ IsMultiple(bucket, Interval) /\ BucketOpen(m) = bucket
      /\ bucket <= m /\ m < bucket + Interval /\ IsMultiple(m, Base)
      /\ from \in Nat /\ from <= m /\ IsMultiple(from, Base)
      /\ IsCandleOf(grown, bucket, from, m)
  BY GrownIsCandle
<1>2. /\ Base \in Nat \ {0} /\ Interval \in Nat \ {0} /\ m \in Nat /\ n \in Nat
      /\ m <= LastMinute /\ Base <= Interval
  BY ClockFacts, RecordsAssumption, LenProperties
<1>3. grown \in Candles /\ grown.openTime = bucket
  BY <1>1 DEF IsCandleOf
<1>4. BucketOpen(first) \in Nat /\ first < BucketOpen(first) + Interval
  BY BucketFacts
<1>5. \A i \in 1..n : candles[i] = CandleOver(BucketOpen(first) + (i - 1) * Interval,
                             MinutesOf(BucketOpen(first) + (i - 1) * Interval, first))
  BY DEF IsShown
<1>6. Completes(MinuteCandle(m)) <=> m = bucket + Interval - Base
  BY <1>1 DEF Completes, MinuteCandle
<1>7. m + Base \in Nat /\ IsMultiple(m + Base, Base)
  BY <1>1, <1>2, MultipleFacts
<1>8. ASSUME m = bucket + Interval - Base
      PROVE  IsShown(first, m + Base, NoCandle, Append(candles, grown))
  <2> DEFINE more == Append(candles, grown)
             after == BucketOpen(first) + (n + 1) * Interval
  <2>1. /\ Len(more) = n + 1 /\ more[n + 1] = grown
        /\ \A i \in 1..n : more[i] = candles[i]
    BY <1>3, AppendProperties
  <2>2. after = bucket + Interval /\ m + Base = bucket + Interval
    BY <1>2, <1>4, <1>8
  <2>3. IsMultiple(bucket + Interval, Interval)
    <3> HIDE DEF bucket
    <3> QED
      BY <1>1, BucketFacts
  <2>4. BucketOpen(m + Base) = after
    BY <1>1, <1>2, <2>2, <2>3, FloorIs DEF BucketOpen
  <2>5. m + Base = FirstIn(first, after)
    <3>1. n * Interval \in Nat
      BY <1>2
    <3>2. ~(first > after)
      BY <1>2, <1>4, <2>2, <3>1
    <3> QED
      BY <2>2, <3>2 DEF FirstIn
  <2>6. grown = CandleOver(bucket, MinutesOf(bucket, first))
    <3>1. IsMultiple(bucket, Base) /\ bucket \in Nat
      BY <1>1, ClockFacts
    <3>2. from = IF first > bucket THEN first ELSE bucket
      BY DEF FirstIn
    <3> HIDE DEF from, bucket
    <3>3. MinutesOf(bucket, first) = Minutes(from, bucket + Interval - Base)
      BY <1>1, <3>1, <3>2, MinutesOfIs
    <3>4. grown = CandleOver(bucket, Minutes(from, m))
      BY <1>1, <1>2, CandleIs
    <3> QED
      BY <1>8, <3>3, <3>4
  <2> HIDE DEF more, after
  <2>7. \A i \in 1..(n + 1) :
          more[i] = CandleOver(BucketOpen(first) + (i - 1) * Interval,
                               MinutesOf(BucketOpen(first) + (i - 1) * Interval, first))
    <3> SUFFICES ASSUME NEW i \in 1..(n + 1)
                 PROVE  more[i] = CandleOver(BucketOpen(first) + (i - 1) * Interval,
                               MinutesOf(BucketOpen(first) + (i - 1) * Interval, first))
      OBVIOUS
    <3>1. CASE i \in 1..n
      BY <1>5, <2>1, <3>1
    <3>2. CASE i = n + 1
      <4>1. BucketOpen(first) + (i - 1) * Interval = bucket
        BY <1>2, <3>2
      <4> HIDE DEF bucket
      <4> QED
        BY <2>1, <2>6, <3>2, <4>1
    <3> QED
      BY <1>2, <3>1, <3>2
  <2> QED
    BY <1>7, <2>1, <2>4, <2>5, <2>7 DEF IsShown, after, more
<1>9. ASSUME m # bucket + Interval - Base
      PROVE  IsShown(first, m + Base, grown, candles)
  <2>1. m + Base <= bucket + Interval
    <3> HIDE DEF bucket
    <3>1. IsMultiple(bucket + Interval, Base) /\ bucket + Interval \in Int
      BY <1>1, <1>2, BucketFacts
    <3> QED
      BY <1>1, <1>2, <3>1, MultipleFacts
  <2>2. bucket <= m + Base /\ m + Base < bucket + Interval
    BY <1>1, <1>2, <1>9, <2>1
  <2>3. BucketOpen(m + Base) = bucket
    BY <1>1, <1>2, <1>7, <2>2, FloorIs DEF BucketOpen
  <2>4. grown # NoCandle
    <3>1. grown.openTime # -1
      BY <1>1, <1>3
    <3> QED
      BY <3>1 DEF NoCandle
  <2>5. m + Base > from /\ (m + Base) - Base = m /\ m <= LastMinute
    BY <1>1, <1>2
  <2> QED
    BY <1>1, <1>5, <1>7, <2>3, <2>4, <2>5 DEF IsShown
<1> QED
  BY <1>3, <1>6, <1>8, <1>9

-----------------------------------------------------------------------------
(* The grid *)

\* The intents of a grid that fits are of prices and quantities above nothing
\* (StaticGridConfig::validate, on_start).
LEMMA GridIsIntents ==
  ASSUME NEW config \in Configs, ValidGrid(config), NEW close \in Nat, GridFits(config, close)
  PROVE  GridIntents(config, close) \in Seq(Intents)
<1> DEFINE anchor == AnchorPrice(config, close)
           n == 2 * config.levels
           side(i) == IF i % 2 = 1 THEN "buy" ELSE "sell"
           level(i) == (i + 1) \div 2
           price(i) == LevelPrice(side(i), anchor, config.spacing * level(i))
           intent(i) == [side |-> side(i), level |-> level(i), quantity |-> config.quantity,
                         price |-> price(i)]
<1>1. /\ config.fixed \in Int /\ config.spacing \in Nat \ {0} /\ config.levels \in Nat \ {0}
      /\ config.quantity \in Nat \ {0} /\ Whole \in Nat \ {0}
      /\ config.anchor \in {"previous_close", "fixed"}
      /\ config.anchor = "fixed" => config.fixed \in Nat
  <2>1. config \in [anchor : {"previous_close", "fixed"}, fixed : Int, spacing : Int,
                    levels : Nat, quantity : Int]
    BY RecordsAssumption
  <2>2. /\ config.fixed \in Int /\ config.spacing \in Int /\ config.levels \in Nat
        /\ config.quantity \in Int /\ config.anchor \in {"previous_close", "fixed"}
    BY <2>1
  <2>3. Whole \in Nat \ {0}
    BY GridAssumption
  <2> QED
    BY <2>2, <2>3 DEF ValidGrid
<1>2. anchor \in Nat
  BY <1>1 DEF AnchorPrice
<1>3. n \in Nat /\ GridIntents(config, close) = [i \in 1..n |-> intent(i)]
  <2>1. n \in Nat
    BY <1>1
  <2> QED
    BY <2>1 DEF GridIntents
<1>4. ASSUME NEW i \in 1..n
      PROVE  intent(i) \in Intents
  <2>1. level(i) \in Nat /\ level(i) \in 1..config.levels /\ side(i) \in Sides
    BY <1>1 DEF Sides
  <2> DEFINE at == level(i)
             offset == config.spacing * at
  <2> HIDE DEF level, anchor
  <2>2. at \in Nat /\ offset \in Nat
    BY <1>1, <2>1
  <2>3. LevelPrice("buy", anchor, offset) > 0
    BY <2>1 DEF GridFits, anchor
  <2> HIDE DEF at, offset
  <2>4. LevelPrice("buy", anchor, offset) \in Nat
    <3>1. anchor * (Whole - offset) \in Int
      BY <1>1, <1>2, <2>2
    <3>2. (anchor * (Whole - offset)) \div Whole \in Int
      BY <1>1, <3>1
    <3>3. LevelPrice("buy", anchor, offset) \in Int
      BY <3>2 DEF LevelPrice
    <3> QED
      BY <2>3, <3>3
  <2>5. LevelPrice("sell", anchor, offset) \in Nat
    <3>1. anchor * (Whole + offset) \in Nat
      <4>1. Whole + offset \in Nat
        BY <1>1, <2>2
      <4> QED
        BY <1>2, <4>1
    <3>2. (anchor * (Whole + offset)) \div Whole \in Nat
      BY <1>1, <3>1
    <3>3. "sell" # "buy"
      OBVIOUS
    <3> QED
      BY <3>2, <3>3 DEF LevelPrice
  <2>6. price(i) \in Nat
    <3>1. price(i) = LevelPrice(side(i), anchor, offset)
      BY DEF offset, at
    <3> HIDE DEF price
    <3>2. side(i) = "buy" \/ side(i) = "sell"
      OBVIOUS
    <3> HIDE DEF side
    <3> QED
      BY <2>4, <2>5, <3>1, <3>2
  <2> HIDE DEF price, side
  <2> QED
    BY <1>1, <2>1, <2>6 DEF Intents
<1> HIDE DEF n, intent
<1> DEFINE f == [i \in 1..n |-> intent(i)]
<1>5. f \in Seq(Intents)
  <2>1. f \in [1..n -> Intents]
    BY <1>4
  <2> QED
    BY <1>3, <2>1
<1> QED
  BY <1>3, <1>5

\* The orders of intents rest in the order they were submitted in (persist_strategy_output).
LEMMA RestingIsBook ==
  ASSUME NEW intents \in Seq(Intents)
  PROVE  IsBook(Resting(intents)) /\ OrdersOf(Resting(intents)) = 1..Len(intents)
<1> DEFINE L == Len(intents)
           b == Resting(intents)
           order(i) == [order |-> i, intent |-> intents[i], remaining |-> intents[i].quantity]
<1>1. L \in Nat /\ DOMAIN intents = 1..L /\ \A i \in 1..L : intents[i] \in Intents
  BY LenProperties, ElementOfSeq
<1>2. ASSUME NEW i \in 1..L
      PROVE  /\ order(i) \in RestingOrders /\ order(i).order = i
             /\ order(i).remaining \in 1..order(i).intent.quantity
  <2>1. intents[i] \in Intents /\ i \in Nat \ {0}
    BY <1>1
  <2>2. intents[i].quantity \in Nat \ {0}
    BY <2>1 DEF Intents
  <2> QED
    BY <2>1, <2>2 DEF RestingOrders
<1>3. b = [i \in 1..L |-> order(i)]
  BY <1>1 DEF Resting
<1> HIDE DEF b, order, L
<1>4. b \in Seq(RestingOrders) /\ Len(b) = L /\ \A i \in 1..L : b[i] = order(i)
  <2>1. b \in [1..L -> RestingOrders]
    BY <1>2, <1>3
  <2> QED
    BY <1>1, <1>3, <2>1
<1>5. /\ \A i \in 1..L : b[i].remaining \in 1..b[i].intent.quantity /\ b[i].order = i
  BY <1>2, <1>4
<1>6. \A i, j \in 1..L : i < j => b[i].order < b[j].order
  BY <1>5
<1>7. IsBook(b)
  BY <1>4, <1>5, <1>6 DEF IsBook
<1>8. OrdersOf(b) = 1..L
  BY <1>4, <1>5 DEF OrdersOf
<1> QED
  BY <1>7, <1>8 DEF b, L

-----------------------------------------------------------------------------
(* The rows, the account and the book agree at every step *)

\* What LogInv says of the rows that are written and those that are not yet.
LEMMA LogAgrees ==
  ASSUME LogInv
  PROVE  /\ Agree(Log, portfolio, Len(seen), OrdersOf(book)) /\ Log \in Seq(Rows)
         /\ stage # "persisting" => todo = <<>> /\ Log = ledger
<1>1. ledger \in Seq(Rows) /\ todo \in Seq(Rows)
  BY DEF LogInv
<1>2. Log \in Seq(Rows)
  BY <1>1, ConcatProperties DEF Log
<1>3. ASSUME stage # "persisting"
      PROVE  todo = <<>> /\ Log = ledger
  <2>1. todo = <<>>
    BY <1>3 DEF LogInv
  <2>2. ledger \o <<>> = ledger
    BY <1>1, ConcatEmptySeq
  <2> QED
    BY <2>1, <2>2 DEF Log
<1> QED
  BY <1>2, <1>3 DEF LogInv, Agree, Told

\* And what it takes to have it again.
LEMMA LogInvNext ==
  ASSUME stage' \in Stages, ledger' \in Seq(Rows), todo' \in Seq(Rows),
         stage' \in {"desk", "starting"} =>
           /\ ledger' = <<>> /\ todo' = <<>> /\ book' = <<>>
           /\ portfolio' = NewPortfolio(InitialCash),
         stage' = "persisting" <=> todo' # <<>>,
         IsBook(book'),
         Agree(ledger' \o todo', portfolio', Len(seen'), OrdersOf(book'))
  PROVE  LogInv'
<1> DEFINE log == ledger' \o todo'
<1>1. /\ AccountTells(log, portfolio') /\ RowsTell(log)
      /\ LatestTell(log, portfolio', Len(seen')) /\ OrdersTell(log, OrdersOf(book'))
  BY DEF Agree, Told
<1> QED
  BY <1>1 DEF LogInv, Log

\* Nothing is recorded before the run.
LEMMA LogStart ==
  ASSUME RecordsInit
  PROVE  LogInv
<1>1. /\ stage = "desk" /\ todo = <<>> /\ ledger = <<>> /\ book = <<>> /\ seen = <<>>
      /\ portfolio = NewPortfolio(InitialCash)
  BY DEF RecordsInit
<1> DEFINE none == <<>>
<1>2. none \in Seq(Rows) /\ none \o none = none /\ Len(none) = 0 /\ 1..0 = {}
  BY EmptySeq
<1>3. none \in Seq(RestingOrders)
  OBVIOUS
<1> HIDE DEF none
<1>4. IsBook(none) /\ OrdersOf(none) = {}
  BY <1>2, <1>3 DEF IsBook, OrdersOf
<1>5. Agree(none, NewPortfolio(InitialCash), 0, {})
  BY NothingTold DEF none
<1>6. "desk" \in Stages
  BY DEF Stages
<1>7. Log = none
  BY <1>1, <1>2 DEF Log, none
<1>8. /\ AccountTells(none, portfolio) /\ RowsTell(none)
      /\ LatestTell(none, portfolio, Len(seen)) /\ OrdersTell(none, OrdersOf(book))
  <2>1. Len(seen) = 0 /\ OrdersOf(book) = {}
    BY <1>1, <1>2, <1>4 DEF none
  <2> QED
    BY <1>1, <1>5, <2>1 DEF Agree, Told
<1>9. ledger \in Seq(Rows) /\ todo \in Seq(Rows) /\ IsBook(book)
  BY <1>1, <1>2, <1>4 DEF none
<1> QED
  BY <1>1, <1>6, <1>7, <1>8, <1>9 DEF LogInv

\* A step that leaves rows, account and book alone, and stays before the run.
LEMMA LogAtDesk ==
  ASSUME LogInv, stage \in {"desk", "starting"}, stage' \in {"desk", "starting"},
         UNCHANGED <<todo, ledger, book, portfolio, seen>>
  PROVE  LogInv'
<1>1. Agree(ledger \o todo, portfolio, Len(seen), OrdersOf(book))
  BY LogAgrees DEF Log
<1>2. /\ ledger \in Seq(Rows) /\ todo \in Seq(Rows) /\ IsBook(book)
      /\ ledger = <<>> /\ todo = <<>> /\ book = <<>> /\ portfolio = NewPortfolio(InitialCash)
  BY DEF LogInv
<1>3. stage' \in Stages /\ stage' # "persisting"
  BY DEF Stages
<1> QED
  BY <1>1, <1>2, <1>3, LogInvNext

\* A row is written: it was one of those that the event in hand still had to write
\* (PaperRunCore's persist calls).
LEMMA LogWrites ==
  ASSUME LogInv, WriteRow
  PROVE  LogInv'
<1> DEFINE row == Head(todo)
           rest == Tail(todo)
<1>1. /\ ledger \in Seq(Rows) /\ todo \in Seq(Rows) /\ todo # <<>> /\ IsBook(book)
      /\ stage = "persisting"
  BY DEF LogInv, WriteRow
<1>2. /\ ledger' = Append(ledger, row) /\ todo' = rest
      /\ stage' = (IF rest = <<>> THEN AfterRows(ledger') ELSE stage)
      /\ UNCHANGED <<book, portfolio, seen>>
  BY DEF WriteRow
<1>3. row \in Rows /\ rest \in Seq(Rows) /\ Append(ledger, row) \in Seq(Rows)
  BY <1>1, HeadTailProperties, AppendProperties
<1>4. Append(ledger, row) \o rest = ledger \o todo
  BY <1>1, AppendedThen
<1>5. Agree(ledger \o todo, portfolio, Len(seen), OrdersOf(book))
  BY LogAgrees DEF Log
<1>6. stage' \in {"persisting", "running", "ended"} /\ (stage' = "persisting" <=> rest # <<>>)
  BY <1>1, <1>2 DEF AfterRows
<1> HIDE DEF row, rest
<1> QED
  BY <1>1, <1>2, <1>3, <1>4, <1>5, <1>6, LogInvNext DEF Stages

\* The clock of a run is within the minutes of the exchange.
LEMMA ClockInMinutes ==
  ASSUME StartInv
  PROVE  /\ clock \in 0..LastMinute
         /\ stage \in {"starting"} \cup Started =>
              /\ run.now \in Nat /\ run.now <= clock /\ run.config \in Configs
              /\ ValidGrid(run.config)
<1>1. LastMinute \in Nat /\ MaxClock \in 0..LastMinute /\ FirstClock \in 0..MaxClock
  BY RecordsAssumption
<1>2. clock \in FirstClock..MaxClock
  BY DEF StartInv
<1>3. clock \in 0..LastMinute
  BY <1>1, <1>2
<1>4. stage \in {"starting"} \cup Started =>
        run.now \in 0..clock /\ run.config \in Configs /\ ValidGrid(run.config)
  BY DEF StartInv
<1> QED
  BY <1>3, <1>4

\* What start takes of the exchange's candles, and what it makes of them
\* (PaperManager::start).
LEMMA BeginTakes ==
  ASSUME StartInv, BeginRecords
  PROVE  LET boundary == BucketOpen(run.now)
             previous == CandleBefore(boundary)
             intents == GridIntents(run.config, previous.close)
         IN /\ boundary >= Interval /\ previous.close \in Nat
            /\ run' = [config |-> run.config, now |-> run.now, boundary |-> boundary,
                       first |-> FirstFullBaseOpen(run.now), previous |-> previous]
            /\ \/ /\ GridFits(run.config, previous.close)
                  /\ todo' = StartRows(intents) /\ book' = Resting(intents)
               \/ /\ todo' = <<StatusRow("running"), StatusRow("failed")>> /\ book' = <<>>
<1> DEFINE boundary == BucketOpen(run.now)
           previous == CandleBefore(boundary)
<1>1. stage = "starting" /\ clock \in 0..LastMinute /\ run.now \in Nat /\ run.now <= clock
  <2>1. stage = "starting"
    BY DEF BeginRecords
  <2> QED
    BY <2>1, ClockInMinutes
<1>2. PICK candle \in PreviousCompleted(ExchangeCandles(clock), boundary) :
        /\ run' = [config |-> run.config, now |-> run.now, boundary |-> boundary,
                   first |-> FirstFullBaseOpen(run.now), previous |-> candle]
        /\ \/ /\ GridFits(run.config, candle.close)
              /\ todo' = StartRows(GridIntents(run.config, candle.close))
              /\ book' = Resting(GridIntents(run.config, candle.close))
           \/ todo' = <<StatusRow("running"), StatusRow("failed")>> /\ book' = <<>>
  BY DEF BeginRecords
<1>3. boundary \in Nat /\ boundary <= run.now /\ IsMultiple(boundary, Interval)
  BY <1>1, BucketFacts
<1> HIDE DEF boundary
<1>4. boundary \in 0..clock /\ boundary \in 0..LastMinute
  <2>1. LastMinute \in Nat
    BY RecordsAssumption
  <2> QED
    BY <1>1, <1>3, <2>1
<1>5. candle = previous /\ boundary >= Interval
  BY <1>1, <1>3, <1>4, PreviousIs
<1>6. previous.close \in Nat
  BY <1>3, <1>4, <1>5, CandleBeforeFacts
<1> QED
  BY <1>2, <1>5, <1>6 DEF boundary

\* The rows of a start tell of the new account and of the orders that rest.
LEMMA LogBegins ==
  ASSUME LogInv, StartInv, CandlesInv, BeginRecords
  PROVE  LogInv'
<1> DEFINE previous == CandleBefore(BucketOpen(run.now))
           intents == GridIntents(run.config, previous.close)
           new == NewPortfolio(InitialCash)
           none == <<>>
<1>1. /\ stage = "starting" /\ stage' = "persisting" /\ portfolio' = new
      /\ ledger' = <<StatusRow("created")>> /\ seen' = seen
  BY DEF BeginRecords
<1>2. Len(seen) = 0
  <2>1. seen = <<>>
    BY <1>1 DEF CandlesInv, Started
  <2> QED
    BY <2>1, EmptySeq
<1>3. run.config \in Configs /\ ValidGrid(run.config)
  BY <1>1, ClockInMinutes
<1>4. /\ previous.close \in Nat
      /\ \/ /\ GridFits(run.config, previous.close)
            /\ todo' = StartRows(intents) /\ book' = Resting(intents)
         \/ todo' = <<StatusRow("running"), StatusRow("failed")>> /\ book' = <<>>
  BY BeginTakes
<1>5. stage' \in Stages
  BY <1>1 DEF Stages
<1> HIDE DEF previous
<1>6. CASE /\ GridFits(run.config, previous.close)
           /\ todo' = StartRows(intents) /\ book' = Resting(intents)
  <2>1. intents \in Seq(Intents)
    BY <1>3, <1>4, <1>6, GridIsIntents
  <2> HIDE DEF intents, new
  <2>2. IsBook(Resting(intents)) /\ OrdersOf(Resting(intents)) = 1..Len(intents)
    BY <2>1, RestingIsBook
  <2>3. /\ <<StatusRow("created")>> \in Seq(Rows)
        /\ StartRows(intents) \in Seq(Rows) /\ StartRows(intents) # <<>>
        /\ Agree(<<StatusRow("created")>> \o StartRows(intents), new, 0, 1..Len(intents))
    BY <2>1, StartAgrees DEF new
  <2>4. Agree(ledger' \o todo', portfolio', Len(seen'), OrdersOf(book'))
    BY <1>1, <1>2, <1>6, <2>2, <2>3
  <2> QED
    BY <1>1, <1>5, <1>6, <2>2, <2>3, <2>4, LogInvNext
<1>7. CASE todo' = <<StatusRow("running"), StatusRow("failed")>> /\ book' = <<>>
  <2> DEFINE refusal == <<StatusRow("running"), StatusRow("failed")>>
             created == <<StatusRow("created")>>
  <2>1. /\ refusal \in Seq(Rows) /\ refusal # <<>>
        /\ Agree(created \o refusal, new, 0, {})
    BY RefusalAgrees
  <2>2. created \in Seq(Rows)
    <3>1. StatusRow("created") \in Rows
      BY RowMakers DEF StatusRow
    <3> QED
      BY <3>1
  <2>3. Len(none) = 0 /\ 1..0 = {} /\ none \in Seq(RestingOrders)
    BY EmptySeq
  <2>4. IsBook(none) /\ OrdersOf(none) = {}
    BY <2>3 DEF IsBook, OrdersOf
  <2> HIDE DEF refusal, created, new, none
  <2>5. todo' = refusal /\ ledger' = created /\ book' = none
    BY <1>1, <1>7 DEF refusal, created, none
  <2>6. Agree(ledger' \o todo', portfolio', Len(seen'), OrdersOf(book'))
    BY <1>1, <1>2, <2>1, <2>4, <2>5
  <2> QED
    BY <1>1, <1>5, <2>1, <2>2, <2>4, <2>5, <2>6, LogInvNext
<1> QED
  BY <1>4, <1>6, <1>7

\* A step of the run loop: the rows it leaves agree, with what is written, with the
\* account and the book that it leaves.
LEMMA LogPersists ==
  ASSUME LogInv, stage = "running", NEW newRows \in Seq(Rows), Persisting(newRows),
         IsBook(book'), Agree(ledger \o newRows, portfolio', Len(seen'), OrdersOf(book'))
  PROVE  LogInv'
<1>1. /\ todo' = newRows /\ ledger' = ledger /\ ledger \in Seq(Rows)
      /\ stage' = IF newRows = <<>> THEN "running" ELSE "persisting"
  BY DEF LogInv, Persisting
<1>2. stage' \in Stages /\ stage' \in {"running", "persisting"}
  BY <1>1 DEF Stages
<1> QED
  BY <1>1, <1>2, LogInvNext

\* A trade that fills orders of the book (LivePaperExecution::process_trade).
LEMMA LogTrades ==
  ASSUME LogInv, CandlesInv, NEW price \in TradePrices, TradeArrives(price)
  PROVE  LogInv'
<1> DEFINE start == [portfolio |-> portfolio, rows |-> <<>>]
           account == FillEach(start, Touched(price))
           n == Len(seen)
<1>1. /\ stage = "running" /\ book' = RetainOpen(TakenBy(price))
      /\ portfolio' = account.portfolio /\ Persisting(account.rows) /\ seen' = seen
  BY DEF TradeArrives, TakenBy, AfterTrade
<1>2. /\ Log = ledger /\ IsBook(book) /\ ledger \in Seq(Rows)
      /\ Agree(ledger, portfolio, n, OrdersOf(book))
  BY <1>1, LogAgrees DEF LogInv
<1>3. n \in Nat
  BY LenProperties DEF CandlesInv
<1> HIDE DEF account, n
<1>4. /\ account \in Accounts
      /\ Agree(ledger \o account.rows, account.portfolio, n,
               OrdersOf(RetainOpen(TakenBy(price))))
  BY <1>2, <1>3, TradeAgrees DEF account
<1>5. IsBook(RetainOpen(TakenBy(price)))
  BY <1>2, BookAfterTrade
<1> DEFINE newRows == account.rows
           after == account.portfolio
           left == RetainOpen(TakenBy(price))
<1>6. newRows \in Seq(Rows) /\ Agree(ledger \o newRows, after, n, OrdersOf(left))
  BY <1>4 DEF Accounts
<1>7. book' = left /\ portfolio' = after /\ Persisting(newRows) /\ Len(seen') = n
  BY <1>1 DEF account, n
<1> HIDE DEF newRows, after, left
<1>8. IsBook(book') /\ Agree(ledger \o newRows, portfolio', Len(seen'), OrdersOf(book'))
  BY <1>5, <1>6, <1>7 DEF left
<1> QED
  BY <1>1, <1>6, <1>7, <1>8, LogPersists

\* The end of a run: every order is closed, and the account is left (PaperRunCore::stop, fail).
LEMMA LogEnds ==
  ASSUME LogInv, CandlesInv, stage = "running", NEW status \in {"failed", "stopped"},
         EndRun(status)
  PROVE  LogInv'
<1> DEFINE n == Len(seen)
           none == <<>>
<1>1. /\ Persisting(EndRows(status)) /\ book' = none /\ portfolio' = portfolio /\ seen' = seen
  BY DEF EndRun
<1>2. /\ Log = ledger /\ IsBook(book) /\ ledger \in Seq(Rows)
      /\ Agree(ledger, portfolio, n, OrdersOf(book))
  BY LogAgrees DEF LogInv
<1>3. n \in Nat
  BY LenProperties DEF CandlesInv
<1>4. /\ EndRows(status) \in Seq(Rows)
      /\ Agree(ledger \o EndRows(status), portfolio, n, {})
  BY <1>2, <1>3, EndAgrees
<1>5. IsBook(none) /\ OrdersOf(none) = {}
  <2>1. Len(none) = 0 /\ 1..0 = {} /\ none \in Seq(RestingOrders)
    BY EmptySeq
  <2> QED
    BY <2>1 DEF IsBook, OrdersOf
<1> HIDE DEF none, n
<1>6. Agree(ledger \o EndRows(status), portfolio', Len(seen'), OrdersOf(book'))
  BY <1>1, <1>4, <1>5 DEF n
<1> QED
  BY <1>1, <1>4, <1>5, <1>6, LogPersists

\* A step of the run loop that leaves no rows.
LEMMA LogIdles ==
  ASSUME LogInv, stage = "running", Persisting(<<>>), UNCHANGED <<book, portfolio, seen>>
  PROVE  LogInv'
<1> DEFINE none == <<>>
<1>1. none \in Seq(Rows) /\ Persisting(none)
  OBVIOUS
<1>2. /\ Log = ledger /\ IsBook(book) /\ ledger \in Seq(Rows)
      /\ Agree(ledger, portfolio, Len(seen), OrdersOf(book))
  BY LogAgrees DEF LogInv
<1>3. ledger \o none = ledger
  BY <1>2, ConcatEmptySeq
<1> HIDE DEF none
<1>4. IsBook(book') /\ Agree(ledger \o none, portfolio', Len(seen'), OrdersOf(book'))
  BY <1>2, <1>3
<1> QED
  BY <1>1, <1>4, LogPersists

\* The candle that push accepts, of the minute that the aggregator expects.
LEMMA PushTakes ==
  ASSUME StartInv, CandlesInv, stage = "running", NEW minute \in Nat, minute <= LastMinute,
         Pushable(aggregator, MinuteCandle(minute)),
         NEW grown, grown = Grown(aggregator, MinuteCandle(minute))
  PROVE  /\ grown \in Candles
         /\ Completes(MinuteCandle(minute)) =>
              IsShown(run.first, minute + Base, NoCandle, Append(seen, grown))
         /\ ~Completes(MinuteCandle(minute)) =>
              IsShown(run.first, minute + Base, grown, seen)
         /\ Push(aggregator, MinuteCandle(minute)) =
              [expected |-> minute + Base,
               current |-> IF Completes(MinuteCandle(minute)) THEN NoCandle ELSE grown]
<1> DEFINE candle == MinuteCandle(minute)
           first == run.first
           current == aggregator.current
<1>1. minute = aggregator.expected
  BY DEF Pushable, MinuteCandle
<1>2. aggregator = [expected |-> minute, current |-> current]
  BY <1>1 DEF CandlesInv
<1>3. /\ IsShown(first, minute, current, seen) /\ seen \in Seq(Candles)
  BY <1>1 DEF CandlesInv, Started
<1>4. first \in Nat /\ IsMultiple(first, Base)
  <2>1. run.now \in Nat /\ first = FirstFullBaseOpen(run.now)
    BY ClockInMinutes DEF StartInv, Started
  <2> QED
    BY <2>1, FirstMinuteFacts
<1>5. Push(aggregator, candle) =
        [expected |-> minute + Base, current |-> IF Completes(candle) THEN NoCandle ELSE grown]
  BY <1>1 DEF Push
<1>6. minute \in 0..LastMinute
  BY RecordsAssumption
<1> HIDE DEF first, current, candle
<1>7. grown = Grown([expected |-> minute, current |-> current], MinuteCandle(minute))
  BY <1>2 DEF candle
<1>8. /\ grown \in Candles
      /\ Completes(MinuteCandle(minute)) =>
           IsShown(first, minute + Base, NoCandle, Append(seen, grown))
      /\ ~Completes(MinuteCandle(minute)) => IsShown(first, minute + Base, grown, seen)
  BY <1>3, <1>4, <1>6, <1>7, PushShows
<1> QED
  BY <1>5, <1>8 DEF first, candle

\* The candle branch of the run loop.
LEMMA LogCandle ==
  ASSUME LogInv, StartInv, CandlesInv, NEW minute \in Nat, CandleArrives(minute)
  PROVE  LogInv'
<1> DEFINE candle == MinuteCandle(minute)
           completed == Grown(aggregator, candle)
           marked == MarkPortfolio(portfolio, completed.close)
           row == EquityRow(PortfolioView(marked))
           n == Len(seen)
<1>1. stage = "running" /\ minute <= LastMinute
  BY DEF CandleArrives
<1>2. CASE Persisting(<<>>) /\ UNCHANGED <<book, portfolio, seen>>
  BY <1>1, <1>2, LogIdles
<1>3. CASE EndRun("failed")
  BY <1>1, <1>3, LogEnds
<1>4. CASE /\ Pushable(aggregator, candle) /\ UNCHANGED book
           /\ portfolio' = marked /\ seen' = Append(seen, completed) /\ Persisting(<<row>>)
  <2>1. completed \in Candles
    BY <1>1, <1>4, PushTakes
  <2> HIDE DEF completed
  <2>2. completed.close \in Nat
    BY <2>1 DEF Candles
  <2>3. /\ Log = ledger /\ IsBook(book) /\ ledger \in Seq(Rows)
        /\ Agree(ledger, portfolio, n, OrdersOf(book))
    BY <1>1, LogAgrees DEF LogInv
  <2>4. n \in Nat /\ Len(Append(seen, completed)) = n + 1
    BY <2>1, LenProperties, AppendProperties DEF CandlesInv
  <2> HIDE DEF n
  <2>5. /\ row \in Rows /\ row.kind = "equity"
        /\ Told(Append(ledger, row), marked, n + 1)
    <3>1. ledger \in Seq(Rows) /\ Told(ledger, portfolio, n)
      BY <2>3 DEF Agree
    <3>2. row \in Rows /\ Told(Append(ledger, row), marked, n + 1)
      BY <2>2, <2>4, <3>1, MarkTells
    <3> QED
      BY <3>2 DEF EquityRow
  <2> HIDE DEF row, marked
  <2>6. OrdersTell(Append(ledger, row), OrdersOf(book))
    BY <2>3, <2>5, NoOrderRow DEF Agree
  <2> DEFINE newRows == <<row>>
  <2>7. ledger \o newRows = Append(ledger, row) /\ newRows \in Seq(Rows)
    BY <2>3, <2>5, AppendIsConcat
  <2>8. Append(ledger, row) \in Seq(Rows)
    BY <2>3, <2>5, AppendProperties
  <2>9. Agree(Append(ledger, row), marked, n + 1, OrdersOf(book))
    BY <2>5, <2>6, <2>8 DEF Agree
  <2> HIDE DEF newRows
  <2>10. /\ IsBook(book') /\ Persisting(newRows)
         /\ Agree(ledger \o newRows, portfolio', Len(seen'), OrdersOf(book'))
    BY <1>4, <2>3, <2>4, <2>7, <2>9 DEF newRows
  <2> QED
    BY <1>1, <2>7, <2>10, LogPersists
<1> QED
  BY <1>2, <1>3, <1>4 DEF CandleArrives

-----------------------------------------------------------------------------
(* What start decided, and what the strategy was shown, at every step *)

\* Nothing is decided or shown before the run.
LEMMA StartCandlesInit ==
  ASSUME RecordsInit
  PROVE  StartInv /\ CandlesInv
<1>1. /\ bot = NoConfig /\ clock = FirstClock /\ preview = NoPreview /\ stage = "desk"
      /\ aggregator = NewAggregator(0) /\ seen = <<>> /\ nextMinute = 0
  BY DEF RecordsInit
<1>2. clock \in FirstClock..MaxClock
  BY <1>1, RecordsAssumption
<1>3. stage \notin {"starting"} \cup Started /\ stage \notin {"running", "ended"}
      /\ stage # "persisting"
  BY <1>1 DEF Started
<1>4. StartInv
  BY <1>1, <1>2, <1>3 DEF StartInv
<1>5. seen \in Seq(Candles)
  BY <1>1
<1>6. /\ aggregator = [expected |-> aggregator.expected, current |-> aggregator.current]
      /\ aggregator.expected = 0
  BY <1>1 DEF NewAggregator
<1>7. CandlesInv
  BY <1>1, <1>3, <1>5, <1>6 DEF CandlesInv
<1> QED
  BY <1>4, <1>7

\* A user's step before the run (create_bot, update_bot, preview, start_run), or time passing.
LEMMA StartAtDesk ==
  ASSUME StartInv,
         \/ \E config \in Configs : \/ CreateBot(config) \/ UpdateBot(config)
                                    \/ Preview(config) \/ RequestStart(config)
         \/ AdvanceClock
  PROVE  /\ StartInv' /\ stage \in {"desk", "starting"} /\ stage' \in {"desk", "starting"}
         /\ UNCHANGED <<todo, ledger, book, portfolio, aggregator, seen, nextMinute>>
<1>1. /\ bot \in Configs \cup {NoConfig} /\ bot # NoConfig => ValidGrid(bot)
      /\ clock \in 0..LastMinute /\ clock \in FirstClock..MaxClock
      /\ FirstClock \in Nat /\ MaxClock \in Nat
      /\ preview # NoPreview =>
           preview.levels = GridIntents(preview.config, CandleBefore(preview.boundary).close)
      /\ stage = "starting" =>
           run.config \in Configs /\ ValidGrid(run.config) /\ run.now \in 0..clock
  BY ClockInMinutes, RecordsAssumption DEF StartInv
<1>2. ASSUME NEW config \in Configs, CreateBot(config) \/ UpdateBot(config)
      PROVE  /\ StartInv' /\ stage \in {"desk", "starting"} /\ stage' \in {"desk", "starting"}
             /\ UNCHANGED <<todo, ledger, book, portfolio, aggregator, seen, nextMinute>>
  <2>1. /\ ValidGrid(config) /\ bot' = config /\ stage \in {"desk", "starting"}
        /\ UNCHANGED <<clock, preview, run, stage, todo, ledger, book, portfolio, aggregator,
                       seen, nextMinute>>
    BY <1>2 DEF CreateBot, UpdateBot, ValidConfiguration
  <2> QED
    BY <1>1, <2>1 DEF StartInv, Started
<1>3. ASSUME NEW config \in Configs, Preview(config)
      PROVE  /\ StartInv' /\ stage \in {"desk", "starting"} /\ stage' \in {"desk", "starting"}
             /\ UNCHANGED <<todo, ledger, book, portfolio, aggregator, seen, nextMinute>>
  <2>1. /\ stage = "desk"
        /\ UNCHANGED <<bot, clock, run, stage, todo, ledger, book, portfolio, aggregator,
                       seen, nextMinute>>
    BY <1>3 DEF Preview
  <2> DEFINE boundary == BucketOpen(clock)
  <2>2. PICK candle \in PreviousCompleted(ExchangeCandles(clock), boundary) :
          preview' = [config |-> config, boundary |-> boundary,
                      levels |-> GridIntents(config, candle.close)]
    BY <1>3 DEF Preview
  <2>3. boundary \in Nat /\ boundary <= clock /\ IsMultiple(boundary, Interval) /\ clock \in Nat
    BY <1>1, BucketFacts
  <2> HIDE DEF boundary
  <2>4. candle = CandleBefore(boundary)
    <3>1. boundary \in 0..clock
      BY <2>3
    <3> QED
      BY <1>1, <2>3, <3>1, PreviousIs
  <2>5. preview'.levels = GridIntents(preview'.config, CandleBefore(preview'.boundary).close)
    BY <2>2, <2>4
  <2> QED
    BY <1>1, <2>1, <2>5 DEF StartInv, Started
<1>4. ASSUME NEW config \in Configs, RequestStart(config)
      PROVE  /\ StartInv' /\ stage \in {"desk", "starting"} /\ stage' \in {"desk", "starting"}
             /\ UNCHANGED <<todo, ledger, book, portfolio, aggregator, seen, nextMinute>>
  <2>1. /\ stage = "desk" /\ stage' = "starting" /\ ValidGrid(config)
        /\ run' = [config |-> config, now |-> clock]
        /\ UNCHANGED <<bot, clock, preview, todo, ledger, book, portfolio, aggregator,
                       seen, nextMinute>>
    BY <1>4 DEF RequestStart, ValidConfiguration
  <2>2. run'.config = config /\ run'.now = clock /\ clock \in 0..clock
    BY <1>1, <2>1
  <2> QED
    BY <1>1, <2>1, <2>2 DEF StartInv, Started
<1>5. CASE AdvanceClock
  <2>1. /\ stage \in {"desk", "starting"} /\ clock < MaxClock /\ clock' = clock + 1
        /\ UNCHANGED <<bot, preview, run, stage, todo, ledger, book, portfolio, aggregator,
                       seen, nextMinute>>
    BY <1>5 DEF AdvanceClock
  <2>2. clock' \in FirstClock..MaxClock /\ (run.now \in 0..clock => run.now \in 0..clock')
    BY <1>1, <2>1
  <2> QED
    BY <1>1, <2>1, <2>2 DEF StartInv, Started
<1> QED
  BY <1>2, <1>3, <1>4, <1>5

\* Nor do those steps show the strategy anything.
LEMMA CandlesAtDesk ==
  ASSUME CandlesInv, stage \notin Started, stage' \notin Started,
         UNCHANGED <<aggregator, seen, nextMinute>>
  PROVE  CandlesInv'
BY DEF CandlesInv, Started

\* The start decides its times and its candle, and the strategy has seen nothing.
LEMMA StartCandlesBegin ==
  ASSUME StartInv, CandlesInv, BeginRecords
  PROVE  StartInv' /\ CandlesInv'
<1> DEFINE boundary == BucketOpen(run.now)
           previous == CandleBefore(boundary)
           first == FirstFullBaseOpen(run.now)
<1>1. /\ stage = "starting" /\ stage' = "persisting" /\ UNCHANGED <<bot, clock, preview, seen>>
      /\ aggregator' = NewAggregator(first) /\ nextMinute' = Floor(clock, Base)
  BY DEF BeginRecords
<1>2. /\ run.now \in 0..clock /\ run.now \in Nat /\ run.config \in Configs
      /\ ValidGrid(run.config) /\ clock \in Nat
  BY <1>1, ClockInMinutes DEF StartInv
<1>3. /\ boundary >= Interval
      /\ run' = [config |-> run.config, now |-> run.now, boundary |-> boundary,
                 first |-> first, previous |-> previous]
      /\ \/ book' = Resting(GridIntents(run.config, previous.close))
         \/ book' = <<>>
  BY BeginTakes
<1>4. /\ first \in Nat /\ IsShown(first, first, NoCandle, <<>>)
  BY <1>2, FirstMinuteFacts
<1> HIDE DEF boundary, previous, first
<1>5. /\ run'.config = run.config /\ run'.now = run.now /\ run'.boundary = boundary
      /\ run'.first = first /\ run'.previous = previous
  BY <1>3
<1>6. book' # <<>> => book' = Resting(GridIntents(run'.config, run'.previous.close))
  BY <1>3, <1>5
<1>7. StartInv'
  BY <1>1, <1>2, <1>3, <1>5, <1>6 DEF StartInv, Started, boundary, previous, first
<1>8. Floor(clock, Base) \in Nat
  <2>1. clock \in Int /\ Base \in Nat \ {0}
    BY <1>2, ClockFacts
  <2>2. clock \in Nat => Floor(clock, Base) \in Nat
    BY <2>1, FloorFacts
  <2> QED
    BY <1>2, <2>2
<1>9. seen' = <<>> /\ seen' \in Seq(Candles)
  BY <1>1 DEF CandlesInv, Started
<1>10. /\ aggregator' = [expected |-> aggregator'.expected, current |-> aggregator'.current]
       /\ aggregator'.expected = first /\ aggregator'.current = NoCandle
  BY <1>1 DEF NewAggregator
<1>11. CandlesInv'
  BY <1>1, <1>4, <1>5, <1>8, <1>9, <1>10 DEF CandlesInv, Started
<1> QED
  BY <1>7, <1>11

\* Once the run is there, nothing changes what start decided.
LEMMA StartKept ==
  ASSUME StartInv, stage \in Started, stage' \in Started, UNCHANGED <<bot, clock, run>>,
         preview' \in {preview, NoPreview},
         stage' \in {"running", "ended"} => preview' = NoPreview,
         stage' = "persisting" /\ preview' # NoPreview /\ book' # <<>> =>
           book' = Resting(GridIntents(run.config, run.previous.close))
  PROVE  StartInv'
BY DEF StartInv, Started

\* A row that is written, and what it says to the console.
LEMMA StartCandlesWrite ==
  ASSUME StartInv, CandlesInv, WriteRow
  PROVE  StartInv' /\ CandlesInv'
<1>1. /\ stage = "persisting" /\ stage' \in {"persisting", "running", "ended"}
      /\ stage' # "persisting" => preview' = NoPreview
      /\ preview' \in {preview, NoPreview}
      /\ UNCHANGED <<bot, clock, run, book, aggregator, seen, nextMinute>>
  BY DEF WriteRow, AfterRows
<1>2. StartInv'
  <2>1. stage' = "persisting" /\ preview' # NoPreview /\ book' # <<>> =>
           book' = Resting(GridIntents(run.config, run.previous.close))
    BY <1>1 DEF StartInv
  <2> QED
    BY <1>1, <2>1, StartKept DEF Started
<1>3. CandlesInv'
  BY <1>1 DEF CandlesInv, Started
<1> QED
  BY <1>2, <1>3

\* A step of the run loop leaves what start decided.
LEMMA StartRuns ==
  ASSUME StartInv, stage = "running", stage' \in Started, UNCHANGED <<bot, clock, preview, run>>
  PROVE  StartInv'
<1>1. preview = NoPreview
  BY DEF StartInv
<1> QED
  BY <1>1, StartKept DEF Started

\* A step of the run loop that shows the strategy nothing.
LEMMA CandlesRun ==
  ASSUME CandlesInv, stage = "running", stage' \in Started,
         UNCHANGED <<run, aggregator, seen>>, nextMinute' \in Nat
  PROVE  CandlesInv'
BY DEF CandlesInv, Started

\* The candle branch of the run loop shows the strategy whole buckets only.
LEMMA StartCandlesCandle ==
  ASSUME StartInv, CandlesInv, NEW minute \in Nat, CandleArrives(minute)
  PROVE  StartInv' /\ CandlesInv'
<1> DEFINE candle == MinuteCandle(minute)
           grown == Grown(aggregator, candle)
<1>1. /\ stage = "running" /\ minute <= LastMinute
      /\ nextMinute' = IF minute = nextMinute THEN nextMinute + Base ELSE nextMinute
  BY DEF CandleArrives
<1>2. nextMinute' \in Nat
  <2>1. nextMinute \in Nat /\ Base \in Nat
    BY ClockFacts DEF CandlesInv
  <2> QED
    BY <1>1, <2>1
<1>3. /\ stage' \in Started /\ UNCHANGED <<bot, clock, preview, run>>
      /\ \/ UNCHANGED <<aggregator, seen>>
         \/ /\ Pushable(aggregator, candle) /\ aggregator' = Push(aggregator, candle)
            /\ IF Completes(candle) THEN seen' = Append(seen, grown) ELSE seen' = seen
  BY DEF CandleArrives, Persisting, EndRun, Started
<1>4. StartInv'
  BY <1>1, <1>3, StartRuns
<1>5. CASE UNCHANGED <<aggregator, seen>>
  BY <1>1, <1>2, <1>3, <1>4, <1>5, CandlesRun
<1>6. CASE /\ Pushable(aggregator, candle) /\ aggregator' = Push(aggregator, candle)
           /\ IF Completes(candle) THEN seen' = Append(seen, grown) ELSE seen' = seen
  <2>1. /\ grown \in Candles
        /\ Completes(candle) => IsShown(run.first, minute + Base, NoCandle, Append(seen, grown))
        /\ ~Completes(candle) => IsShown(run.first, minute + Base, grown, seen)
        /\ Push(aggregator, candle) =
             [expected |-> minute + Base,
              current |-> IF Completes(candle) THEN NoCandle ELSE grown]
    BY <1>1, <1>6, PushTakes
  <2> HIDE DEF grown, candle
  <2>2. seen \in Seq(Candles) /\ seen' \in Seq(Candles)
    BY <1>6, <2>1, AppendProperties DEF CandlesInv
  <2>3. /\ aggregator' = [expected |-> aggregator'.expected, current |-> aggregator'.current]
        /\ aggregator'.expected = minute + Base
        /\ aggregator'.current = IF Completes(candle) THEN NoCandle ELSE grown
    BY <1>6, <2>1
  <2>4. IsShown(run.first, aggregator'.expected, aggregator'.current, seen')
    BY <1>6, <2>1, <2>3
  <2> QED
    BY <1>2, <1>3, <1>4, <2>2, <2>3, <2>4 DEF CandlesInv, Started
<1> QED
  BY <1>3, <1>4, <1>5, <1>6

\* The invariant of the records holds when nothing has happened.
THEOREM RecordsStart == RecordsInit => RecordsInv
BY LogStart, StartCandlesInit DEF RecordsInv

\* And it survives every step: of a user, of the clock, of the exchange and of the actor.
THEOREM RecordsStep == RecordsInv /\ [RecordsNext]_recordsVars => RecordsInv'
<1> SUFFICES ASSUME LogInv, StartInv, CandlesInv, [RecordsNext]_recordsVars
             PROVE  LogInv' /\ StartInv' /\ CandlesInv'
  BY DEF RecordsInv
<1>1. ASSUME \/ \E config \in Configs : \/ CreateBot(config) \/ UpdateBot(config)
                                         \/ Preview(config) \/ RequestStart(config)
             \/ AdvanceClock
      PROVE  LogInv' /\ StartInv' /\ CandlesInv'
  <2>1. /\ StartInv' /\ stage \in {"desk", "starting"} /\ stage' \in {"desk", "starting"}
        /\ UNCHANGED <<todo, ledger, book, portfolio, aggregator, seen, nextMinute>>
    BY <1>1, StartAtDesk
  <2>2. LogInv'
    BY <2>1, LogAtDesk
  <2>3. CandlesInv'
    BY <2>1, CandlesAtDesk DEF Started
  <2> QED
    BY <2>1, <2>2, <2>3
<1>2. CASE BeginRecords
  BY <1>2, LogBegins, StartCandlesBegin
<1>3. CASE WriteRow
  BY <1>3, LogWrites, StartCandlesWrite
<1>4. ASSUME NEW price \in TradePrices, TradeArrives(price)
      PROVE  LogInv' /\ StartInv' /\ CandlesInv'
  <2>1. /\ stage = "running" /\ stage' \in Started
        /\ UNCHANGED <<bot, clock, preview, run, aggregator, seen, nextMinute>>
    BY <1>4 DEF TradeArrives, Persisting, Started
  <2>2. nextMinute' \in Nat
    BY <2>1 DEF CandlesInv
  <2> QED
    BY <1>4, <2>1, <2>2, LogTrades, StartRuns, CandlesRun
<1>5. ASSUME NEW minute \in Nat, CandleArrives(minute)
      PROVE  LogInv' /\ StartInv' /\ CandlesInv'
  BY <1>5, LogCandle, StartCandlesCandle
<1>6. nextMinute \in Nat /\ Base \in Nat
  BY ClockFacts DEF CandlesInv
<1>7. CASE NextMinute
  BY <1>5, <1>6, <1>7 DEF NextMinute
<1>8. CASE RepeatMinute
  <2>1. nextMinute - Base \in Nat
    BY <1>6, <1>8 DEF RepeatMinute
  <2> QED
    BY <1>5, <1>8, <2>1 DEF RepeatMinute
<1>9. CASE LoseMinute
  <2>1. /\ stage = "running" /\ stage' = stage /\ nextMinute' = nextMinute + Base
        /\ UNCHANGED <<bot, clock, preview, run, todo, ledger, book, portfolio, aggregator, seen>>
    BY <1>9 DEF LoseMinute
  <2>2. LogInv'
    <3>1. /\ ledger \in Seq(Rows) /\ todo \in Seq(Rows) /\ IsBook(book)
          /\ stage = "persisting" <=> todo # <<>>
      BY DEF LogInv
    <3>2. Agree(ledger \o todo, portfolio, Len(seen), OrdersOf(book))
      BY LogAgrees DEF Log
    <3>3. stage' \in Stages /\ stage' \notin {"desk", "starting"}
      BY <2>1 DEF Stages
    <3> QED
      BY <2>1, <3>1, <3>2, <3>3, LogInvNext
  <2>3. nextMinute' \in Nat
    BY <1>6, <2>1
  <2> QED
    BY <2>1, <2>2, <2>3, StartRuns, CandlesRun DEF Started
<1>10. CASE StopRecords
  <2>1. PICK status \in {"stopped", "failed"} : EndRun(status)
    BY <1>10 DEF StopRecords
  <2>2. stage = "running" /\ nextMinute' = nextMinute
    BY <1>10 DEF StopRecords
  <2>3. /\ stage' \in Started /\ UNCHANGED <<bot, clock, preview, run, aggregator, seen>>
    BY <2>1 DEF EndRun, Persisting, Started
  <2>4. nextMinute' \in Nat
    BY <2>2 DEF CandlesInv
  <2> QED
    BY <2>1, <2>2, <2>3, <2>4, LogEnds, StartRuns, CandlesRun
<1>11. CASE UNCHANGED recordsVars
  <2>1. /\ bot' = bot /\ clock' = clock /\ preview' = preview /\ run' = run /\ stage' = stage
        /\ todo' = todo /\ ledger' = ledger /\ book' = book /\ portfolio' = portfolio
        /\ aggregator' = aggregator /\ seen' = seen /\ nextMinute' = nextMinute
    BY <1>11 DEF recordsVars
  <2>2. LogInv'
    <3>1. /\ stage \in Stages /\ ledger \in Seq(Rows) /\ todo \in Seq(Rows) /\ IsBook(book)
          /\ stage = "persisting" <=> todo # <<>>
          /\ stage \in {"desk", "starting"} =>
               /\ ledger = <<>> /\ todo = <<>> /\ book = <<>>
               /\ portfolio = NewPortfolio(InitialCash)
      BY DEF LogInv
    <3>2. Agree(ledger \o todo, portfolio, Len(seen), OrdersOf(book))
      BY LogAgrees DEF Log
    <3> QED
      BY <2>1, <3>1, <3>2, LogInvNext
  <2>3. StartInv'
    BY <2>1 DEF StartInv
  <2>4. CandlesInv'
    BY <2>1 DEF CandlesInv
  <2> QED
    BY <2>2, <2>3, <2>4
<1> QED
  BY <1>1, <1>2, <1>3, <1>4, <1>7, <1>8, <1>9, <1>10, <1>11 DEF RecordsNext

-----------------------------------------------------------------------------
(* What the invariant says to a reader of the run *)

\* Rows, orders, money and times are of the kinds the code keeps.
LEMMA InvIsTyped ==
  ASSUME RecordsInv
  PROVE  RecordsTypeOK
<1>1. /\ ledger \in Seq(Rows) /\ todo \in Seq(Rows) /\ IsBook(book) /\ stage \in Stages
      /\ portfolio \in Account
  BY DEF RecordsInv, LogInv, AccountTells
<1>2. \A rows \in Seq(Rows) : \A i \in DOMAIN rows : rows[i].kind \in RowKinds
  BY LenProperties, ElementOfSeq, RowFacts
<1>3. \A i \in DOMAIN book : book[i].remaining \in 1..book[i].intent.quantity
  <2>1. book \in Seq(RestingOrders)
    BY <1>1 DEF IsBook
  <2>2. DOMAIN book = 1..Len(book)
    BY <2>1, LenProperties
  <2> QED
    BY <1>1, <2>2 DEF IsBook
<1>4. portfolio.cash \in Int /\ portfolio.cost \in Nat /\ portfolio.fees \in Nat
  BY <1>1 DEF Account
<1>5. aggregator.expected \in Nat /\ nextMinute \in Nat
  <2>1. CASE stage \in Started
    BY <2>1 DEF RecordsInv, CandlesInv, IsShown
  <2>2. CASE stage \notin Started
    BY <2>2 DEF RecordsInv, CandlesInv
  <2> QED
    BY <2>1, <2>2
<1>6. bot \in Configs \cup {NoConfig} /\ clock \in FirstClock..MaxClock
  BY DEF RecordsInv, StartInv
<1> QED
  BY <1>1, <1>2, <1>3, <1>4, <1>5, <1>6 DEF RecordsTypeOK

\* The intents of the orders that rest are those that were laid.
LEMMA IntentsOfResting ==
  ASSUME NEW config, NEW close
  PROVE  LET resting == Resting(GridIntents(config, close))
         IN [i \in DOMAIN resting |-> resting[i].intent] = GridIntents(config, close)
<1> DEFINE intents == GridIntents(config, close)
           resting == Resting(intents)
<1>2. DOMAIN resting = DOMAIN intents /\ \A i \in DOMAIN intents : resting[i].intent = intents[i]
  BY DEF Resting
<1>3. intents = [i \in DOMAIN intents |-> intents[i]]
  BY DEF GridIntents
<1> HIDE DEF intents, resting
<1>4. [i \in DOMAIN resting |-> resting[i].intent] = [i \in DOMAIN intents |-> intents[i]]
  BY <1>2
<1> QED
  BY <1>3, <1>4 DEF intents, resting

\* The strategy trades on whole candles of minutes after its orders.
THEOREM InvShowsWholeBuckets == RecordsInv => StrategySeesWholeBuckets
<1> SUFFICES ASSUME LogInv, StartInv, CandlesInv, stage \in Started
             PROVE  StrategySeesWholeBuckets
  BY DEF RecordsInv, StrategySeesWholeBuckets, Started
<1>1. /\ run.now \in Nat /\ run.now <= clock /\ clock \in 0..LastMinute
      /\ run.boundary = BucketOpen(run.now) /\ run.boundary >= Interval
      /\ run.first = FirstFullBaseOpen(run.now)
      /\ run.previous = CandleBefore(run.boundary)
  BY ClockInMinutes DEF StartInv
<1>2. /\ run.first >= run.now /\ run.first < run.now + Base /\ run.first % Base = 0
      /\ run.first \in Nat
  <2>1. /\ run.first \in Nat /\ IsMultiple(run.first, Base)
        /\ run.first >= run.now /\ run.first < run.now + Base
    BY <1>1, FirstMinuteFacts
  <2> QED
    BY <2>1, ClockFacts, MultipleRest
<1>3. run.boundary \in Nat /\ run.boundary <= run.now /\ IsMultiple(run.boundary, Interval)
  BY <1>1, BucketFacts
<1>4. run.previous.closeTime < run.boundary
  <2>1. run.boundary \in 0..LastMinute
    BY <1>1, <1>3, RecordsAssumption
  <2>2. run.previous.closeTime = run.boundary - 1
    BY <1>1, <1>3, <2>1, CandleBeforeFacts
  <2> QED
    BY <1>3, <2>2
<1>5. run.previous = CandleOver(run.boundary - Interval, MinutesOf(run.boundary - Interval, 0))
  BY <1>1 DEF CandleBefore
<1>6. ASSUME stage = "persisting", preview # NoPreview, book # <<>>,
             preview.boundary = run.boundary, preview.config = run.config
      PROVE  [i \in DOMAIN book |-> book[i].intent] = preview.levels
  <2>1. book = Resting(GridIntents(run.config, run.previous.close))
    BY <1>6 DEF StartInv
  <2>2. preview.levels = GridIntents(run.config, run.previous.close)
    BY <1>1, <1>6 DEF StartInv
  <2> QED
    BY <2>1, <2>2, IntentsOfResting
<1>7. ASSUME NEW i \in DOMAIN seen
      PROVE  LET bucket == BucketOpen(run.first) + (i - 1) * Interval
             IN seen[i] = CandleOver(bucket, MinutesOf(bucket, run.first))
  <2>1. IsShown(run.first, aggregator.expected, aggregator.current, seen)
    BY DEF CandlesInv
  <2>2. DOMAIN seen = 1..Len(seen)
    BY LenProperties DEF CandlesInv
  <2> QED
    BY <1>7, <2>1, <2>2 DEF IsShown
<1> QED
  BY <1>1, <1>2, <1>3, <1>4, <1>5, <1>6, <1>7 DEF StrategySeesWholeBuckets

\* A row that is written is of the fills written before it: what is still to be written
\* comes after it.
LEMMA WrittenRowsBalance ==
  ASSUME RecordsInv, NEW i \in DOMAIN ledger, ledger[i].kind \in {"position", "equity"}
  PROVE  RowBalances(i)
<1>1. /\ ledger \in Seq(Rows) /\ todo \in Seq(Rows) /\ RowsTell(Log)
  BY DEF RecordsInv, LogInv
<1>2. i \in 1..Len(ledger) /\ Len(ledger) \in Nat /\ Len(todo) \in Nat
  BY <1>1, LenProperties
<1>3. Len(Log) = Len(ledger) + Len(todo) /\ Log[i] = ledger[i]
  BY <1>1, <1>2, ConcatProperties DEF Log
<1>4. SubSeq(Log, 1, i) = SubSeq(ledger, 1, i)
  <2>1. 1 \in 1..Len(ledger)
    BY <1>2
  <2> QED
    BY <1>1, <1>2, <2>1, SubSeqOfConcat1 DEF Log
<1>5. i \in 1..Len(Log)
  BY <1>2, <1>3
<1> QED
  BY <1>1, <1>3, <1>4, <1>5 DEF RowsTell, RowBalances, Fills

\* The level of each order, and whether it is closed (trading_run_order_levels).
LEMMA LevelsTell ==
  ASSUME NEW log \in Seq(Rows), NEW resting, OrdersTell(log, resting)
  PROVE  /\ Len(Orders(log)) \in Nat
         /\ OrderLevels(log) \in [1..Len(Orders(log)) -> Range(OrderLevels(log))]
         /\ \A i \in 1..Len(Orders(log)) :
              /\ OrderLevels(log)[i].order = i
              /\ OrderLevels(log)[i].closed <=> i \notin resting
              /\ OrderLevels(log)[i].closed <=>
                   OrderLevels(log)[i].final_status \in TerminalStates
<1> DEFINE levels == OrderLevels(log)
           n == Len(Orders(log))
           states(i) == StatesOf(log, Orders(log)[i].order)
           closed(i) == \E j \in DOMAIN states(i) : states(i)[j].status \in TerminalStates
<1>1. DecisionRow \in Rows
  BY RowMakers
<1>2. n \in Nat /\ DOMAIN Orders(log) = 1..n
  <2>1. Orders(log) \in Seq({r \in Rows : r.kind = "order_state" /\ r.status = "created"})
    BY <1>1, OrdersGrow
  <2> QED
    BY <2>1, LenProperties
<1>3. /\ DOMAIN levels = 1..n /\ levels \in [1..n -> Range(levels)]
      /\ \A i \in 1..n : /\ levels[i].order = Orders(log)[i].order
                         /\ levels[i].closed = closed(i)
                         /\ levels[i].final_status = Last(states(i)).status
  <2>1. /\ DOMAIN levels = 1..n
        /\ \A i \in 1..n : /\ levels[i].order = Orders(log)[i].order
                           /\ levels[i].closed = closed(i)
                           /\ levels[i].final_status = Last(states(i)).status
    BY <1>2 DEF OrderLevels
  <2>2. levels = [i \in 1..n |-> levels[i]]
    BY <1>2 DEF OrderLevels
  <2> HIDE DEF levels, n
  <2>3. \A i \in 1..n : levels[i] \in Range(levels)
    BY <2>1 DEF Range
  <2> QED
    BY <2>1, <2>2, <2>3
<1> HIDE DEF levels, closed
<1>4. \A i \in 1..n : Orders(log)[i].order = i
  BY DEF OrdersTell
<1>5. ASSUME NEW i \in 1..n
      PROVE  /\ closed(i) <=> i \notin resting
             /\ closed(i) <=> Last(states(i)).status \in TerminalStates
  <2> DEFINE s == StatesOf(log, i)
  <2>1. /\ i \in resting => IsOpen(s)
        /\ i \notin resting => IsShut(s)
    BY DEF OrdersTell
  <2>2. s \in Seq({r \in Rows : r.kind = "order_state" /\ r.order = i})
    BY <1>1, StatesGrow
  <2>3. s = states(i)
    BY <1>4
  <2>4. closed(i) <=> \E j \in DOMAIN s : s[j].status \in TerminalStates
    BY <2>3 DEF closed
  <2> HIDE DEF s, states
  <2>5. DOMAIN s = 1..Len(s) /\ Len(s) \in Nat
    BY <2>2, LenProperties
  <2>6. s # <<>> => Len(s) \in DOMAIN s /\ Last(s) = s[Len(s)]
    BY <2>2, <2>5, EmptySeq, LenProperties DEF Last
  <2>7. ASSUME i \in resting
        PROVE  ~closed(i) /\ Last(s).status \notin TerminalStates
    BY <2>1, <2>4, <2>5, <2>6, <2>7 DEF IsOpen
  <2>8. ASSUME i \notin resting
        PROVE  closed(i) /\ Last(s).status \in TerminalStates
    BY <2>1, <2>4, <2>5, <2>6, <2>8 DEF IsShut
  <2> QED
    BY <2>3, <2>7, <2>8
<1> QED
  BY <1>2, <1>3, <1>4, <1>5 DEF levels

\* The levels that no terminal state has closed are the orders of the book, in its order.
LEMMA OpenLevelsRest ==
  ASSUME NEW log \in Seq(Rows), IsBook(book), OrdersTell(log, OrdersOf(book)),
         NEW levels, levels = OrderLevels(log),
         NEW open, open = Selected(levels, {level \in Range(levels) : ~level.closed})
  PROVE  [i \in DOMAIN open |-> open[i].order] = [i \in DOMAIN book |-> book[i].order]
<1> DEFINE n == Len(Orders(log))
           resting == OrdersOf(book)
           V == Range(levels)
           wanted == {level \in V : ~level.closed}
           s == [i \in DOMAIN open |-> open[i].order]
           t == [i \in DOMAIN book |-> book[i].order]
<1>1. /\ n \in Nat /\ levels \in [1..n -> V]
      /\ \A i \in 1..n : levels[i].order = i /\ (levels[i].closed <=> i \notin resting)
  BY LevelsTell
<1>2. resting \subseteq 1..n
  BY DEF OrdersTell
<1> HIDE DEF n, V
<1>3. levels \in Seq(V) /\ Len(levels) = n
  BY <1>1
<1>4. \A i \in 1..n : levels[i] \in wanted <=> i \in resting
  BY <1>1
<1> HIDE DEF wanted
<1>5. PICK at : open \in Seq(V) /\ ArePlaces(at, open, levels, n, wanted)
  BY <1>3, SelectedFacts DEF wanted, V
<1> DEFINE m == Len(open)
<1>6. m \in Nat /\ DOMAIN open = 1..m
  BY <1>5, LenProperties
<1>7. \A j \in 1..m : open[j].order = at[j] /\ at[j] \in resting /\ at[j] \in 1..n
  <2> SUFFICES ASSUME NEW j \in 1..m
               PROVE  open[j].order = at[j] /\ at[j] \in resting /\ at[j] \in 1..n
    OBVIOUS
  <2>1. at[j] \in 1..n /\ open[j] = levels[at[j]] /\ levels[at[j]] \in wanted
    BY <1>5 DEF ArePlaces
  <2> HIDE DEF resting
  <2> QED
    BY <1>1, <1>4, <2>1
<1> HIDE DEF m
<1>8. s \in Seq(Nat) /\ Len(s) = m /\ \A j \in 1..m : s[j] = at[j]
  <2>1. \A j \in 1..m : at[j] \in Nat
    <3> SUFFICES ASSUME NEW j \in 1..m PROVE at[j] \in Nat
      OBVIOUS
    <3>1. at[j] \in 1..n /\ n \in Nat
      BY <1>1, <1>7
    <3> HIDE DEF resting
    <3> QED
      BY <3>1
  <2>2. s \in [1..m -> Nat] /\ \A j \in 1..m : s[j] = at[j]
    BY <1>6, <1>7, <2>1
  <2> HIDE DEF s
  <2> QED
    BY <1>6, <2>2
<1>9. /\ Len(book) \in Nat /\ DOMAIN book = 1..Len(book)
      /\ \A i \in 1..Len(book) : book[i].order \in Nat
  <2>1. book \in Seq(RestingOrders)
    BY DEF IsBook
  <2>2. Len(book) \in Nat /\ \A i \in 1..Len(book) : book[i] \in RestingOrders
    BY <2>1, LenProperties, ElementOfSeq
  <2> QED
    BY <2>1, <2>2, LenProperties DEF RestingOrders
<1>10. /\ t \in Seq(Nat) /\ Len(t) = Len(book)
       /\ \A i \in 1..Len(book) : t[i] = book[i].order
  <2>1. t \in [1..Len(book) -> Nat] /\ \A i \in 1..Len(book) : t[i] = book[i].order
    BY <1>9
  <2> QED
    BY <1>9, <2>1
<1> HIDE DEF s, t
<1>11. Ascending(s)
  <2>1. \A j, k \in 1..m : j < k => at[j] < at[k]
    BY <1>5 DEF ArePlaces, m
  <2> QED
    BY <1>8, <2>1 DEF Ascending
<1>12. Ascending(t)
  BY <1>10 DEF Ascending, IsBook
<1>13. IsWithin(s, t)
  <2> SUFFICES ASSUME NEW j \in 1..m PROVE \E i \in 1..Len(book) : book[i].order = at[j]
    BY <1>8, <1>10 DEF IsWithin
  <2> QED
    BY <1>7 DEF OrdersOf
<1>14. IsWithin(t, s)
  <2> SUFFICES ASSUME NEW i \in 1..Len(book) PROVE \E j \in 1..m : at[j] = book[i].order
    BY <1>8, <1>10 DEF IsWithin
  <2>1. book[i].order \in resting
    BY DEF OrdersOf
  <2>2. book[i].order \in 1..n /\ levels[book[i].order] \in wanted
    BY <1>2, <1>4, <2>1
  <2> QED
    BY <1>5, <2>2 DEF ArePlaces, m
<1> QED
  BY <1>8, <1>10, <1>11, <1>12, <1>13, <1>14, AscendingSame DEF s, t

\* The last row of a kind, and whether there is one.
LEMMA LastOfKind ==
  ASSUME NEW log \in Seq(Rows), NEW kind, kind # "none"
  PROVE  /\ Len(OfKind(log, kind)) \in Nat
         /\ LastOf(OfKind(log, kind)) = NoRow <=> OfKind(log, kind) = <<>>
         /\ OfKind(log, kind) = <<>> <=> Len(OfKind(log, kind)) = 0
         /\ OfKind(log, kind) # <<>> =>
              /\ LastOf(OfKind(log, kind)) = Last(OfKind(log, kind))
              /\ Last(OfKind(log, kind)).kind = kind /\ Last(OfKind(log, kind)) \in Rows
         /\ DOMAIN OfKind(log, kind) = 1..Len(OfKind(log, kind))
<1> DEFINE V == {r \in Rows : r.kind = kind}
           rows == OfKind(log, kind)
<1>1. rows \in Seq(V)
  <2>1. DecisionRow \in Rows
    BY RowMakers
  <2> QED
    BY <2>1, OfKindGrows
<1> HIDE DEF rows
<1>2. /\ Len(rows) \in Nat /\ DOMAIN rows = 1..Len(rows) /\ (rows = <<>> <=> Len(rows) = 0)
      /\ rows # <<>> => Last(rows) \in V
  BY <1>1, LenProperties, EmptySeq, ElementOfSeq DEF Last
<1>3. NoRow.kind = "none"
  BY DEF NoRow
<1> QED
  BY <1>2, <1>3 DEF LastOf, rows

\* The account of a run with no runtime is the one that the actor holds
\* (PaperManager::persisted_snapshot).
LEMMA StoredPortfolio ==
  ASSUME NEW log \in Seq(Rows), NEW p \in Account, NEW candles \in Nat,
         LatestTell(log, p, candles)
  PROVE  \A field \in DOMAIN PortfolioView(p) :
           PersistedSnapshot(log, InitialCash).portfolio[field] = PortfolioView(p)[field]
<1> DEFINE view == PortfolioView(p)
           fills == FillAudit(log)
           positions == OfKind(log, "position")
           equity == OfKind(log, "equity")
           final == LastOf(equity)
           position == LastOf(positions)
           money == IF final = NoRow
                    THEN [cash |-> InitialCash, quantity |-> 0, cost |-> 0, realized |-> 0,
                          unrealized |-> 0, fees |-> 0, equity |-> InitialCash]
                    ELSE final.view
           held == IF position = NoRow THEN [quantity |-> 0, cost |-> 0] ELSE position.view
           stored == [money EXCEPT !.quantity = held.quantity, !.cost = held.cost]
<1>1. PersistedSnapshot(log, InitialCash).portfolio = stored
  BY DEF PersistedSnapshot, EquityStats, LatestPosition
<1>2. view \in Views
  BY ViewIsView
<1>3. DOMAIN view = {"cash", "quantity", "cost", "realized", "unrealized", "fees", "equity"}
  BY DEF PortfolioView
<1>4. /\ Len(fills) \in Nat /\ Len(positions) \in Nat /\ Len(equity) \in Nat
      /\ (final = NoRow <=> equity = <<>>) /\ (equity = <<>> <=> Len(equity) = 0)
      /\ (equity # <<>> => final = Last(equity))
      /\ (position = NoRow <=> positions = <<>>) /\ (positions = <<>> <=> Len(positions) = 0)
      /\ (positions # <<>> => position = Last(positions))
  BY LastOfKind DEF FillAudit
<1>5. /\ Len(positions) = Len(fills) /\ Len(equity) = Len(fills) + candles
      /\ equity = <<>> => p = NewPortfolio(InitialCash)
      /\ equity # <<>> => Last(equity).view = view
      /\ positions = <<>> => p.quantity = 0 /\ p.cost = 0
      /\ positions # <<>> => /\ Last(positions).view.quantity = p.quantity
                             /\ Last(positions).view.cost = p.cost
  BY DEF LatestTell
<1>6. view.quantity = p.quantity /\ view.cost = p.cost
  BY DEF PortfolioView
<1>7. held.quantity = view.quantity /\ held.cost = view.cost
  BY <1>4, <1>5, <1>6
<1>8. money = view
  <2>1. CASE equity = <<>>
    <3>1. final = NoRow /\ p = NewPortfolio(InitialCash) /\ InitialCash \in Int
      BY <1>4, <1>5, <2>1, RecordsAssumption
    <3>2. /\ view.cash = InitialCash /\ view.realized = 0 /\ view.unrealized = 0
          /\ view.fees = 0 /\ view.equity = InitialCash /\ view.quantity = 0 /\ view.cost = 0
      BY <3>1 DEF PortfolioView, NewPortfolio, Sign
    <3> HIDE DEF view
    <3> DEFINE new == [cash |-> InitialCash, quantity |-> 0, cost |-> 0, realized |-> 0,
                       unrealized |-> 0, fees |-> 0, equity |-> InitialCash]
    <3>3. view = [cash |-> view.cash, quantity |-> view.quantity, cost |-> view.cost,
                  realized |-> view.realized, unrealized |-> view.unrealized,
                  fees |-> view.fees, equity |-> view.equity]
      BY <1>2 DEF Views
    <3>4. view = new
      BY <3>2, <3>3
    <3> QED
      BY <3>1, <3>4
  <2>2. CASE equity # <<>>
    BY <1>4, <1>5, <2>2
  <2> QED
    BY <2>1, <2>2
<1> HIDE DEF money, held, view
<1>9. \A field \in DOMAIN view : stored[field] = view[field]
  BY <1>2, <1>3, <1>7, <1>8
<1> QED
  BY <1>1, <1>9 DEF view

\* What storage tells of the run between two events is what its actor holds
\* (PaperManager::persisted_snapshot, trading_run_counts, console_bot_summary).
LEMMA StoredTells ==
  ASSUME RecordsInv, stage \in {"running", "ended"}
  PROVE  StoredIsLive
<1> DEFINE view == PortfolioView(portfolio)
           fills == FillAudit(ledger)
           positions == OfKind(ledger, "position")
           equity == OfKind(ledger, "equity")
           levels == OrderLevels(ledger)
           open == Selected(levels, {level \in Range(levels) : ~level.closed})
           counts == TradingRunCounts(ledger)
           console == ConsoleBotSummary(ledger, "none")
<1>1. /\ ledger \in Seq(Rows) /\ IsBook(book) /\ portfolio \in Account
      /\ LatestTell(ledger, portfolio, Len(seen)) /\ OrdersTell(ledger, OrdersOf(book))
  <2>1. Log = ledger
    BY LogAgrees DEF RecordsInv
  <2> QED
    BY <2>1 DEF RecordsInv, LogInv, AccountTells
<1>2. Len(seen) \in Nat
  BY LenProperties DEF RecordsInv, CandlesInv
<1>3. \A field \in DOMAIN view :
        PersistedSnapshot(ledger, InitialCash).portfolio[field] = view[field]
  BY <1>1, <1>2, StoredPortfolio
<1>4. [i \in DOMAIN open |-> open[i].order] = [i \in DOMAIN book |-> book[i].order]
  BY <1>1, OpenLevelsRest
<1>5. \A i \in DOMAIN levels : levels[i].closed <=> levels[i].final_status \in TerminalStates
  <2>1. /\ levels \in [1..Len(Orders(ledger)) -> Range(levels)]
        /\ \A i \in 1..Len(Orders(ledger)) :
             levels[i].closed <=> levels[i].final_status \in TerminalStates
    BY <1>1, LevelsTell
  <2> QED
    BY <2>1
<1>6. /\ Len(fills) \in Nat /\ Len(positions) \in Nat /\ Len(equity) \in Nat
      /\ DOMAIN positions = 1..Len(positions) /\ DOMAIN equity = 1..Len(equity)
      /\ (LastOf(equity) = NoRow <=> equity = <<>>) /\ (equity = <<>> <=> Len(equity) = 0)
      /\ (equity # <<>> => LastOf(equity) = Last(equity))
      /\ (LastOf(positions) = NoRow <=> positions = <<>>)
      /\ (positions = <<>> <=> Len(positions) = 0)
      /\ (positions # <<>> => LastOf(positions) = Last(positions))
  BY <1>1, LastOfKind DEF FillAudit
<1>7. /\ Len(positions) = Len(fills) /\ Len(equity) = Len(fills) + Len(seen)
      /\ equity # <<>> => Last(equity).view = view
      /\ positions # <<>> => Last(positions).view.quantity = portfolio.quantity
  BY <1>1 DEF LatestTell
<1>8. counts.fills = Len(fills)
  BY DEF TradingRunCounts, TradingRunHistory, FillAudit
<1>9. /\ Len(PositionPoints(ledger)) = Len(positions)
      /\ Len(EquityPoints(ledger)) = Len(equity)
  BY <1>6 DEF PositionPoints, EquityPoints
<1>10. ASSUME Len(fills) > 0
       PROVE  /\ console.position_quantity = view.quantity
              /\ console.realized_pnl = view.realized
              /\ console.fees_paid = view.fees
              /\ console.latest_equity = view.equity
  <2>1. positions # <<>> /\ equity # <<>>
    BY <1>2, <1>6, <1>7, <1>10
  <2>2. LastOf(positions) # NoRow /\ LastOf(equity) # NoRow
    BY <1>6, <2>1
  <2>3. /\ console.position_quantity = LastOf(positions).view.quantity
        /\ console.realized_pnl = LastOf(equity).view.realized
        /\ console.fees_paid = LastOf(equity).view.fees
        /\ console.latest_equity = LastOf(equity).view.equity
    BY <2>2 DEF ConsoleBotSummary, BotRunSummary, LatestPosition
  <2>4. view.quantity = portfolio.quantity
    BY DEF PortfolioView
  <2> HIDE DEF view, console, positions, equity
  <2> QED
    BY <1>6, <1>7, <2>1, <2>3, <2>4
<1> HIDE DEF view, fills, positions, equity, counts, console, open, levels
<1>11. ChartSnapshot(ledger, stage = "running", {}).order_levels = levels
  BY DEF ChartSnapshot, levels
<1> QED
  BY <1>3, <1>4, <1>5, <1>7, <1>8, <1>9, <1>10, <1>11
     DEF StoredIsLive, view, counts, console, open

\* The books balance: every account written is that of the fills written before it, and
\* between events storage alone tells what the actor holds.
THEOREM InvBalances == RecordsInv => BooksBalance
BY WrittenRowsBalance, StoredTells DEF BooksBalance
=============================================================================
