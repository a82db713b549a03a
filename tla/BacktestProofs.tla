--------------------------- MODULE BacktestProofs ----------------------------
(***************************************************************************)
(* What a historical replay keeps of its run, for every dataset, strategy, *)
(* number and size of orders, latency and batch size (Backtest;            *)
(* src/backtest.rs, src/trading/simulation.rs, src/storage/runs/write.rs). *)
(***************************************************************************)
EXTENDS
  Backtest, FiniteSetTheorems, SequenceTheorems, NaturalsInduction, WellFoundedInduction, TLAPS

HasRow(kind, o) == \E i \in DOMAIN log : IsRow(log[i], kind, o)
ToWrite(kind, o) == \E i \in DOMAIN todo : IsRow(todo[i], kind, o)

Over == pc \in {"failing", "ended"}
Done == IF k = 0 THEN 0 ELSE k - 1
Saved == EquityBefore(Len(log) + 1)

\* The kinds of rows that are written in a phase.
KindsIn(phase) ==
  CASE phase = "fills" -> {"fill", "state", "position"}
    [] phase = "output" -> {"decision", "intent", "order", "accepted"}
    [] phase = "expire" -> {"expired"}
    [] OTHER -> {}

\* Of an order, a row of the first kind is written before one of the second.
Earlier ==
  {<<"intent", "order">>, <<"intent", "accepted">>, <<"order", "accepted">>,
   <<"fill", "state">>, <<"fill", "position">>, <<"state", "position">>}

\* Where the replay is decides what there is to write, what is buffered, which candle
\* it is at and what its run row says.
FlowInv ==
  /\ Len(candles) <= NSlots
  /\ ~Over => Len(buffer) < Batch
  /\ pc \in {"idle", "create", "begin", "start"} =>
       /\ log = <<>> /\ k = 0 /\ todo = <<>> /\ buffer = <<>> /\ book = {}
       /\ taken = Nothing /\ portfolio = Nothing
  /\ pc \notin {"idle", "failing", "ended"} => candles # <<>>
  /\ pc \in {"candle", "fills", "strategy", "equity", "expire"} => k >= 1
  /\ pc \in {"fills", "strategy", "output", "equity"} => k <= Len(candles)
  /\ pc = "expire" => k = Len(candles) + 1
  /\ pc \in {"fills", "output", "expire"} => buffer = <<>>
  /\ pc \in {"fills", "output"} => todo # <<>>
  /\ pc \in {"candle", "strategy", "equity"} => todo = <<>>
  /\ ~Over => \A i \in DOMAIN todo : todo[i].candle = k /\ todo[i].kind \in KindsIn(pc)
  /\ pc \in {"idle", "create"} => status = "none"
  /\ pc = "begin" => status = "created"
  /\ pc \notin {"idle", "create", "begin", "ended"} => status = "running"

\* Saved and buffered equity rows are those of the candles that are done, in order.
EquityInv ==
  /\ \A j \in DOMAIN buffer : buffer[j].kind = "equity" /\ buffer[j].candle = Saved + j
  /\ ~Over => Saved + Len(buffer) = Done
  /\ error = "strategy" => Over /\ Saved = Done

\* Rows are there once each, and those of an order in their order, to the last.
Holds(rows, kind, o) == \E i \in DOMAIN rows : IsRow(rows[i], kind, o)
InOrder(rows) ==
  /\ \A i, j \in DOMAIN rows :
       rows[i].kind = rows[j].kind /\ rows[i].order = rows[j].order => i = j
  /\ \A i, j \in DOMAIN rows :
       <<rows[i].kind, rows[j].kind>> \in Earlier /\ rows[i].order = rows[j].order => i < j
  /\ \A pair \in Earlier : \A o \in Orders : Holds(rows, pair[1], o) => Holds(rows, pair[2], o)
  /\ \A i \in DOMAIN rows : rows[i].kind # "decision" => rows[i].order \in Orders

\* The rows of the current step are in order.
TodoInv == ~Over => InOrder(todo)

\* Orders are placed in their order, and each goes from intent to accepted.
PlacedInv ==
  ~Over =>
    /\ \E m \in 0..NOrders : {o \in Orders : HasRow("intent", o) \/ ToWrite("intent", o)} = 1..m
    /\ \A o \in Orders :
         /\ \A kind \in {"intent", "order", "accepted"} : ToWrite(kind, o) => ~HasRow(kind, o)
         /\ HasRow("accepted", o) => HasRow("order", o)
         /\ HasRow("order", o) => HasRow("intent", o)
         /\ HasRow("intent", o) => HasRow("order", o) \/ ToWrite("order", o)
         /\ HasRow("order", o) => HasRow("accepted", o) \/ ToWrite("accepted", o)
         /\ ToWrite("order", o) => HasRow("intent", o) \/ ToWrite("intent", o)
         /\ ToWrite("accepted", o) => HasRow("order", o) \/ ToWrite("order", o)
         /\ taken[o] > 0 => HasRow("accepted", o)
         /\ pc # "expire" => ((o \in book) <=> (HasRow("accepted", o) /\ taken[o] < Qty))

\* What the book took of an order is on the record, or to be written.
FilledInv ==
  ~Over =>
    \A o \in Orders :
      /\ portfolio[o] = Recorded(o)
      /\ ~ToWrite("fill", o) => Recorded(o) = taken[o]
      /\ \A i \in DOMAIN todo :
           /\ IsRow(todo[i], "fill", o) => todo[i].n >= 1 /\ Recorded(o) + todo[i].n = taken[o]
           /\ IsRow(todo[i], "state", o) => todo[i].n = taken[o]
      /\ \A kind \in {"fill", "state", "position"} : ToWrite(kind, o) => taken[o] > 0
      /\ \A kind \in {"state", "position"} :
           taken[o] > 0 /\ ~ToWrite(kind, o) => LastSays(kind, o, taken[o])
      /\ \A i \in DOMAIN log : IsRow(log[i], "state", o) /\ log[i].n = Qty =>
           taken[o] = Qty /\ ~ToWrite("state", o)

\* At the end every order that is not filled is expired, or is to be.
ExpiredInv ==
  ~Over =>
    \A o \in Orders :
      /\ HasRow("expired", o) => pc = "expire" /\ ~ToWrite("expired", o)
      /\ \A i \in DOMAIN todo : IsRow(todo[i], "expired", o) =>
           todo[i].n = taken[o] /\ taken[o] < Qty /\ HasRow("accepted", o)
      /\ pc = "expire" /\ HasRow("accepted", o) =>
           \/ taken[o] = Qty \/ ToWrite("expired", o)
           \/ \E i \in DOMAIN log : IsRow(log[i], "expired", o) /\ log[i].n = taken[o]

\* An order rests since it was accepted, and is filled from an eligible candle on.
LookInv ==
  ~Over =>
    /\ \A o \in book : \E j \in DOMAIN log :
         IsRow(log[j], "accepted", o) /\ log[j].time + Latency = eligible[o]
    /\ pc = "fills" => \A i \in DOMAIN todo : todo[i].kind = "fill" =>
         \E j \in DOMAIN log :
           IsRow(log[j], "accepted", todo[i].order) /\ log[j].time + Latency <= candles[k].open

IInv ==
  /\ TypeOK /\ FlowInv /\ EquityInv /\ TodoInv /\ PlacedInv /\ FilledInv /\ ExpiredInv /\ LookInv
  /\ EquityInPlace /\ NoLookAhead /\ CompletedIsWhole

-----------------------------------------------------------------------------
(* Induction, and what it gives of the model's operators *)

\* A set of naturals that is not empty has a least member.
LEMMA LeastNatural ==
  ASSUME NEW T \in SUBSET Nat, T # {}
  PROVE  \E n \in T : \A m \in T : n <= m
<1> DEFINE Less == {pair \in Nat \X Nat : pair[1] < pair[2]}
<1>1. IsWellFoundedOn(Less, Nat)
  BY NatLessThanWellFounded DEF OpToRel
<1>2. \A x, y \in Nat : <<y, x>> \in Less <=> y < x
  OBVIOUS
<1> HIDE DEF Less
<1>3. PICK n \in T : \A m \in T : ~(<<m, n>> \in Less)
  BY <1>1, WFMin
<1>4. ASSUME NEW m \in T
      PROVE  n <= m
  <2>1. ~(m < n)
    BY <1>2, <1>3
  <2> QED
    BY <2>1
<1> QED
  BY <1>4

\* Induction: a set that holds 0 and every successor of its members holds every natural.
LEMMA EveryNatural ==
  ASSUME NEW T, 0 \in T, \A n \in Nat : n \in T => n + 1 \in T
  PROVE  \A n \in Nat : n \in T
<1> SUFFICES ASSUME Nat \ T # {} PROVE FALSE
  OBVIOUS
<1>1. PICK n \in Nat \ T : \A m \in Nat \ T : n <= m
  BY LeastNatural
<1>2. n # 0 /\ n - 1 \in Nat /\ n - 1 \in T /\ n = (n - 1) + 1
  BY <1>1
<1> QED
  BY <1>1, <1>2

\* A bounded set of naturals that is not empty has a greatest member.
LEMMA GreatestNatural ==
  ASSUME NEW T \in SUBSET Nat, T # {}, NEW bound \in Nat, \A t \in T : t <= bound
  PROVE  Max(T) \in T /\ \A t \in T : Max(T) >= t
<1> DEFINE Gaps == {g \in Nat : bound - g \in T}
<1>1. PICK t \in T : TRUE
  OBVIOUS
<1>2. bound - t \in Nat /\ bound - (bound - t) = t
  BY <1>1
<1>3. Gaps # {}
  BY <1>2
<1>4. PICK g \in Gaps : \A h \in Gaps : g <= h
  BY <1>3, LeastNatural
<1>5. ASSUME NEW u \in T
      PROVE  bound - g >= u
  <2>1. bound - u \in Nat /\ bound - (bound - u) = u
    OBVIOUS
  <2>2. g <= bound - u
    BY <1>4, <2>1
  <2> QED
    BY <1>4, <2>2
<1>6. bound - g \in T
  BY <1>4
<1> QED
  BY <1>5, <1>6 DEF Max

\* The least member is what Min returns.
LEMMA MinIsLeast ==
  ASSUME NEW T \in SUBSET Nat, T # {}
  PROVE  Min(T) \in T /\ \A t \in T : Min(T) <= t
BY LeastNatural DEF Min

\* The members of a bounded set of naturals can be enumerated in ascending order.
LEMMA AscendingFacts ==
  ASSUME NEW S \in SUBSET Nat, NEW bound \in Nat, \A x \in S : x < bound
  PROVE  /\ IsFiniteSet(S) /\ Cardinality(S) \in Nat
         /\ Ascending(S) \in [1..Cardinality(S) -> S]
         /\ \A x \in S : \E i \in 1..Cardinality(S) : Ascending(S)[i] = x
         /\ \A i, j \in 1..Cardinality(S) : i < j => Ascending(S)[i] < Ascending(S)[j]
<1> DEFINE IsIt(s, V) ==
             /\ s \in [1..Cardinality(V) -> V]
             /\ \A x \in V : \E i \in 1..Cardinality(V) : s[i] = x
             /\ \A i, j \in 1..Cardinality(V) : i < j => s[i] < s[j]
           Below(n) == {V \in SUBSET Nat : \A x \in V : x < n}
           T == {n \in Nat : \A V \in Below(n) : \E s : IsIt(s, V)}
<1>1. ASSUME NEW n \in Nat, NEW V \in Below(n)
      PROVE  IsFiniteSet(V) /\ Cardinality(V) \in Nat
  <2>1. V \in SUBSET Nat /\ \A x \in V : x <= n
    OBVIOUS
  <2> QED
    BY <2>1, FS_BoundedSetOfNaturals, FS_CardinalityType
<1>2. 0 \in T
  <2>1. ASSUME NEW V \in Below(0)
        PROVE  \E s : IsIt(s, V)
    <3>0. \A x \in V : x \in Nat /\ x < 0
      OBVIOUS
    <3>1. V = {}
      BY <3>0
    <3>e. Cardinality(V) = 0
      BY <3>1, FS_EmptySet
    <3>2. IsIt([i \in 1..0 |-> 0], V)
      BY <3>1, <3>e
    <3> QED
      BY <3>2
  <2> QED
    BY <2>1
<1>3. ASSUME NEW n \in Nat, n \in T
      PROVE  n + 1 \in T
  <2>1. ASSUME NEW V \in Below(n + 1)
        PROVE  \E s : IsIt(s, V)
    <3> DEFINE W == V \ {n}
    <3>1. W \in Below(n)
      <4>1. \A x \in W : x \in Nat /\ x < n + 1 /\ x # n
        OBVIOUS
      <4>2. \A x \in W : x < n
        BY <4>1
      <4> QED
        BY <4>1, <4>2
    <3>2. PICK s : IsIt(s, W)
      BY <1>3, <3>1
    <3>3. IsFiniteSet(W) /\ Cardinality(W) \in Nat
      BY <1>1, <3>1
    <3>4. CASE n \notin V
      <4>1. W = V
        BY <3>4
      <4> QED
        BY <3>2, <4>1
    <3>5. CASE n \in V
      <4> DEFINE c == Cardinality(W)
                 t == [i \in 1..(c + 1) |-> IF i = c + 1 THEN n ELSE s[i]]
      <4>1. V = W \cup {n} /\ n \notin W
        BY <3>5
      <4>2. Cardinality(V) = c + 1
        BY <3>3, <4>1, FS_AddElement
      <4>3. c \in Nat /\ s \in [1..c -> W] /\ \A x \in W : x < n /\ x \in Nat
        BY <3>1, <3>2, <3>3
      <4>4. \A i \in 1..(c + 1) : i = c + 1 \/ i \in 1..c
        BY <4>3
      <4>5. \A x \in W : \E i \in 1..c : s[i] = x
        BY <3>2
      <4>6. \A i, j \in 1..c : i < j => s[i] < s[j]
        BY <3>2
      <4>7. \A i \in 1..c : i \in 1..(c + 1) /\ i < c + 1 /\ i # c + 1
        BY <4>3
      <4>8. c + 1 \in 1..(c + 1)
        BY <4>3
      <4> HIDE DEF W, c
      <4>9. t \in [1..(c + 1) -> V]
        BY <4>1, <4>3, <4>4
      <4>10. \A x \in V : \E i \in 1..(c + 1) : t[i] = x
        BY <4>1, <4>5, <4>7, <4>8
      <4>11. \A i, j \in 1..(c + 1) : i < j => t[i] < t[j]
        <5> SUFFICES ASSUME NEW i \in 1..(c + 1), NEW j \in 1..(c + 1), i < j PROVE t[i] < t[j]
          OBVIOUS
        <5>1. i \in 1..c
          BY <4>3
        <5>2. CASE j = c + 1
          BY <4>3, <4>7, <5>1, <5>2
        <5>3. CASE j \in 1..c
          BY <4>6, <4>7, <5>1, <5>3
        <5> QED
          BY <4>4, <5>2, <5>3
      <4> HIDE DEF t
      <4>12. IsIt(t, V)
        BY <4>2, <4>9, <4>10, <4>11
      <4> QED
        BY <4>12
    <3> QED
      BY <3>4, <3>5
  <2> HIDE DEF IsIt
  <2> QED
    BY <2>1
<1>4. \A n \in Nat : n \in T
  <2> HIDE DEF T
  <2> QED
    BY <1>2, <1>3, EveryNatural
<1>5. S \in Below(bound)
  OBVIOUS
<1>6. \E s : IsIt(s, S)
  BY <1>4, <1>5
<1>7. IsIt(Ascending(S), S)
  BY <1>6 DEF Ascending
<1> QED
  BY <1>1, <1>5, <1>7

-----------------------------------------------------------------------------
(* The fills of an order *)

\* The running sums that FillsOf is defined by.
Contribution(row, o) == IF IsRow(row, "fill", o) THEN row.n ELSE 0
IsSum(f, o, rows) ==
  f = [i \in 0..Len(rows) |-> IF i = 0 THEN 0 ELSE f[i - 1] + Contribution(rows[i], o)]

\* There are such sums, FillsOf is the last of them, and all are naturals.
LEMMA SumFacts ==
  ASSUME NEW rows \in Seq(Rows), NEW o
  PROVE  \E f : /\ IsSum(f, o, rows) /\ FillsOf(o, rows) = f[Len(rows)]
                /\ \A i \in 0..Len(rows) : f[i] \in Nat
<1> DEFINE Sums(f, n) == f = [i \in 0..n |-> IF i = 0 THEN 0 ELSE f[i - 1] + Contribution(rows[i], o)]
           T == {n \in Nat : n <= Len(rows) => \E f : Sums(f, n)}
<1>a. \A i \in 1..Len(rows) : rows[i] \in Rows
  BY ElementOfSeq
<1>b. \A row \in Rows : row.n \in Nat
  BY BacktestAssumption DEF Rows
<1>0. Len(rows) \in Nat /\ \A i \in 1..Len(rows) : Contribution(rows[i], o) \in Nat
  BY <1>a, <1>b, LenProperties DEF Contribution
<1>1. 0 \in T
  <2>1. Sums([i \in 0..0 |-> 0], 0)
    OBVIOUS
  <2> QED
    BY <2>1
<1>2. ASSUME NEW n \in Nat, n \in T
      PROVE  n + 1 \in T
  <2> SUFFICES ASSUME n + 1 <= Len(rows) PROVE \E f : Sums(f, n + 1)
    OBVIOUS
  <2>1. n <= Len(rows)
    BY <1>0
  <2>2. PICK f : Sums(f, n)
    BY <1>2, <2>1
  <2> DEFINE g == [i \in 0..(n + 1) |->
                     IF i = n + 1 THEN f[n] + Contribution(rows[n + 1], o) ELSE f[i]]
  <2>3. \A i \in 0..(n + 1) : g[i] = IF i = 0 THEN 0 ELSE g[i - 1] + Contribution(rows[i], o)
    <3> SUFFICES ASSUME NEW i \in 0..(n + 1)
                 PROVE  g[i] = IF i = 0 THEN 0 ELSE g[i - 1] + Contribution(rows[i], o)
      OBVIOUS
    <3>1. CASE i = n + 1
      BY <3>1
    <3>2. CASE i = 0
      BY <2>2, <3>2
    <3>3. CASE i \in 1..n
      <4>1. i # 0 /\ i # n + 1 /\ i - 1 # n + 1 /\ i - 1 \in 0..(n + 1) /\ i \in 0..n
        BY <3>3
      <4>2. g[i] = f[i] /\ g[i - 1] = f[i - 1]
        BY <4>1
      <4> QED
        BY <2>2, <4>1, <4>2
    <3> QED
      BY <3>1, <3>2, <3>3
  <2>4. Sums(g, n + 1)
    BY <2>3
  <2> QED
    BY <2>4
<1>3. \A n \in Nat : n \in T
  <2> HIDE DEF T
  <2> QED
    BY <1>1, <1>2, EveryNatural
<1>4. \E f : IsSum(f, o, rows)
  BY <1>0, <1>3 DEF IsSum
<1> DEFINE s == CHOOSE f : IsSum(f, o, rows)
<1>5. IsSum(s, o, rows)
  BY <1>4
<1>6. FillsOf(o, rows) = s[Len(rows)]
  BY DEF FillsOf, IsSum, Contribution
<1> HIDE DEF s
<1>7. \A i \in 0..Len(rows) : s[i] \in Nat
  <2> DEFINE U == {n \in Nat : n <= Len(rows) => s[n] \in Nat}
  <2>1. 0 \in U
    BY <1>0, <1>5 DEF IsSum
  <2>2. ASSUME NEW n \in Nat, n \in U
        PROVE  n + 1 \in U
    <3> SUFFICES ASSUME n + 1 <= Len(rows) PROVE s[n + 1] \in Nat
      OBVIOUS
    <3>1. s[n] \in Nat /\ n + 1 \in 1..Len(rows) /\ n + 1 \in 0..Len(rows) /\ (n + 1) - 1 = n
      BY <1>0, <2>2
    <3>2. s[n + 1] = s[n] + Contribution(rows[n + 1], o)
      BY <1>5, <3>1 DEF IsSum
    <3> QED
      BY <1>0, <3>1, <3>2
  <2>3. \A n \in Nat : n \in U
    <3> HIDE DEF U
    <3> QED
      BY <2>1, <2>2, EveryNatural
  <2> QED
    BY <1>0, <2>3
<1> QED
  BY <1>5, <1>6, <1>7

\* A longer record adds the fills of its new rows: none, or one.
LEMMA FillsExtend ==
  ASSUME NEW rows \in Seq(Rows), NEW more \in Seq(Rows), NEW o,
         Len(rows) <= Len(more), \A i \in 1..Len(rows) : more[i] = rows[i]
  PROVE  /\ (\A i \in 1..Len(more) : i > Len(rows) => ~IsRow(more[i], "fill", o))
              => FillsOf(o, more) = FillsOf(o, rows)
         /\ Len(more) = Len(rows) + 1 =>
              FillsOf(o, more) = FillsOf(o, rows) + Contribution(more[Len(more)], o)
<1>1. PICK f : /\ IsSum(f, o, rows) /\ FillsOf(o, rows) = f[Len(rows)]
               /\ \A i \in 0..Len(rows) : f[i] \in Nat
  BY SumFacts
<1>2. PICK g : /\ IsSum(g, o, more) /\ FillsOf(o, more) = g[Len(more)]
               /\ \A i \in 0..Len(more) : g[i] \in Nat
  BY SumFacts
<1>3. Len(rows) \in Nat /\ Len(more) \in Nat
  BY LenProperties
<1>f. f[0] = 0 /\ \A i \in 1..Len(rows) : f[i] = f[i - 1] + Contribution(rows[i], o)
  BY <1>1, <1>3 DEF IsSum
<1>g. g[0] = 0 /\ \A i \in 1..Len(more) : g[i] = g[i - 1] + Contribution(more[i], o)
  <2>1. 0 \in 0..Len(more) /\ \A i \in 1..Len(more) : i \in 0..Len(more) /\ i # 0
    BY <1>3
  <2>2. g = [i \in 0..Len(more) |-> IF i = 0 THEN 0 ELSE g[i - 1] + Contribution(more[i], o)]
    BY <1>2 DEF IsSum
  <2> QED
    BY <2>1, <2>2, Zenon
<1>4. g[Len(rows)] = f[Len(rows)]
  <2> DEFINE U == {n \in Nat : n <= Len(rows) => g[n] = f[n]}
  <2>1. 0 \in U
    BY <1>f, <1>g
  <2>2. ASSUME NEW n \in Nat, n \in U
        PROVE  n + 1 \in U
    <3> SUFFICES ASSUME n + 1 <= Len(rows) PROVE g[n + 1] = f[n + 1]
      OBVIOUS
    <3>1. /\ g[n] = f[n] /\ n + 1 \in 1..Len(rows) /\ n + 1 \in 1..Len(more)
          /\ (n + 1) - 1 = n /\ more[n + 1] = rows[n + 1]
      BY <1>3, <2>2
    <3> QED
      BY <3>1, <1>f, <1>g
  <2>3. \A n \in Nat : n \in U
    <3> HIDE DEF U
    <3> QED
      BY <2>1, <2>2, EveryNatural
  <2> QED
    BY <1>3, <2>3
<1>5. ASSUME \A i \in 1..Len(more) : i > Len(rows) => ~IsRow(more[i], "fill", o)
      PROVE  g[Len(more)] = g[Len(rows)]
  <2> DEFINE U == {n \in Nat : Len(rows) + n <= Len(more) => g[Len(rows) + n] = g[Len(rows)]}
  <2>1. 0 \in U
    BY <1>3
  <2>2. ASSUME NEW n \in Nat, n \in U
        PROVE  n + 1 \in U
    <3> SUFFICES ASSUME Len(rows) + (n + 1) <= Len(more)
                 PROVE  g[Len(rows) + (n + 1)] = g[Len(rows)]
      OBVIOUS
    <3> DEFINE j == Len(rows) + (n + 1)
    <3>1. /\ g[Len(rows) + n] = g[Len(rows)] /\ j \in 1..Len(more) /\ j > Len(rows)
          /\ j - 1 = Len(rows) + n
      BY <1>3, <2>2
    <3>2. Contribution(more[j], o) = 0
      BY <1>5, <3>1 DEF Contribution
    <3>3. g[Len(rows)] \in Nat
      BY <1>2, <1>3
    <3> HIDE DEF j
    <3>4. g[j] = g[Len(rows)]
      BY <3>1, <3>2, <3>3, <1>g
    <3> QED
      BY <3>4 DEF j
  <2>3. \A n \in Nat : n \in U
    <3> HIDE DEF U
    <3> QED
      BY <2>1, <2>2, EveryNatural
  <2>4. Len(more) - Len(rows) \in Nat /\ Len(rows) + (Len(more) - Len(rows)) = Len(more)
    BY <1>3
  <2> QED
    BY <1>3, <2>3, <2>4
<1>6. ASSUME Len(more) = Len(rows) + 1
      PROVE  g[Len(more)] = g[Len(rows)] + Contribution(more[Len(more)], o)
  <2>1. Len(more) \in 1..Len(more) /\ Len(more) - 1 = Len(rows)
    BY <1>3, <1>6
  <2> QED
    BY <2>1, <1>g
<1> QED
  BY <1>1, <1>2, <1>4, <1>5, <1>6

-----------------------------------------------------------------------------
(* What a step adds to the record *)

\* The equity rows among the first n.
EquityIn(rows, n) == Cardinality({j \in 1..n : rows[j].kind = "equity"})

\* Equity rows are counted as they come.
LEMMA EquityCount ==
  ASSUME NEW rows, NEW m \in Nat, NEW n \in Nat, m <= n,
         \A i \in (m + 1)..n : rows[i].kind = "equity"
  PROVE  /\ EquityIn(rows, m) \in Nat
         /\ EquityIn(rows, n) = EquityIn(rows, m) + (n - m)
<1> DEFINE Early == {j \in 1..m : rows[j].kind = "equity"}
           All == {j \in 1..n : rows[j].kind = "equity"}
           New == (m + 1)..n
<1>1. IsFiniteSet(Early) /\ Cardinality(Early) \in Nat
  <2>1. IsFiniteSet(1..m)
    BY FS_Interval
  <2> QED
    BY <2>1, FS_Subset, FS_CardinalityType
<1>2. \A j : (j \in 1..n) <=> (j \in 1..m \/ j \in New)
  OBVIOUS
<1>3. All = Early \cup New
  BY <1>2
<1>4. Early \cap New = {}
  OBVIOUS
<1>5. IsFiniteSet(New) /\ Cardinality(New) = n - m
  <2>1. IsFiniteSet(New) /\ Cardinality(New) = IF m + 1 > n THEN 0 ELSE n - (m + 1) + 1
    BY FS_Interval
  <2> QED
    BY <2>1
<1> HIDE DEF Early, All, New
<1>6. Cardinality(Early \cap New) = 0
  BY <1>4, FS_EmptySet
<1>7. Cardinality(All) = Cardinality(Early) + Cardinality(New) - Cardinality(Early \cap New)
  BY <1>1, <1>3, <1>5, FS_Union
<1>8. Cardinality(Early) \in Nat /\ Cardinality(All) = Cardinality(Early) + (n - m)
  BY <1>1, <1>5, <1>6, <1>7
<1> QED
  BY <1>8 DEF Early, All, EquityIn

\* Rows that are the same up to n count the same.
LEMMA EquityAgrees ==
  ASSUME NEW rows, NEW more, NEW n \in Nat, \A i \in 1..n : more[i] = rows[i]
  PROVE  EquityIn(more, n) = EquityIn(rows, n)
<1>1. {j \in 1..n : more[j].kind = "equity"} = {j \in 1..n : rows[j].kind = "equity"}
  OBVIOUS
<1> QED
  BY <1>1 DEF EquityIn

\* What EquityBefore and Saved count.
LEMMA EquityCounts ==
  /\ \A i : EquityBefore(i) = EquityIn(log, i - 1) /\ EquityBefore(i)' = EquityIn(log', i - 1)
  /\ Len(log) \in Nat => Saved = EquityIn(log, Len(log))
  /\ Len(log') \in Nat => Saved' = EquityIn(log', Len(log'))
<1>1. \A i : EquityBefore(i) = EquityIn(log, i - 1) /\ EquityBefore(i)' = EquityIn(log', i - 1)
  BY DEF EquityBefore, EquityIn
<1>2. Saved = EquityBefore(Len(log) + 1) /\ Saved' = EquityIn(log', (Len(log') + 1) - 1)
  BY DEF Saved, EquityBefore, EquityIn
<1>3. ASSUME NEW n \in Nat
      PROVE  (n + 1) - 1 = n
  OBVIOUS
<1>4. ASSUME Len(log) \in Nat
      PROVE  Saved = EquityIn(log, Len(log))
  <2>1. (Len(log) + 1) - 1 = Len(log)
    BY <1>4
  <2> QED
    BY <1>1, <1>2, <2>1
<1>5. ASSUME Len(log') \in Nat
      PROVE  Saved' = EquityIn(log', Len(log'))
  BY <1>2, <1>3, <1>5
<1> QED
  BY <1>1, <1>4, <1>5

-----------------------------------------------------------------------------
(* What a step adds to the record *)

\* A row that is not equity is added behind the others and disturbs no count of equity
\* (record_fill, record_order and the others, through allocate_event).
LEMMA RowLogged ==
  ASSUME log \in Seq(Rows), NEW r \in Rows, log' = Append(log, r), r.kind # "equity"
  PROVE  /\ log' \in Seq(Rows) /\ Len(log) \in Nat /\ Len(log') = Len(log) + 1
         /\ log'[Len(log) + 1] = r
         /\ \A i \in DOMAIN log : i \in DOMAIN log' /\ log'[i] = log[i]
         /\ \A i \in DOMAIN log' : i \in DOMAIN log \/ i = Len(log) + 1
         /\ Saved' = Saved
         /\ EquityInPlace /\ Saved = (IF r.candle = 0 THEN 0 ELSE r.candle - 1) => EquityInPlace'
         /\ \A kind, o : HasRow(kind, o)' <=> (HasRow(kind, o) \/ IsRow(r, kind, o))
         /\ \A o : Recorded(o)' = Recorded(o) + Contribution(r, o)
         /\ \A kind, o, n :
              IF IsRow(r, kind, o) THEN LastSays(kind, o, n)' <=> r.n = n
              ELSE LastSays(kind, o, n) => LastSays(kind, o, n)'
<1>1. /\ log' \in Seq(Rows) /\ Len(log) \in Nat /\ Len(log') = Len(log) + 1
      /\ log'[Len(log) + 1] = r /\ DOMAIN log = 1..Len(log) /\ DOMAIN log' = 1..(Len(log) + 1)
      /\ \A i \in 1..Len(log) : log'[i] = log[i]
  BY AppendProperties, LenProperties
<1>2. /\ \A i \in DOMAIN log : i \in DOMAIN log' /\ log'[i] = log[i]
      /\ \A i \in DOMAIN log' : i \in DOMAIN log \/ i = Len(log) + 1
      /\ Len(log) + 1 \in DOMAIN log'
  BY <1>1
<1>3. \A i \in 1..(Len(log) + 1) : EquityBefore(i)' = EquityBefore(i)
  <2> SUFFICES ASSUME NEW i \in 1..(Len(log) + 1) PROVE EquityBefore(i)' = EquityBefore(i)
    OBVIOUS
  <2>1. i - 1 \in Nat /\ \A j \in 1..(i - 1) : log'[j] = log[j]
    BY <1>1
  <2> QED
    BY <2>1, EquityAgrees, EquityCounts
<1>4. Saved' = Saved
  <2>1. {j \in 1..(Len(log) + 1) : log'[j].kind = "equity"}
          = {j \in 1..Len(log) : log[j].kind = "equity"}
    BY <1>1
  <2>2. EquityIn(log', Len(log')) = EquityIn(log, Len(log))
    BY <1>1, <2>1 DEF EquityIn
  <2> QED
    BY <1>1, <2>2, EquityCounts
<1>5. ASSUME EquityInPlace, Saved = IF r.candle = 0 THEN 0 ELSE r.candle - 1
      PROVE  EquityInPlace'
  <2> SUFFICES ASSUME NEW i \in DOMAIN log'
               PROVE  EquityBefore(i)' = IF log'[i].candle = 0 THEN 0 ELSE log'[i].candle - 1
    BY DEF EquityInPlace
  <2>1. CASE i \in DOMAIN log
    BY <1>1, <1>3, <1>5, <2>1 DEF EquityInPlace
  <2>2. CASE i = Len(log) + 1
    BY <1>1, <1>3, <1>5, <2>2 DEF Saved
  <2> QED
    BY <1>2, <2>1, <2>2
<1>6. \A kind, o : HasRow(kind, o)' <=> (HasRow(kind, o) \/ IsRow(r, kind, o))
  BY <1>1, <1>2 DEF HasRow, IsRow
<1>7. \A o : Recorded(o)' = Recorded(o) + Contribution(r, o)
  <2> TAKE o
  <2>0. Len(log) <= Len(log')
    BY <1>1
  <2>1. FillsOf(o, log') = FillsOf(o, log) + Contribution(log'[Len(log')], o)
    BY <1>1, <2>0, FillsExtend
  <2> QED
    BY <1>1, <2>1 DEF Recorded
<1>8. ASSUME NEW kind, NEW o, NEW n
      PROVE  IF IsRow(r, kind, o) THEN LastSays(kind, o, n)' <=> r.n = n
             ELSE LastSays(kind, o, n) => LastSays(kind, o, n)'
  <2>1. ASSUME IsRow(r, kind, o)
        PROVE  LastSays(kind, o, n)' <=> r.n = n
    <3>1. ASSUME LastSays(kind, o, n)'
          PROVE  r.n = n
      <4>1. PICK i \in DOMAIN log' : /\ IsRow(log'[i], kind, o) /\ log'[i].n = n
                                     /\ \A j \in (i + 1)..Len(log') : ~IsRow(log'[j], kind, o)
        BY <3>1 DEF LastSays, IsRow
      <4>2. CASE i \in 1..Len(log)
        <5>1. Len(log) + 1 \in (i + 1)..Len(log')
          BY <1>1, <4>2
        <5> QED
          BY <1>1, <2>1, <4>1, <5>1
      <4> QED
        BY <1>1, <1>2, <4>1, <4>2
    <3>2. ASSUME r.n = n
          PROVE  LastSays(kind, o, n)'
      <4>1. \A j \in ((Len(log) + 1) + 1)..Len(log') : FALSE
        BY <1>1
      <4> QED
        BY <1>1, <1>2, <2>1, <3>2, <4>1 DEF LastSays, IsRow
    <3> QED
      BY <3>1, <3>2
  <2>2. ASSUME ~IsRow(r, kind, o), LastSays(kind, o, n)
        PROVE  LastSays(kind, o, n)'
    <3>1. PICK i \in DOMAIN log : /\ IsRow(log[i], kind, o) /\ log[i].n = n
                                  /\ \A j \in (i + 1)..Len(log) : ~IsRow(log[j], kind, o)
      BY <2>2 DEF LastSays
    <3>2. \A j \in (i + 1)..Len(log') : j \in (i + 1)..Len(log) \/ j = Len(log) + 1
      BY <1>1
    <3>3. \A j \in (i + 1)..Len(log') : ~IsRow(log'[j], kind, o)
      BY <1>1, <2>2, <3>1, <3>2
    <3> QED
      BY <1>2, <3>1, <3>3 DEF LastSays, IsRow
  <2> QED
    BY <2>1, <2>2
<1> QED
  BY <1>1, <1>2, <1>4, <1>5, <1>6, <1>7, <1>8

\* A batch of the next equity rows keeps them in place, and is nothing else to the record
\* (record_equity_snapshots).
LEMMA BatchLogged ==
  ASSUME log \in Seq(Rows), NEW b \in Seq(Rows), log' = log \o b,
         \A j \in DOMAIN b : b[j].kind = "equity" /\ b[j].candle = Saved + j
  PROVE  /\ log' \in Seq(Rows) /\ Len(b) \in Nat /\ Saved \in Nat
         /\ Saved' = Saved + Len(b)
         /\ \A i \in DOMAIN log : i \in DOMAIN log' /\ log'[i] = log[i]
         /\ \A i \in DOMAIN log' : i \in DOMAIN log \/ log'[i].kind = "equity"
         /\ EquityInPlace => EquityInPlace'
         /\ \A kind, o : kind # "equity" => (HasRow(kind, o)' <=> HasRow(kind, o))
         /\ \A o : Recorded(o)' = Recorded(o)
         /\ \A kind, o, n : kind # "equity" /\ LastSays(kind, o, n) => LastSays(kind, o, n)'
<1>1. /\ log' \in Seq(Rows) /\ Len(log) \in Nat /\ Len(b) \in Nat
      /\ Len(log') = Len(log) + Len(b)
      /\ DOMAIN log = 1..Len(log) /\ DOMAIN log' = 1..(Len(log) + Len(b)) /\ DOMAIN b = 1..Len(b)
      /\ \A i \in 1..Len(log) : log'[i] = log[i]
      /\ \A i \in 1..(Len(log) + Len(b)) : i > Len(log) => log'[i] = b[i - Len(log)]
  BY ConcatProperties, LenProperties
<1>2. \A i \in DOMAIN log' :
        i \in DOMAIN log \/ (i > Len(log) /\ i - Len(log) \in DOMAIN b /\ log'[i] = b[i - Len(log)])
  BY <1>1
<1>3. /\ \A i \in DOMAIN log : i \in DOMAIN log' /\ log'[i] = log[i]
      /\ \A i \in DOMAIN log' : i \in DOMAIN log \/ log'[i].kind = "equity"
  BY <1>1, <1>2
<1>4. Saved \in Nat /\ Saved = EquityIn(log', Len(log))
  <2>1. EquityIn(log', Len(log)) = EquityIn(log, Len(log))
    BY <1>1, EquityAgrees
  <2>2. \A i \in (Len(log) + 1)..Len(log) : log[i].kind = "equity"
    BY <1>1
  <2>3. EquityIn(log, Len(log)) \in Nat
    BY <1>1, <2>2, EquityCount
  <2> QED
    BY <1>1, <2>1, <2>3, EquityCounts
<1>5. ASSUME NEW n \in Nat, n <= Len(b)
      PROVE  EquityIn(log', Len(log) + n) = Saved + n
  <2>0. ASSUME NEW i \in (Len(log) + 1)..(Len(log) + n)
        PROVE  log'[i].kind = "equity"
    <3>1. i \in 1..(Len(log) + Len(b)) /\ i \notin 1..Len(log)
      BY <1>1, <1>5
    <3> QED
      BY <1>1, <1>3, <3>1
  <2>1. Len(log) + n \in Nat /\ Len(log) <= Len(log) + n
    BY <1>1
  <2>2. EquityIn(log', Len(log) + n) = EquityIn(log', Len(log)) + ((Len(log) + n) - Len(log))
    BY <1>1, <2>0, <2>1, EquityCount
  <2>3. (Len(log) + n) - Len(log) = n
    BY <1>1
  <2> QED
    BY <1>4, <2>2, <2>3
<1>6. Saved' = Saved + Len(b)
  <2>1. Len(b) <= Len(b) /\ Len(log') \in Nat
    BY <1>1
  <2>2. EquityIn(log', Len(log) + Len(b)) = Saved + Len(b)
    BY <1>1, <1>5, <2>1
  <2> QED
    BY <1>1, <2>1, <2>2, EquityCounts
<1>7. ASSUME EquityInPlace
      PROVE  EquityInPlace'
  <2> SUFFICES ASSUME NEW i \in DOMAIN log'
               PROVE  EquityBefore(i)' = IF log'[i].candle = 0 THEN 0 ELSE log'[i].candle - 1
    BY DEF EquityInPlace
  <2>1. CASE i \in DOMAIN log
    <3>1. i - 1 \in Nat /\ \A j \in 1..(i - 1) : log'[j] = log[j]
      BY <1>1, <2>1
    <3>2. EquityBefore(i)' = EquityBefore(i)
      BY <3>1, EquityAgrees, EquityCounts
    <3> QED
      BY <1>3, <1>7, <2>1, <3>2 DEF EquityInPlace
  <2>2. CASE i \notin DOMAIN log
    <3> DEFINE j == i - Len(log)
    <3>1. /\ j \in DOMAIN b /\ j \in Nat /\ j >= 1 /\ j - 1 \in Nat /\ j - 1 <= Len(b)
          /\ Len(log) + (j - 1) = i - 1 /\ log'[i] = b[j]
      BY <1>1, <1>2, <2>2
    <3> HIDE DEF j
    <3>2. EquityIn(log', Len(log) + (j - 1)) = Saved + (j - 1)
      BY <3>1, <1>5
    <3>3. EquityBefore(i)' = Saved + (j - 1)
      BY <3>1, <3>2, EquityCounts
    <3>4. log'[i].candle = Saved + j
      BY <3>1
    <3>5. Saved + j # 0 /\ (Saved + j) - 1 = Saved + (j - 1)
      <4>1. \A x, y \in Nat : y >= 1 => x + y # 0 /\ (x + y) - 1 = x + (y - 1)
        OBVIOUS
      <4> QED
        BY <1>4, <3>1, <4>1, Zenon
    <3> QED
      BY <3>3, <3>4, <3>5
  <2> QED
    BY <2>1, <2>2
<1>8. \A kind, o : kind # "equity" => (HasRow(kind, o)' <=> HasRow(kind, o))
  BY <1>3 DEF HasRow, IsRow
<1>9. \A o : Recorded(o)' = Recorded(o)
  <2> TAKE o
  <2>1. \A i \in 1..Len(log') : i > Len(log) => ~IsRow(log'[i], "fill", o)
    BY <1>1, <1>3 DEF IsRow
  <2>0. Len(log) <= Len(log')
    BY <1>1
  <2>2. FillsOf(o, log') = FillsOf(o, log)
    BY <1>1, <2>0, <2>1, FillsExtend
  <2> QED
    BY <2>2 DEF Recorded
<1>10. ASSUME NEW kind, NEW o, NEW n, kind # "equity", LastSays(kind, o, n)
       PROVE  LastSays(kind, o, n)'
  <2>1. PICK i \in DOMAIN log : /\ IsRow(log[i], kind, o) /\ log[i].n = n
                                /\ \A j \in (i + 1)..Len(log) : ~IsRow(log[j], kind, o)
    BY <1>10 DEF LastSays
  <2>2. \A j \in (i + 1)..Len(log') : j \in (i + 1)..Len(log) \/ log'[j].kind = "equity"
    BY <1>1, <1>3
  <2>3. \A j \in (i + 1)..Len(log') : ~IsRow(log'[j], kind, o)
    BY <1>1, <1>10, <2>1, <2>2 DEF IsRow
  <2> QED
    BY <1>3, <2>1, <2>3 DEF LastSays, IsRow
<1> QED
  BY <1>1, <1>3, <1>4, <1>6, <1>7, <1>8, <1>9, <1>10

-----------------------------------------------------------------------------
(* The rows of a step *)

\* The rows of the n orders of a step, numbered in threes.
LEMMA Thirds ==
  ASSUME NEW n \in Nat
  PROVE  /\ \A j \in 1..(3 * n) : Third(j) \in 1..n /\ RowOfThird(j) \in 1..3
                                  /\ j = 3 * (Third(j) - 1) + RowOfThird(j)
         /\ \A t \in 1..n : \A r \in 1..3 :
              /\ 3 * (t - 1) + r \in 1..(3 * n)
              /\ Third(3 * (t - 1) + r) = t /\ RowOfThird(3 * (t - 1) + r) = r
BY DEF Third, RowOfThird

\* Rows in threes, one of each name for each of n orders, behind a decision or none.
InThrees(rows, d, n, of, names) ==
  /\ n \in Nat /\ d \in {0, 1} /\ of \in [1..n -> Orders]
  /\ names \in {<<"intent", "order", "accepted">>, <<"fill", "state", "position">>}
  /\ \A t, u \in 1..n : of[t] = of[u] => t = u
  /\ DOMAIN rows = 1..(3 * n + d)
  /\ \A j \in 1..(3 * n) : /\ rows[j + d].kind = names[RowOfThird(j)]
                           /\ rows[j + d].order = of[Third(j)]
  /\ d = 1 => rows[1].kind = "decision" /\ rows[1].order = 0

\* Such rows are in order, and each of the orders has one of each.
LEMMA ThreesInOrder ==
  ASSUME NEW rows, NEW d, NEW n, NEW of, NEW names, InThrees(rows, d, n, of, names)
  PROVE  /\ InOrder(rows)
         /\ \A o \in Orders : \A kind :
              Holds(rows, kind, o)
                <=> (\E t \in 1..n : of[t] = o) /\ (kind \in {names[1], names[2], names[3]})
<1> USE DEF InThrees
<1>1. \A i \in DOMAIN rows : (d = 1 /\ i = 1) \/ (i - d \in 1..(3 * n) /\ (i - d) + d = i)
  OBVIOUS
<1>2. \A j \in 1..(3 * n) : j + d \in DOMAIN rows
  OBVIOUS
<1>3. \A j \in 1..(3 * n) : Third(j) \in 1..n /\ RowOfThird(j) \in 1..3
                            /\ j = 3 * (Third(j) - 1) + RowOfThird(j)
  BY Thirds
<1>4. \A t \in 1..n : \A r \in 1..3 :
        /\ 3 * (t - 1) + r \in 1..(3 * n)
        /\ Third(3 * (t - 1) + r) = t /\ RowOfThird(3 * (t - 1) + r) = r
  BY Thirds
<1>5. /\ \A r, q \in 1..3 : names[r] = names[q] => r = q
      /\ \A r, q \in 1..3 : <<names[r], names[q]>> \in Earlier => r < q
      /\ \A r \in 1..3 : names[r] # "decision"
      /\ \A pair \in Earlier : pair[1] \in {names[1], names[2], names[3]}
                                 <=> pair[2] \in {names[1], names[2], names[3]}
      /\ \A pair \in Earlier : pair[1] # "decision" /\ pair[2] # "decision"
  BY DEF Earlier
<1>6. 0 \notin Orders
  BY BacktestAssumption DEF Orders
<1>7. ASSUME NEW o \in Orders, NEW kind
      PROVE  Holds(rows, kind, o)
               <=> (\E t \in 1..n : of[t] = o) /\ (kind \in {names[1], names[2], names[3]})
  <2>1. ASSUME Holds(rows, kind, o)
        PROVE  (\E t \in 1..n : of[t] = o) /\ (kind \in {names[1], names[2], names[3]})
    <3>1. PICK i \in DOMAIN rows : rows[i].kind = kind /\ rows[i].order = o
      BY <2>1 DEF Holds, IsRow
    <3>2. PICK j \in 1..(3 * n) : j + d = i
      BY <1>1, <1>6, <3>1
    <3>3. kind = names[RowOfThird(j)] /\ o = of[Third(j)]
      BY <3>1, <3>2
    <3>4. \A r \in 1..3 : names[r] \in {names[1], names[2], names[3]}
      OBVIOUS
    <3> QED
      BY <1>3, <3>3, <3>4, Zenon
  <2>2. ASSUME NEW t \in 1..n, of[t] = o, NEW r \in 1..3, kind = names[r]
        PROVE  Holds(rows, kind, o)
    <3> DEFINE j == 3 * (t - 1) + r
    <3>1. j \in 1..(3 * n) /\ Third(j) = t /\ RowOfThird(j) = r
      BY <1>4
    <3> HIDE DEF j
    <3>2. rows[j + d].kind = names[RowOfThird(j)] /\ rows[j + d].order = of[Third(j)]
      BY <3>1, Zenon
    <3>3. j + d \in DOMAIN rows /\ rows[j + d].kind = kind /\ rows[j + d].order = o
      BY <1>2, <2>2, <3>1, <3>2, Zenon
    <3> QED
      BY <3>3 DEF Holds, IsRow
  <2> QED
    BY <2>1, <2>2
<1>8. ASSUME NEW i \in DOMAIN rows, NEW j \in DOMAIN rows, rows[i].order = rows[j].order
      PROVE  /\ rows[i].kind = rows[j].kind => i = j
             /\ <<rows[i].kind, rows[j].kind>> \in Earlier => i < j
  <2>1. CASE d = 1 /\ i = 1 /\ j = 1
    BY <1>5, <2>1
  <2>2. CASE i - d \in 1..(3 * n) /\ (i - d) + d = i /\ j - d \in 1..(3 * n) /\ (j - d) + d = j
    <3> DEFINE a == i - d
               b == j - d
    <3>1. a \in 1..(3 * n) /\ b \in 1..(3 * n) /\ a + d = i /\ b + d = j
      BY <2>2
    <3> HIDE DEF a, b
    <3>2. /\ rows[i].kind = names[RowOfThird(a)] /\ rows[j].kind = names[RowOfThird(b)]
          /\ of[Third(a)] = of[Third(b)]
      BY <1>8, <3>1
    <3>3. /\ Third(a) = Third(b) /\ Third(a) \in 1..n
          /\ RowOfThird(a) \in 1..3 /\ RowOfThird(b) \in 1..3
          /\ a = 3 * (Third(a) - 1) + RowOfThird(a) /\ b = 3 * (Third(b) - 1) + RowOfThird(b)
      BY <1>3, <3>1, <3>2
    <3>4. rows[i].kind = rows[j].kind => RowOfThird(a) = RowOfThird(b)
      <4>1. ASSUME rows[i].kind = rows[j].kind
            PROVE  names[RowOfThird(a)] = names[RowOfThird(b)]
        BY <3>2, <4>1
      <4>2. names[RowOfThird(a)] = names[RowOfThird(b)] => RowOfThird(a) = RowOfThird(b)
        BY <1>5, <3>3, Zenon
      <4> QED
        BY <4>1, <4>2
    <3>5. <<rows[i].kind, rows[j].kind>> = <<names[RowOfThird(a)], names[RowOfThird(b)]>>
      BY <3>2, Zenon
    <3>6. <<rows[i].kind, rows[j].kind>> \in Earlier => RowOfThird(a) < RowOfThird(b)
      BY <1>5, <3>3, <3>5
    <3>7. RowOfThird(a) = RowOfThird(b) => a = b
      <4>1. ASSUME RowOfThird(a) = RowOfThird(b)
            PROVE  3 * (Third(a) - 1) + RowOfThird(a) = 3 * (Third(b) - 1) + RowOfThird(b)
        BY <3>3, <4>1, Zenon
      <4> QED
        BY <3>3, <4>1, Zenon
    <3>8. RowOfThird(a) < RowOfThird(b) => a < b
      <4>1. \A t \in 1..n : \A r, q \in 1..3 : r < q => 3 * (t - 1) + r < 3 * (t - 1) + q
        OBVIOUS
      <4>2. RowOfThird(a) < RowOfThird(b)
              => 3 * (Third(a) - 1) + RowOfThird(a) < 3 * (Third(a) - 1) + RowOfThird(b)
        BY <3>3, <4>1, Zenon
      <4>3. b = 3 * (Third(a) - 1) + RowOfThird(b)
        BY <3>3, Zenon
      <4>4. a = 3 * (Third(a) - 1) + RowOfThird(a)
        BY <3>3, Zenon
      <4> QED
        BY <4>2, <4>3, <4>4, Zenon
    <3>9. a < b => i < j
      BY <3>1
    <3> QED
      BY <3>1, <3>4, <3>6, <3>7, <3>8, <3>9
  <2>3. ASSUME NEW b \in 1..(3 * n), d = 1
        PROVE  rows[b + d].order # rows[1].order
    <3>1. rows[b + d].order \in Orders
      BY <1>3
    <3> QED
      BY <1>6, <2>3, <3>1
  <2>4. i - d \in 1..(3 * n) /\ (i - d) + d = i => ~(d = 1 /\ j = 1)
    BY <1>8, <2>3
  <2>5. j - d \in 1..(3 * n) /\ (j - d) + d = j => ~(d = 1 /\ i = 1)
    BY <1>8, <2>3
  <2> QED
    BY <1>1, <2>1, <2>2, <2>4, <2>5
<1>9. \A i \in DOMAIN rows : rows[i].kind # "decision" => rows[i].order \in Orders
  <2> SUFFICES ASSUME NEW i \in DOMAIN rows, rows[i].kind # "decision"
               PROVE  rows[i].order \in Orders
    OBVIOUS
  <2>1. PICK j \in 1..(3 * n) : j + d = i
    BY <1>1
  <2> QED
    BY <1>3, <2>1
<1>10. \A pair \in Earlier : \A o \in Orders : Holds(rows, pair[1], o) => Holds(rows, pair[2], o)
  BY <1>5, <1>7
<1> QED
  BY <1>7, <1>8, <1>9, <1>10 DEF InOrder

\* What is left to write is in order when the first row is written, and that row stands
\* before the later rows of its order and behind the earlier ones.
LEMMA TailInOrder ==
  ASSUME NEW s \in Seq(Rows), s # <<>>, InOrder(s)
  PROVE  /\ Head(s) \in Rows /\ Tail(s) \in Seq(Rows) /\ InOrder(Tail(s))
         /\ 1 \in DOMAIN s /\ s[1] = Head(s)
         /\ \A i \in DOMAIN Tail(s) : i + 1 \in DOMAIN s /\ Tail(s)[i] = s[i + 1]
         /\ \A kind, o : Holds(Tail(s), kind, o) <=> Holds(s, kind, o) /\ ~IsRow(Head(s), kind, o)
         /\ \A pair \in Earlier : Head(s).kind = pair[1] => Holds(Tail(s), pair[2], Head(s).order)
         /\ \A pair \in Earlier : Head(s).kind = pair[2] => ~Holds(s, pair[1], Head(s).order)
         /\ Head(s).kind # "decision" => Head(s).order \in Orders
<1>1. /\ Head(s) \in Rows /\ Tail(s) \in Seq(Rows) /\ Len(s) \in Nat /\ Len(s) >= 1
      /\ Head(s) = s[1] /\ DOMAIN s = 1..Len(s) /\ DOMAIN Tail(s) = 1..(Len(s) - 1)
      /\ \A i \in 1..(Len(s) - 1) : Tail(s)[i] = s[i + 1]
  BY HeadTailProperties, LenProperties, EmptySeq
<1>2. /\ 1 \in DOMAIN s
      /\ \A i \in DOMAIN Tail(s) : i \in Nat /\ i + 1 \in DOMAIN s /\ i + 1 # 1 /\ Tail(s)[i] = s[i + 1]
      /\ \A i \in DOMAIN s : i # 1 => i \in Nat /\ i - 1 \in DOMAIN Tail(s) /\ (i - 1) + 1 = i
      /\ \A i \in DOMAIN s : i \in Nat /\ i >= 1
  BY <1>1
<1>3. /\ \A i, j \in DOMAIN s : s[i].kind = s[j].kind /\ s[i].order = s[j].order => i = j
      /\ \A i, j \in DOMAIN s :
           <<s[i].kind, s[j].kind>> \in Earlier /\ s[i].order = s[j].order => i < j
      /\ \A pair \in Earlier : \A o \in Orders : Holds(s, pair[1], o) => Holds(s, pair[2], o)
      /\ \A i \in DOMAIN s : s[i].kind # "decision" => s[i].order \in Orders
  BY DEF InOrder
<1>4. ASSUME NEW kind, NEW o
      PROVE  Holds(Tail(s), kind, o) <=> Holds(s, kind, o) /\ ~IsRow(Head(s), kind, o)
  <2>1. ASSUME NEW i \in DOMAIN Tail(s), IsRow(Tail(s)[i], kind, o)
        PROVE  Holds(s, kind, o) /\ ~IsRow(Head(s), kind, o)
    <3>1. i + 1 \in DOMAIN s /\ i + 1 # 1 /\ IsRow(s[i + 1], kind, o)
      BY <1>2, <2>1
    <3>2. ~IsRow(s[1], kind, o)
      BY <1>2, <1>3, <3>1 DEF IsRow
    <3> QED
      BY <1>1, <3>1, <3>2 DEF Holds
  <2>2. ASSUME NEW i \in DOMAIN s, IsRow(s[i], kind, o), ~IsRow(Head(s), kind, o)
        PROVE  Holds(Tail(s), kind, o)
    <3>1. i # 1
      BY <1>1, <2>2
    <3>2. i - 1 \in DOMAIN Tail(s) /\ (i - 1) + 1 = i
      BY <1>2, <3>1
    <3>3. Tail(s)[i - 1] = s[i]
      BY <1>2, <3>2
    <3> QED
      BY <2>2, <3>2, <3>3 DEF Holds
  <2> QED
    BY <2>1, <2>2 DEF Holds
<1>5. \A pair \in Earlier : pair = <<pair[1], pair[2]>> /\ pair[1] # "decision" /\ pair[1] # pair[2]
  BY DEF Earlier
<1>6. ASSUME NEW pair \in Earlier, Head(s).kind = pair[2]
      PROVE  ~Holds(s, pair[1], Head(s).order)
  <2> SUFFICES ASSUME NEW i \in DOMAIN s, IsRow(s[i], pair[1], Head(s).order) PROVE FALSE
    BY DEF Holds
  <2>0. s[i].kind = pair[1] /\ s[1].kind = pair[2] /\ s[i].order = s[1].order
    BY <1>1, <1>6 DEF IsRow
  <2>1. <<s[i].kind, s[1].kind>> \in Earlier /\ s[i].order = s[1].order
    BY <1>5, <2>0
  <2>2. i < 1
    BY <1>2, <1>3, <2>1
  <2> QED
    BY <1>2, <2>2
<1>7. ASSUME NEW pair \in Earlier, Head(s).kind = pair[1]
      PROVE  Holds(Tail(s), pair[2], Head(s).order)
  <2>0. s[1].kind = pair[1] /\ s[1].kind # "decision" /\ s[1].order = Head(s).order
    BY <1>1, <1>5, <1>7
  <2>1. Head(s).order \in Orders /\ Holds(s, pair[1], Head(s).order)
    BY <1>2, <1>3, <2>0 DEF Holds, IsRow
  <2>2. Holds(s, pair[2], Head(s).order) /\ ~IsRow(Head(s), pair[2], Head(s).order)
    BY <1>3, <1>5, <1>7, <2>1 DEF IsRow
  <2> QED
    BY <1>4, <2>2
<1>8. InOrder(Tail(s))
  <2>1. ASSUME NEW i \in DOMAIN Tail(s), NEW j \in DOMAIN Tail(s), Tail(s)[i].order = Tail(s)[j].order
        PROVE  /\ Tail(s)[i].kind = Tail(s)[j].kind => i = j
               /\ <<Tail(s)[i].kind, Tail(s)[j].kind>> \in Earlier => i < j
    <3>0. /\ i + 1 \in DOMAIN s /\ j + 1 \in DOMAIN s /\ i \in Nat /\ j \in Nat
          /\ Tail(s)[i] = s[i + 1] /\ Tail(s)[j] = s[j + 1]
      BY <1>2
    <3> DEFINE a == i + 1
               b == j + 1
    <3>a. /\ a \in DOMAIN s /\ b \in DOMAIN s /\ s[a].order = s[b].order
          /\ Tail(s)[i] = s[a] /\ Tail(s)[j] = s[b]
      BY <2>1, <3>0
    <3>b. a = i + 1 /\ b = j + 1
      OBVIOUS
    <3> HIDE DEF a, b
    <3>1. /\ Tail(s)[i].kind = Tail(s)[j].kind => a = b
          /\ <<Tail(s)[i].kind, Tail(s)[j].kind>> \in Earlier => a < b
      BY <1>3, <3>a
    <3> QED
      BY <3>0, <3>1, <3>b
  <2>2. ASSUME NEW pair \in Earlier, NEW o \in Orders, Holds(Tail(s), pair[1], o)
        PROVE  Holds(Tail(s), pair[2], o)
    <3>1. Holds(s, pair[1], o) /\ Holds(s, pair[2], o)
      BY <1>3, <1>4, <2>2
    <3>2. ~IsRow(Head(s), pair[2], o)
      BY <1>6, <3>1 DEF IsRow
    <3> QED
      BY <1>4, <3>1, <3>2
  <2>3. \A i \in DOMAIN Tail(s) : Tail(s)[i].kind # "decision" => Tail(s)[i].order \in Orders
    BY <1>2, <1>3
  <2> QED
    BY <2>1, <2>2, <2>3 DEF InOrder
<1>9. Head(s).kind # "decision" => Head(s).order \in Orders
  BY <1>1, <1>2, <1>3
<1> QED
  BY <1>1, <1>2, <1>4, <1>6, <1>7, <1>8, <1>9

\* What is indexed by 1..n is a sequence of length n.
LEMMA Enumerated ==
  ASSUME NEW n \in Nat, NEW S, NEW s, s = [i \in 1..n |-> s[i]], \A i \in 1..n : s[i] \in S
  PROVE  s \in Seq(S) /\ Len(s) = n /\ DOMAIN s = 1..n
<1>1. s \in [1..n -> S]
  OBVIOUS
<1>2. s \in Seq(S)
  BY <1>1, SeqDef
<1>3. Len(s) \in Nat /\ DOMAIN s = 1..Len(s)
  BY <1>2, LenProperties
<1>4. DOMAIN s = 1..n
  BY <1>1
<1>5. Len(s) = n
  BY <1>3, <1>4
<1> QED
  BY <1>2, <1>4, <1>5

\* What the strategy puts out: whole orders, numbered from the first that is not placed
\* (persist_strategy_output).
LEMMA OutputFacts ==
  ASSUME TypeOK, candles # <<>>, k <= Len(candles), Len(candles) <= NSlots,
         NEW m \in 0..NOrders, Placed = 1..m,
         NEW decides \in BOOLEAN, NEW emitted \in 0..(NOrders - m),
         NEW rows, rows = OutputRows(decides, emitted)
  PROVE  /\ rows \in Seq(Rows) /\ InOrder(rows)
         /\ \A i \in DOMAIN rows : rows[i].candle = k /\ rows[i].kind \in KindsIn("output")
         /\ \A o \in Orders : \A kind :
              Holds(rows, kind, o)
                <=> o \in (m + 1)..(m + emitted) /\ kind \in {"intent", "order", "accepted"}
<1> DEFINE names == <<"intent", "order", "accepted">>
           of == [t \in 1..emitted |-> m + t]
           d == IF decides THEN 1 ELSE 0
           first == IF decides THEN <<Row("decision", 0, OutputTime, 0)>> ELSE <<>>
           next == OrderRows(emitted)
<1>1. emitted \in Nat /\ m \in Nat /\ NOrders \in Nat /\ m + emitted <= NOrders
  BY BacktestAssumption
<1>2. Cardinality(Placed) = m
  <2>1. Cardinality(1..m) = IF 1 > m THEN 0 ELSE m - 1 + 1
    BY <1>1, FS_Interval
  <2> QED
    BY <1>1, <2>1
<1>3. /\ of \in [1..emitted -> Orders]
      /\ \A t, u \in 1..emitted : of[t] = of[u] => t = u
      /\ \A t \in 1..emitted : of[t] = m + t
  BY <1>1 DEF Orders
<1>4. OutputTime \in Times /\ k \in 0..(NSlots + 1) /\ 0 \in 0..Qty
  <2>1. /\ NSlots \in Nat /\ Qty \in Nat /\ Len(candles) \in Nat /\ Len(candles) >= 1
        /\ k \in 0..(Len(candles) + 1)
        /\ \A i \in 1..Len(candles) : candles[i] \in Candles
    BY BacktestAssumption, LenProperties, ElementOfSeq, EmptySeq DEF TypeOK
  <2>2. \A c \in Candles : c.open \in Times /\ c.close \in Times
    BY DEF Candles
  <2>3. 1 \in 1..Len(candles) /\ (k # 0 => k \in 1..Len(candles))
    BY <2>1
  <2>4. OutputTime \in Times
    BY <2>1, <2>2, <2>3 DEF OutputTime
  <2>5. k \in 0..(NSlots + 1) /\ 0 \in 0..Qty
    BY <2>1
  <2> QED
    BY <2>4, <2>5
<1>5. \A j \in 1..(3 * emitted) : Third(j) \in 1..emitted /\ RowOfThird(j) \in 1..3
  BY <1>1, Thirds
<1>6. \A r \in 1..3 : names[r] \in Kinds /\ names[r] \in KindsIn("output")
  BY DEF Kinds, KindsIn
<1> HIDE DEF names
<1>7. ASSUME NEW j \in 1..(3 * emitted)
      PROVE  /\ next[j] = Row(names[RowOfThird(j)], of[Third(j)], OutputTime, 0)
             /\ next[j] \in Rows
             /\ next[j].kind = names[RowOfThird(j)] /\ next[j].order = of[Third(j)]
             /\ next[j].candle = k
  <2>1. next[j] = Row(names[RowOfThird(j)], m + Third(j), OutputTime, 0)
    BY <1>2 DEF OrderRows, names
  <2>2. of[Third(j)] = m + Third(j) /\ of[Third(j)] \in 0..NOrders
    BY <1>1, <1>3, <1>5
  <2>3. names[RowOfThird(j)] \in Kinds
    BY <1>5, <1>6
  <2> HIDE DEF next, of
  <2> QED
    BY <1>4, <2>1, <2>2, <2>3 DEF Row, Rows
<1>8. next = [j \in 1..(3 * emitted) |-> next[j]]
  BY DEF OrderRows
<1>9. next \in Seq(Rows) /\ Len(next) = 3 * emitted
  <2>1. 3 * emitted \in Nat
    BY <1>1
  <2> HIDE DEF next
  <2> QED
    BY <1>7, <1>8, <2>1, Enumerated
<1>10. /\ first \in Seq(Rows) /\ Len(first) = d
       /\ d = 1 => first[1].kind = "decision" /\ first[1].order = 0 /\ first[1].candle = k
  <2>1. Row("decision", 0, OutputTime, 0) \in Rows
    BY <1>1, <1>4 DEF Row, Rows, Kinds
  <2> QED
    BY <2>1 DEF Row
<1>11. rows = first \o next /\ d \in {0, 1}
  BY DEF OutputRows
<1> HIDE DEF first, next, d, of
<1>12. /\ rows \in Seq(Rows) /\ DOMAIN rows = 1..(3 * emitted + d)
       /\ \A i \in 1..d : rows[i] = first[i]
       /\ \A j \in 1..(3 * emitted) : rows[j + d] = next[j]
  <2>1. /\ rows \in Seq(Rows) /\ Len(rows) = d + 3 * emitted
        /\ \A i \in 1..(d + 3 * emitted) : rows[i] = IF i <= d THEN first[i] ELSE next[i - d]
    <3>1. /\ first \o next \in Seq(Rows) /\ Len(first \o next) = Len(first) + Len(next)
          /\ \A i \in 1..(Len(first) + Len(next)) :
               (first \o next)[i] = IF i <= Len(first) THEN first[i] ELSE next[i - Len(first)]
      BY <1>9, <1>10, ConcatProperties, Zenon
    <3> QED
      BY <1>9, <1>10, <1>11, <3>1, Zenon
  <2>2. DOMAIN rows = 1..(3 * emitted + d)
    <3>1. DOMAIN rows = 1..Len(rows) /\ d + 3 * emitted = 3 * emitted + d
      BY <1>1, <1>11, <2>1, LenProperties
    <3> QED
      BY <2>1, <3>1
  <2>3. \A i \in 1..d : i \in 1..(d + 3 * emitted) /\ i <= d
    BY <1>1, <1>11
  <2>4. \A j \in 1..(3 * emitted) : j + d \in 1..(d + 3 * emitted) /\ ~(j + d <= d) /\ (j + d) - d = j
    BY <1>1, <1>11
  <2>5. \A j \in 1..(3 * emitted) : rows[j + d] = next[j]
    <3> TAKE j \in 1..(3 * emitted)
    <3> DEFINE i == j + d
    <3>1. i \in 1..(d + 3 * emitted) /\ ~(i <= d) /\ i - d = j
      BY <2>4
    <3> HIDE DEF i
    <3>2. rows[i] = next[i - d]
      BY <2>1, <3>1
    <3> QED
      BY <3>1, <3>2 DEF i
  <2> QED
    BY <2>1, <2>2, <2>3, <2>5
<1>13. d = 1 => rows[1] = first[1]
  BY <1>12
<1>14. \A i \in DOMAIN rows : (d = 1 /\ i = 1) \/ (i - d \in 1..(3 * emitted) /\ (i - d) + d = i)
  BY <1>1, <1>11, <1>12
<1>15. \A i \in DOMAIN rows : rows[i].candle = k /\ rows[i].kind \in KindsIn("output")
  <2> SUFFICES ASSUME NEW i \in DOMAIN rows
               PROVE  rows[i].candle = k /\ rows[i].kind \in KindsIn("output")
    OBVIOUS
  <2>1. CASE d = 1 /\ i = 1
    BY <1>10, <1>13, <2>1 DEF KindsIn
  <2>2. CASE i - d \in 1..(3 * emitted) /\ (i - d) + d = i
    <3>1. rows[i] = next[i - d]
      BY <1>12, <2>2
    <3> QED
      BY <1>5, <1>6, <1>7, <2>2, <3>1
  <2> QED
    BY <1>14, <2>1, <2>2
<1>16. /\ InOrder(rows)
       /\ \A o \in Orders : \A kind :
            Holds(rows, kind, o)
              <=> (\E t \in 1..emitted : of[t] = o) /\ (kind \in {names[1], names[2], names[3]})
  <2>1. names \in {<<"intent", "order", "accepted">>, <<"fill", "state", "position">>}
    BY DEF names
  <2>2. d = 1 => rows[1].kind = "decision" /\ rows[1].order = 0
    BY <1>10, <1>13
  <2>3. \A j \in 1..(3 * emitted) : /\ rows[j + d].kind = names[RowOfThird(j)]
                                    /\ rows[j + d].order = of[Third(j)]
    BY <1>7, <1>12
  <2> QED
    <3>1. InThrees(rows, d, emitted, of, names)
      BY <1>1, <1>3, <1>11, <1>12, <2>1, <2>2, <2>3 DEF InThrees
    <3> QED
      BY <3>1, ThreesInOrder
<1>17. {names[1], names[2], names[3]} = {"intent", "order", "accepted"}
  BY DEF names
<1>18. \A o \in Orders : (\E t \in 1..emitted : of[t] = o) <=> o \in (m + 1)..(m + emitted)
  <2> SUFFICES ASSUME NEW o \in Orders
               PROVE  (\E t \in 1..emitted : of[t] = o) <=> o \in (m + 1)..(m + emitted)
    OBVIOUS
  <2>1. o \in Nat
    BY <1>1 DEF Orders
  <2>2. o \in (m + 1)..(m + emitted) => o - m \in 1..emitted /\ m + (o - m) = o
    BY <1>1, <2>1
  <2>3. \A t \in 1..emitted : m + t \in (m + 1)..(m + emitted)
    BY <1>1
  <2> QED
    BY <1>3, <2>2, <2>3
<1> QED
  BY <1>12, <1>15, <1>16, <1>17, <1>18

\* Some of an order is taken by a fill, and no more than remains of it (fill_quantity).
LEMMA ChunkFacts ==
  ASSUME NEW o \in Orders, taken[o] \in Nat, taken[o] < Qty
  PROVE  Chunk(o) \in 1..Qty /\ taken[o] + Chunk(o) \in 1..Qty
<1>1. Part \in Nat /\ Part >= 1 /\ Part <= Qty /\ Qty \in Nat /\ Qty - taken[o] \in Nat /\ Qty - taken[o] >= 1
  BY BacktestAssumption
<1>2. {Part, Qty - taken[o]} \in SUBSET Nat /\ {Part, Qty - taken[o]} # {}
  BY <1>1
<1>3. Chunk(o) \in {Part, Qty - taken[o]} /\ Chunk(o) <= Qty - taken[o]
  BY <1>2, MinIsLeast DEF Chunk
<1> QED
  BY <1>1, <1>3

\* The rows of a candle's fills: three for each filled order, saying what it has filled
\* (record_fill, record_order_state, record_position).
LEMMA FillFacts ==
  ASSUME TypeOK, k \in 1..Len(candles), Len(candles) <= NSlots,
         NEW filled \in SUBSET Orders, \A o \in filled : taken[o] < Qty,
         NEW rows, rows = FillRows(filled)
  PROVE  /\ rows \in Seq(Rows) /\ InOrder(rows) /\ (filled # {} => rows # <<>>)
         /\ \A i \in DOMAIN rows : /\ rows[i].candle = k /\ rows[i].kind \in KindsIn("fills")
                                   /\ rows[i].order \in filled
         /\ \A o \in Orders : \A kind :
              Holds(rows, kind, o) <=> o \in filled /\ kind \in {"fill", "state", "position"}
         /\ \A i \in DOMAIN rows :
              /\ rows[i].kind = "fill" => rows[i].n = Chunk(rows[i].order)
              /\ rows[i].kind = "state" =>
                   rows[i].n = taken[rows[i].order] + Chunk(rows[i].order)
<1> DEFINE names == <<"fill", "state", "position">>
           n == Cardinality(filled)
           of == Ascending(filled)
           amounts(o) == <<Chunk(o), taken[o] + Chunk(o), 0>>
<1>0. NOrders \in Nat /\ Qty \in Nat /\ NSlots \in Nat
  BY BacktestAssumption
<1>o. \A o \in Orders : o \in Nat /\ o \in 0..NOrders
  BY <1>0 DEF Orders
<1>1. /\ IsFiniteSet(filled) /\ n \in Nat /\ of \in [1..n -> filled]
      /\ \A x \in filled : \E i \in 1..n : of[i] = x
      /\ \A i, j \in 1..n : i < j => of[i] < of[j]
  <2>1. filled \in SUBSET Nat /\ NOrders + 1 \in Nat /\ \A x \in filled : x < NOrders + 1
    BY <1>0 DEF Orders
  <2> QED
    BY <2>1, AscendingFacts
<1>2. \A t, u \in 1..n : of[t] = of[u] => t = u
  <2>0. \A t \in 1..n : of[t] \in filled
    BY <1>1
  <2>1. \A t \in 1..n : of[t] \in Nat
    BY <1>o, <2>0
  <2>2. \A t, u \in 1..n : t < u \/ u < t \/ t = u
    BY <1>1
  <2>3. \A t, u \in 1..n : of[t] < of[u] => of[t] # of[u]
    BY <2>1
  <2> QED
    BY <1>1, <2>2, <2>3
<1>3. \A j \in 1..(3 * n) : Third(j) \in 1..n /\ RowOfThird(j) \in 1..3
  BY <1>1, Thirds
<1>4. /\ \A r \in 1..3 : names[r] \in Kinds /\ names[r] \in KindsIn("fills")
      /\ \A r \in 1..3 : (names[r] = "fill" => r = 1) /\ (names[r] = "state" => r = 2)
      /\ \A o : amounts(o)[1] = Chunk(o) /\ amounts(o)[2] = taken[o] + Chunk(o)
  BY DEF Kinds, KindsIn
<1>5. ASSUME NEW o \in filled
      PROVE  /\ FillTime(o) \in Times /\ \A r \in 1..3 : amounts(o)[r] \in 0..Qty
  <2>1. candles[k] \in Candles
    BY ElementOfSeq DEF TypeOK
  <2>2. FillTime(o) \in Times
    BY <2>1 DEF FillTime, Candles
  <2>3. taken[o] \in Nat /\ Chunk(o) \in 1..Qty /\ taken[o] + Chunk(o) \in 1..Qty
    <3>1. taken[o] \in 0..Qty
      BY DEF TypeOK
    <3>2. taken[o] \in Nat
      BY <1>0, <3>1
    <3> QED
      BY <3>2, ChunkFacts
  <2>4. Chunk(o) \in 0..Qty /\ taken[o] + Chunk(o) \in 0..Qty /\ 0 \in 0..Qty
    BY <1>0, <2>3
  <2>5. \A r \in 1..3 : amounts(o)[r] \in 0..Qty
    BY <2>4
  <2> QED
    BY <2>2, <2>5
<1> HIDE DEF names, amounts
<1>6. rows = [j \in 1..(3 * n) |->
                Row(names[RowOfThird(j)], of[Third(j)], FillTime(of[Third(j)]),
                    amounts(of[Third(j)])[RowOfThird(j)])]
  BY DEF FillRows, names, amounts
<1> HIDE DEF of, n
<1>k. k \in 0..(NSlots + 1)
  <2>1. Len(candles) \in Nat
    BY LenProperties DEF TypeOK
  <2> QED
    BY <1>0, <2>1
<1>7. ASSUME NEW j \in 1..(3 * n)
      PROVE  /\ rows[j] \in Rows
             /\ rows[j].kind = names[RowOfThird(j)] /\ rows[j].order = of[Third(j)]
             /\ rows[j].n = amounts(of[Third(j)])[RowOfThird(j)] /\ rows[j].candle = k
  <2>1. of[Third(j)] \in filled /\ names[RowOfThird(j)] \in Kinds
    BY <1>1, <1>3, <1>4
  <2>2. /\ FillTime(of[Third(j)]) \in Times /\ of[Third(j)] \in 0..NOrders
        /\ amounts(of[Third(j)])[RowOfThird(j)] \in 0..Qty
    BY <1>o, <1>3, <1>5, <2>1
  <2>3. rows[j] = Row(names[RowOfThird(j)], of[Third(j)], FillTime(of[Third(j)]),
                      amounts(of[Third(j)])[RowOfThird(j)])
    BY <1>6
  <2> QED
    BY <1>k, <2>1, <2>2, <2>3 DEF Row, Rows
<1>8. rows \in Seq(Rows) /\ Len(rows) = 3 * n /\ DOMAIN rows = 1..(3 * n)
  <2>1. 3 * n \in Nat
    BY <1>1
  <2>2. rows = [j \in 1..(3 * n) |-> rows[j]]
    BY <1>6
  <2> QED
    BY <1>7, <2>1, <2>2, Enumerated
<1>9. /\ InOrder(rows)
      /\ \A o \in Orders : \A kind :
           Holds(rows, kind, o)
             <=> (\E t \in 1..n : of[t] = o) /\ (kind \in {names[1], names[2], names[3]})
  <2>1. of \in [1..n -> Orders] /\ 3 * n + 0 = 3 * n
    BY <1>1
  <2>2. names \in {<<"intent", "order", "accepted">>, <<"fill", "state", "position">>}
    BY DEF names
  <2>3. \A j \in 1..(3 * n) : j + 0 = j
    OBVIOUS
  <2>4. InThrees(rows, 0, n, of, names)
    BY <1>1, <1>2, <1>7, <1>8, <2>1, <2>2, <2>3 DEF InThrees
  <2> QED
    BY <2>4, ThreesInOrder
<1>10. {names[1], names[2], names[3]} = {"fill", "state", "position"}
  BY DEF names
<1>11. \A o \in Orders : (\E t \in 1..n : of[t] = o) <=> o \in filled
  BY <1>1
<1>12. filled # {} => rows # <<>>
  <2>1. filled # {} => n # 0
    BY <1>1
  <2>2. rows = <<>> => 3 * n = 0
    BY <1>8, EmptySeq
  <2> QED
    BY <1>1, <2>1, <2>2
<1>13. ASSUME NEW i \in DOMAIN rows
       PROVE  /\ rows[i].candle = k /\ rows[i].kind \in KindsIn("fills") /\ rows[i].order \in filled
              /\ rows[i].kind = "fill" => rows[i].n = Chunk(rows[i].order)
              /\ rows[i].kind = "state" =>
                   rows[i].n = taken[rows[i].order] + Chunk(rows[i].order)
  <2>1. i \in 1..(3 * n) /\ Third(i) \in 1..n /\ RowOfThird(i) \in 1..3
    BY <1>3, <1>8
  <2>2. /\ rows[i].kind = names[RowOfThird(i)] /\ rows[i].order = of[Third(i)]
        /\ rows[i].n = amounts(of[Third(i)])[RowOfThird(i)] /\ rows[i].candle = k
    BY <1>7, <2>1
  <2>3. of[Third(i)] \in filled
    BY <1>1, <2>1
  <2>4. /\ names[RowOfThird(i)] \in KindsIn("fills")
        /\ names[RowOfThird(i)] = "fill" => RowOfThird(i) = 1
        /\ names[RowOfThird(i)] = "state" => RowOfThird(i) = 2
        /\ amounts(of[Third(i)])[1] = Chunk(of[Third(i)])
        /\ amounts(of[Third(i)])[2] = taken[of[Third(i)]] + Chunk(of[Third(i)])
    BY <1>4, <2>1, Zenon
  <2> QED
    BY <2>2, <2>3, <2>4, Zenon
<1> QED
  BY <1>8, <1>9, <1>10, <1>11, <1>12, <1>13

\* The rows of the expiry: one for each order that rests, saying what it has filled
\* (expire_all, record_expired_orders).
LEMMA ExpiredFacts ==
  ASSUME TypeOK, candles # <<>>, k = Len(candles) + 1, Len(candles) <= NSlots,
         NEW rows, rows = ExpiredRows
  PROVE  /\ rows \in Seq(Rows) /\ InOrder(rows)
         /\ \A i \in DOMAIN rows : /\ rows[i].candle = k /\ rows[i].kind = "expired"
                                   /\ rows[i].order \in book /\ rows[i].n = taken[rows[i].order]
         /\ \A o \in book : Holds(rows, "expired", o)
<1> DEFINE n == Cardinality(book)
           of == Ascending(book)
<1>0. NOrders \in Nat /\ Qty \in Nat /\ NSlots \in Nat
  BY BacktestAssumption
<1>o. \A o \in Orders : o \in Nat /\ o \in 0..NOrders
  BY <1>0 DEF Orders
<1>1. /\ IsFiniteSet(book) /\ n \in Nat /\ of \in [1..n -> book]
      /\ \A x \in book : \E i \in 1..n : of[i] = x
      /\ \A i, j \in 1..n : i < j => of[i] < of[j]
  <2>1. book \in SUBSET Nat /\ NOrders + 1 \in Nat /\ \A x \in book : x < NOrders + 1
    BY <1>0 DEF Orders, TypeOK
  <2> QED
    BY <2>1, AscendingFacts
<1>2. \A t, u \in 1..n : of[t] = of[u] => t = u
  <2>0. \A t \in 1..n : of[t] \in book
    BY <1>1
  <2>1. \A t \in 1..n : of[t] \in Nat
    BY <1>o, <2>0 DEF TypeOK
  <2>2. \A t, u \in 1..n : t < u \/ u < t \/ t = u
    BY <1>1
  <2>3. \A t, u \in 1..n : of[t] < of[u] => of[t] # of[u]
    BY <2>1
  <2> QED
    BY <1>1, <2>2, <2>3
<1>3. candles[Len(candles)].close \in Times /\ k \in 0..(NSlots + 1)
  <2>1. Len(candles) \in Nat /\ Len(candles) >= 1
    BY LenProperties, EmptySeq DEF TypeOK
  <2>2. Len(candles) \in 1..Len(candles)
    BY <2>1
  <2>3. candles[Len(candles)] \in Candles
    BY <2>2, ElementOfSeq DEF TypeOK
  <2> QED
    BY <1>0, <2>1, <2>3 DEF Candles
<1>4. rows = [i \in 1..n |-> Row("expired", of[i], candles[Len(candles)].close, taken[of[i]])]
  BY <1>1 DEF ExpiredRows
<1> HIDE DEF of, n
<1>5. ASSUME NEW i \in 1..n
      PROVE  /\ rows[i] \in Rows /\ rows[i].candle = k /\ rows[i].kind = "expired"
             /\ rows[i].order = of[i] /\ rows[i].n = taken[of[i]] /\ of[i] \in book
  <2>0. of[i] \in book
    BY <1>1
  <2>1. of[i] \in book /\ of[i] \in Orders /\ of[i] \in 0..NOrders
    BY <1>o, <2>0 DEF TypeOK
  <2>2. taken[of[i]] \in 0..Qty
    BY <2>1 DEF TypeOK
  <2>3. rows[i] = Row("expired", of[i], candles[Len(candles)].close, taken[of[i]])
    BY <1>4
  <2> QED
    BY <1>3, <2>1, <2>2, <2>3 DEF Row, Rows, Kinds
<1>6. rows \in Seq(Rows) /\ DOMAIN rows = 1..n
  <2>2. rows = [i \in 1..n |-> rows[i]]
    BY <1>4
  <2> QED
    BY <1>1, <1>5, <2>2, Enumerated
<1>7. InOrder(rows)
  <2>1. \A pair \in Earlier : pair[1] # "expired" /\ pair = <<pair[1], pair[2]>>
    BY DEF Earlier
  <2>2. \A i, j \in DOMAIN rows :
          rows[i].kind = rows[j].kind /\ rows[i].order = rows[j].order => i = j
    BY <1>2, <1>5, <1>6
  <2>3. \A i, j \in DOMAIN rows : ~(<<rows[i].kind, rows[j].kind>> \in Earlier)
    BY <1>5, <1>6 DEF Earlier
  <2>4. \A pair \in Earlier : \A o \in Orders : ~Holds(rows, pair[1], o)
    BY <1>5, <1>6, <2>1 DEF Holds, IsRow
  <2>5. \A i \in DOMAIN rows : rows[i].order \in Orders
    BY <1>5, <1>6 DEF TypeOK
  <2> QED
    BY <2>2, <2>3, <2>4, <2>5 DEF InOrder
<1>8. ASSUME NEW o \in book
      PROVE  Holds(rows, "expired", o)
  <2>1. PICK i \in 1..n : of[i] = o
    BY <1>1
  <2> QED
    BY <1>5, <1>6, <2>1 DEF Holds, IsRow
<1> QED
  BY <1>5, <1>6, <1>7, <1>8

-----------------------------------------------------------------------------
(* The candles of a replay *)

\* Aggregation gives candles in the order of time, each closed before the next opens, and
\* no more than there are slots (aggregate_candles).
LEMMA AggregateFacts ==
  ASSUME NEW loaded \in SUBSET Slots, NEW series, series = AggregateCandles(loaded)
  PROVE  /\ series \in Seq(Candles) /\ Len(series) <= NSlots
         /\ \A i, j \in 1..Len(series) : i < j => series[i].close < series[j].open
<1> DEFINE T == {s \div Span : s \in loaded}
           n == Cardinality(T)
           buckets == Ascending(T)
           Of(b) == {s \in loaded : s \div Span = b}
<1>0. NSlots \in Nat /\ Span \in Nat /\ Span # 0
  BY BacktestAssumption
<1>1. \A s \in loaded : s \in Nat /\ s < NSlots
  BY <1>0 DEF Slots
<1>2. \A s \in loaded : /\ s \div Span \in Nat /\ s \div Span < NSlots
                        /\ Span * (s \div Span) <= s /\ s < Span * (s \div Span) + Span
  BY <1>0, <1>1
<1>3. T \in SUBSET Nat /\ \A b \in T : b < NSlots
  BY <1>2
<1>4. /\ IsFiniteSet(T) /\ n \in Nat /\ buckets \in [1..n -> T]
      /\ \A i, j \in 1..n : i < j => buckets[i] < buckets[j]
  BY <1>0, <1>3, AscendingFacts
<1>5. n <= NSlots
  <2>1. T \subseteq 0..(NSlots - 1)
    BY <1>0, <1>3
  <2>2. /\ IsFiniteSet(0..(NSlots - 1))
        /\ Cardinality(0..(NSlots - 1)) = IF 0 > NSlots - 1 THEN 0 ELSE (NSlots - 1) - 0 + 1
    BY <1>0, FS_Interval
  <2>3. Cardinality(0..(NSlots - 1)) = NSlots
    BY <1>0, <2>2
  <2> QED
    BY <2>1, <2>2, <2>3, FS_Subset
<1>6. ASSUME NEW b \in T
      PROVE  /\ b \in Nat /\ Span * b \in Nat
             /\ Max(Of(b)) \in Nat /\ Max(Of(b)) < NSlots
             /\ Span * b <= Max(Of(b)) /\ Max(Of(b)) < Span * b + Span
  <2>1. Of(b) \in SUBSET Nat /\ Of(b) # {} /\ \A s \in Of(b) : s <= NSlots
    BY <1>0, <1>1
  <2>2. Max(Of(b)) \in Of(b)
    BY <1>0, <2>1, GreatestNatural
  <2>3. Max(Of(b)) \in loaded /\ Max(Of(b)) \div Span = b
    BY <2>2
  <2>4. b \in Nat /\ Span * b \in Nat
    BY <1>0, <1>3
  <2> HIDE DEF Of
  <2> QED
    BY <1>1, <1>2, <2>3, <2>4
<1>7. ASSUME NEW b \in T
      PROVE  /\ Bucket(loaded, b).open = 2 * (Span * b)
             /\ Bucket(loaded, b).close = 2 * Max(Of(b)) + 1
             /\ Bucket(loaded, b) \in Candles
  <2>1. Bucket(loaded, b) = [open |-> 2 * Span * b, close |-> 2 * Max(Of(b)) + 1]
    BY DEF Bucket
  <2>2. 2 * Span * b = 2 * (Span * b)
    <3>1. \A x, y \in Nat : 2 * x * y = 2 * (x * y)
      OBVIOUS
    <3> QED
      BY <1>0, <1>6, <3>1
  <2>3. 2 * (Span * b) \in Times /\ 2 * Max(Of(b)) + 1 \in Times
    <3> DEFINE x == Span * b
               y == Max(Of(b))
    <3>1. x \in Nat /\ y \in Nat /\ y < NSlots /\ x <= y
      BY <1>6
    <3> HIDE DEF x, y
    <3>2. 2 * x \in 0..(2 * NSlots) /\ 2 * y + 1 \in 0..(2 * NSlots)
      BY <1>0, <3>1
    <3> QED
      BY <3>2 DEF x, y, Times
  <2> HIDE DEF Of
  <2> QED
    <3>1. Bucket(loaded, b) = [open |-> 2 * (Span * b), close |-> 2 * Max(Of(b)) + 1]
      BY <2>1, <2>2
    <3> QED
      BY <2>3, <3>1 DEF Candles
<1> HIDE DEF T, n, buckets, Of
<1>8. series = [i \in 1..n |-> Bucket(loaded, buckets[i])]
  BY <1>4 DEF AggregateCandles, buckets, T
<1>9. series \in Seq(Candles) /\ Len(series) = n
  <2>1. \A i \in 1..n : series[i] \in Candles
    BY <1>4, <1>7, <1>8
  <2>2. series = [i \in 1..n |-> series[i]]
    BY <1>8
  <2> QED
    BY <1>4, <2>1, <2>2, Enumerated
<1>10. ASSUME NEW i \in 1..n, NEW j \in 1..n, i < j
       PROVE  series[i].close < series[j].open
  <2> DEFINE a == buckets[i]
             b == buckets[j]
             x == Span * a
             y == Span * b
             z == Max(Of(a))
  <2>1. a \in T /\ b \in T /\ a < b
    BY <1>4, <1>10
  <2>2. a \in Nat /\ b \in Nat
    BY <1>6, <2>1
  <2>3. x + Span <= y
    BY <1>0, <2>1, <2>2
  <2>4. x \in Nat /\ y \in Nat /\ z \in Nat /\ z < x + Span
    BY <1>6, <2>1
  <2>5. series[i].close = 2 * z + 1 /\ series[j].open = 2 * y
    BY <1>7, <1>8, <2>1
  <2> HIDE DEF x, y, z
  <2> QED
    BY <1>0, <2>3, <2>4, <2>5
<1> QED
  BY <1>5, <1>9, <1>10

\* The previous candle closed before the first active one opens (prepare_replay).
LEMMA SplitFacts ==
  ASSUME NEW series \in Seq(Candles), Len(series) <= NSlots,
         \A i, j \in 1..Len(series) : i < j => series[i].close < series[j].open,
         NEW start \in Times, NEW needsPrevious \in BOOLEAN,
         NEW prepared, prepared = Split(series, start, needsPrevious)
  PROVE  /\ prepared.candles \in Seq(Candles) /\ Len(prepared.candles) <= NSlots
         /\ prepared.previous \in Candles \cup {NoCandle}
         /\ prepared.candles # <<>> => prepared.previous.close < prepared.candles[1].open
<1> DEFINE first == ActiveIndex(series, start)
           atOrAfter == {i \in DOMAIN series : series[i].open >= start}
<1>1. Len(series) \in Nat /\ DOMAIN series = 1..Len(series) /\ \A i \in 1..Len(series) : series[i] \in Candles
  BY LenProperties, ElementOfSeq
<1>2. first \in 1..(Len(series) + 1)
  <2>1. atOrAfter \in SUBSET Nat /\ atOrAfter \subseteq 1..Len(series)
    BY <1>1
  <2>2. atOrAfter # {} => Min(atOrAfter) \in 1..Len(series)
    BY <2>1, MinIsLeast
  <2>3. first = IF atOrAfter = {} THEN Len(series) + 1 ELSE Min(atOrAfter)
    BY DEF ActiveIndex
  <2> QED
    BY <1>1, <2>2, <2>3
<1> HIDE DEF first, atOrAfter
<1>3. CASE first > 1
  <2>1. prepared = [previous |-> series[first - 1], candles |-> SubSeq(series, first, Len(series))]
    BY <1>3 DEF Split, first
  <2>2. /\ SubSeq(series, first, Len(series)) \in Seq(Candles)
        /\ Len(SubSeq(series, first, Len(series)))
             = IF first <= Len(series) THEN Len(series) - first + 1 ELSE 0
        /\ \A i \in 1..(Len(series) - first + 1) :
             SubSeq(series, first, Len(series))[i] = series[first + i - 1]
    BY <1>1, <1>2, SubSeqProperties
  <2>3. first - 1 \in 1..Len(series)
    BY <1>1, <1>2, <1>3
  <2>4. ASSUME prepared.candles # <<>>
        PROVE  series[first - 1].close < prepared.candles[1].open
    <3>1. Len(prepared.candles) # 0
      BY <2>1, <2>2, <2>4, EmptySeq
    <3>2. first <= Len(series) /\ first \in 1..Len(series) /\ 1 \in 1..(Len(series) - first + 1)
          /\ first + 1 - 1 = first /\ first - 1 < first
      BY <1>1, <1>2, <2>1, <2>2, <3>1
    <3>3. prepared.candles[1] = series[first]
      BY <2>1, <2>2, <3>2
    <3> QED
      BY <2>3, <3>2, <3>3
  <2>5. Len(prepared.candles) <= NSlots
    BY <1>1, <1>2, <1>3, <2>1, <2>2, BacktestAssumption
  <2> QED
    BY <1>1, <2>1, <2>2, <2>3, <2>4, <2>5
<1>4. CASE first = 1 /\ needsPrevious /\ series # <<>>
  <2>1. prepared = [previous |-> Head(series), candles |-> Tail(series)]
    BY <1>4 DEF Split, first
  <2>2. /\ Head(series) \in Candles /\ Tail(series) \in Seq(Candles) /\ Head(series) = series[1]
        /\ Len(Tail(series)) = Len(series) - 1 /\ Len(series) >= 1
        /\ \A i \in 1..(Len(series) - 1) : Tail(series)[i] = series[i + 1]
    BY <1>1, <1>4, HeadTailProperties, EmptySeq
  <2>3. ASSUME prepared.candles # <<>>
        PROVE  series[1].close < prepared.candles[1].open
    <3>1. Len(prepared.candles) # 0
      BY <2>1, <2>2, <2>3, EmptySeq
    <3>2. 1 \in 1..(Len(series) - 1) /\ 1 + 1 = 2 /\ 1 \in 1..Len(series) /\ 2 \in 1..Len(series)
      BY <1>1, <2>1, <2>2, <3>1
    <3>3. prepared.candles[1] = series[2]
      BY <2>1, <2>2, <3>2
    <3> QED
      BY <3>2, <3>3
  <2>4. Len(prepared.candles) <= NSlots
    BY <1>1, <2>1, <2>2, BacktestAssumption
  <2> QED
    BY <2>1, <2>2, <2>3, <2>4
<1>5. CASE ~(first > 1) /\ ~(first = 1 /\ needsPrevious /\ series # <<>>)
  <2>1. prepared = [previous |-> NoCandle, candles |-> series]
    BY <1>5 DEF Split, first
  <2>2. ASSUME series # <<>>
        PROVE  NoCandle.close < series[1].open
    <3>1. series[1] \in Candles
      BY <1>1, <2>2, EmptySeq
    <3>2. series[1].open \in Times
      BY <3>1 DEF Candles
    <3> QED
      BY <3>2, BacktestAssumption DEF Times, NoCandle
  <2> QED
    BY <2>1, <2>2
<1> QED
  BY <1>3, <1>4, <1>5

-----------------------------------------------------------------------------
(* What the steps do to the record *)

\* The record only grows by equity rows, each in its place.
Kept ==
  /\ log' \in Seq(Rows) /\ EquityInPlace'
  /\ \A i \in DOMAIN log : i \in DOMAIN log' /\ log'[i] = log[i]
  /\ \A i \in DOMAIN log' : i \in DOMAIN log \/ log'[i].kind = "equity"
  /\ \A kind, o : kind # "equity" => (HasRow(kind, o)' <=> HasRow(kind, o))
  /\ \A o : Recorded(o)' = Recorded(o)
  /\ \A kind, o, n : kind # "equity" /\ LastSays(kind, o, n) => LastSays(kind, o, n)'

\* A row of the candle is written while nothing is buffered.
RowAdded(r) ==
  /\ log' = Append(log, r) /\ r \in Rows /\ r.kind # "equity" /\ r.candle = k
  /\ todo # <<>> /\ r.kind = Head(todo).kind /\ r.order = Head(todo).order
  /\ r.kind # "position" => r = Head(todo)
  /\ r.kind = "fill" => pc = "fills" /\ r = Head(todo)
  /\ pc \in {"fills", "output", "expire"} /\ ~Over /\ buffer = <<>>

\* A step that writes nothing keeps the equity where it is.
LEMMA NothingWritten ==
  ASSUME TypeOK, EquityInv, EquityInPlace, log' = log, buffer' = buffer,
         error' = error \/ error' # "strategy",
         (Over' /\ k' = k) \/ (~Over /\ Done' = Done)
  PROVE  EquityInv' /\ Kept
<1>1. Saved' = Saved /\ EquityInPlace'
  BY DEF Saved, EquityBefore, EquityInPlace
<1>2. error' = "strategy" => Over' /\ Saved' = Done'
  BY <1>1 DEF EquityInv, Done
<1>3. ~Over' => Saved' + Len(buffer') = Done'
  BY <1>1 DEF EquityInv
<1>4. \A j \in DOMAIN buffer' : buffer'[j].kind = "equity" /\ buffer'[j].candle = Saved' + j
  BY <1>1 DEF EquityInv
<1>5. EquityInv'
  BY <1>2, <1>3, <1>4 DEF EquityInv
<1>6. Kept
  <2>1. \A kind, o : HasRow(kind, o)' <=> HasRow(kind, o)
    BY DEF HasRow, IsRow
  <2>2. \A o : Recorded(o)' = Recorded(o)
    BY DEF Recorded, FillsOf
  <2>3. \A kind, o, n : LastSays(kind, o, n) => LastSays(kind, o, n)'
    BY DEF LastSays, IsRow
  <2> QED
    BY <1>1, <2>1, <2>2, <2>3 DEF Kept, TypeOK
<1> QED
  BY <1>5, <1>6

\* A flush writes the equity of all candles that are done (flush_equity_buffer).
LEMMA BufferWritten ==
  ASSUME TypeOK, EquityInv, EquityInPlace, ~Over, log' = log \o buffer, buffer' = <<>>,
         Done' = Done, error' = "strategy" => Over'
  PROVE  EquityInv' /\ Kept
<1>1. log \in Seq(Rows) /\ buffer \in Seq(Rows)
  BY DEF TypeOK
<1>2. \A j \in DOMAIN buffer : buffer[j].kind = "equity" /\ buffer[j].candle = Saved + j
  BY DEF EquityInv
<1>3. Kept /\ Saved' = Saved + Len(buffer) /\ Saved \in Nat /\ Len(buffer) \in Nat
  BY <1>1, <1>2, BatchLogged DEF Kept
<1>4. Saved + Len(buffer) = Done
  BY DEF EquityInv
<1>5. Len(buffer') = 0 /\ \A j \in DOMAIN buffer' : FALSE
  BY EmptySeq
<1>6. Saved' + Len(buffer') = Done'
  <2>1. \A x, y \in Nat : (x + y) + 0 = x + y
    OBVIOUS
  <2> QED
    BY <1>3, <1>4, <1>5, <2>1, Zenon
<1>7. Saved' = Done'
  BY <1>3, <1>4, Zenon
<1>8. EquityInv'
  BY <1>5, <1>6, <1>7 DEF EquityInv
<1> QED
  BY <1>3, <1>8

\* A row of the candle stands behind the equity of the candles before it
\* (record_fill, record_order and the others).
LEMMA RowWritten ==
  ASSUME TypeOK, EquityInv, EquityInPlace, NEW r, RowAdded(r), buffer' = buffer,
         Done' = Done, error' = "strategy" => error = "strategy"
  PROVE  EquityInv' /\ EquityInPlace'
<1>1. log \in Seq(Rows) /\ r \in Rows /\ log' = Append(log, r) /\ r.kind # "equity"
  BY DEF TypeOK, RowAdded
<1>2. Saved' = Saved /\ (Saved = (IF r.candle = 0 THEN 0 ELSE r.candle - 1) => EquityInPlace')
  BY <1>1, RowLogged
<1>3. Saved + Len(buffer) = Done /\ error # "strategy" /\ Saved \in Nat /\ Len(buffer) = 0
  <2>1. ~Over /\ buffer = <<>>
    BY DEF RowAdded
  <2>2. Saved \in Nat
    <3>1. Len(log) \in Nat /\ \A i \in (Len(log) + 1)..Len(log) : log[i].kind = "equity"
      BY <1>1, LenProperties
    <3> QED
      BY <3>1, EquityCount, EquityCounts
  <2> QED
    BY <2>1, <2>2, EmptySeq DEF EquityInv
<1>4. Saved = Done
  <2>1. \A x \in Nat : x + 0 = x
    OBVIOUS
  <2> QED
    BY <1>3, <2>1, Zenon
<1>5. EquityInPlace'
  BY <1>2, <1>4 DEF RowAdded, Done
<1>6. EquityInv'
  BY <1>2, <1>3 DEF EquityInv, RowAdded
<1> QED
  BY <1>5, <1>6

\* Each step writes nothing, the equity that is due, or one row of the candle, and keeps
\* the equity in place.
LEMMA RecordStays ==
  ASSUME TypeOK, FlowInv, EquityInv, EquityInPlace, TodoInv, Next
  PROVE  EquityInv' /\ EquityInPlace' /\ (Kept \/ \E r : RowAdded(r))
<1>1. CASE PrepareReplay \/ CreateRun \/ BeginRun
  BY <1>1, NothingWritten DEF PrepareReplay, CreateRun, BeginRun, Done, Over, Kept
<1>2. CASE OnStart
  <2>1. k = 0 /\ ~Over
    BY <1>2 DEF OnStart, FlowInv, Over
  <2>2. CASE error' = error /\ k' \in {0, 1}
    BY <1>2, <2>1, <2>2, NothingWritten DEF OnStart, Done, Kept
  <2>3. CASE Return("strategy") /\ UNCHANGED <<todo, k>>
    <3>1. log = <<>> /\ buffer = <<>> /\ log' = log /\ buffer' = buffer
      BY <1>2 DEF OnStart, FlowInv
    <3>2. Saved = Done
      <4>1. Saved + Len(buffer) = Done /\ Saved \in Nat
        <5>1. Len(log) \in Nat /\ \A i \in (Len(log) + 1)..Len(log) : log[i].kind = "equity"
          BY LenProperties DEF TypeOK
        <5> QED
          BY <2>1, <5>1, EquityCount, EquityCounts DEF EquityInv
      <4> QED
        BY <3>1, <4>1, EmptySeq
    <3>3. Kept /\ Saved' = Saved
      <4>1. EquityInv /\ EquityInPlace' /\ Saved' = Saved
        BY <3>1 DEF Saved, EquityBefore, EquityInPlace
      <4>2. \A kind, o : HasRow(kind, o)' <=> HasRow(kind, o)
        BY <3>1 DEF HasRow, IsRow
      <4>3. \A o : Recorded(o)' = Recorded(o)
        BY <3>1 DEF Recorded, FillsOf
      <4>4. \A kind, o, n : LastSays(kind, o, n) => LastSays(kind, o, n)'
        BY <3>1 DEF LastSays, IsRow
      <4> QED
        BY <3>1, <4>1, <4>2, <4>3, <4>4 DEF Kept, TypeOK
    <3>4. EquityInv'
      BY <2>3, <3>1, <3>2, <3>3 DEF EquityInv, Return, Over, Done
    <3> QED
      BY <3>3, <3>4 DEF Kept
  <2> QED
    BY <1>2, <2>1, <2>2, <2>3 DEF OnStart
<1>3. CASE TakeCandle
  <2>1. ~Over /\ k' = k
    BY <1>3 DEF TakeCandle, Over
  <2>2. CASE log' = log /\ buffer' = buffer /\ error' = error
    BY <2>1, <2>2, NothingWritten DEF Done, Kept
  <2>3. CASE FlushThen("fills")
    BY <2>1, <2>3, BufferWritten DEF FlushThen, Done, Kept, EquityInv
  <2>4. CASE FlushFails
    BY <2>1, <2>4, NothingWritten DEF FlushFails, Return, Over, Done, Kept
  <2> QED
    BY <1>3, <2>2, <2>3, <2>4 DEF TakeCandle
<1>4. CASE MatchFails \/ StrategyFails
  <2>1. ~Over /\ k' = k
    BY <1>4 DEF MatchFails, StrategyFails, Over
  <2>2. CASE FlushFails
    BY <2>1, <2>2, NothingWritten DEF FlushFails, Return, Over, Done, Kept
  <2>3. CASE log' = log \o buffer /\ buffer' = <<>> /\ pc' = "failing"
    BY <2>1, <2>3, BufferWritten DEF Over, Done, Kept
  <2> QED
    BY <1>4, <2>2, <2>3 DEF MatchFails, StrategyFails, FlushAndReturn, Return
<1>5. CASE \E r : RowAdded(r) /\ buffer' = buffer /\ Done' = Done
                  /\ (error' = "strategy" => error = "strategy")
  BY <1>5, RowWritten
<1> DEFINE Writes == RecordFill \/ RecordPosition \/ AcceptAndSubmit \/ RecordRow \/ Expire
<1>6. ASSUME Writes, ~(log' = log)
      PROVE  \E r : RowAdded(r) /\ buffer' = buffer /\ Done' = Done
                    /\ (error' = "strategy" => error = "strategy")
  <2>1. pc \in {"fills", "output", "expire"} /\ ~Over /\ buffer = <<>> /\ buffer' = buffer
    BY <1>6 DEF RecordFill, RecordPosition, AcceptAndSubmit, RecordRow, Expire, FlowInv, Over
  <2>2. todo # <<>>
    BY <1>6 DEF RecordFill, RecordPosition, AcceptAndSubmit, RecordRow, Expire, FlowInv
  <2>3. Head(todo) \in Rows /\ Head(todo).candle = k /\ Head(todo).kind \in KindsIn(pc)
        /\ (Head(todo).kind # "decision" => Head(todo).order \in Orders)
    <3>1. 1 \in DOMAIN todo /\ todo[1] = Head(todo) /\ Head(todo) \in Rows
          /\ (Head(todo).kind # "decision" => Head(todo).order \in Orders)
      BY <2>1, <2>2, TailInOrder DEF TypeOK, TodoInv
    <3> QED
      BY <2>1, <3>1 DEF FlowInv
  <2>4. Head(todo).kind # "equity" /\ (Head(todo).kind = "fill" => pc = "fills")
    BY <2>3 DEF KindsIn
  <2>5. Done' = Done
    BY <1>6 DEF RecordFill, RecordPosition, AcceptAndSubmit, RecordRow, Expire, WriteNext,
                AfterLast, Done, FlowInv
  <2>6. error' = "strategy" => error = "strategy"
    BY <1>6 DEF RecordFill, RecordPosition, AcceptAndSubmit, RecordRow, Expire, WriteNext, Return
  <2>7. CASE log' = Append(log, Head(todo))
    BY <2>1, <2>2, <2>3, <2>4, <2>5, <2>6, <2>7 DEF RowAdded
  <2>8. CASE RecordPosition
    <3> DEFINE r == [Head(todo) EXCEPT !.n = portfolio[Head(todo).order]]
    <3>1. portfolio[Head(todo).order] \in 0..Qty
      BY <2>3, <2>8 DEF RecordPosition, TypeOK
    <3>2. /\ r \in Rows /\ r.kind = Head(todo).kind /\ r.candle = Head(todo).candle
          /\ r.order = Head(todo).order
      BY <2>3, <3>1 DEF Rows
    <3>3. log' = Append(log, r) /\ Head(todo).kind = "position"
      BY <2>8 DEF RecordPosition, WriteNext
    <3> HIDE DEF r
    <3>4. RowAdded(r)
      BY <2>1, <2>2, <2>3, <3>2, <3>3 DEF RowAdded
    <3> QED
      BY <2>1, <2>5, <2>6, <3>4
  <2> QED
    BY <1>6, <2>7, <2>8 DEF RecordFill, AcceptAndSubmit, RecordRow, Expire, WriteNext
<1>7. CASE Writes /\ ~(log' = log)
  BY <1>5, <1>6, <1>7
<1>8. ASSUME Writes, log' = log
      PROVE  pc = "expire" /\ pc' = "ended" /\ k' = k /\ buffer' = buffer /\ error' = error
  <2>1. CASE Expire /\ pc' = "ended"
    BY <1>8, <2>1 DEF Expire
  <2>2. CASE ~(Expire /\ pc' = "ended")
    <3>1. \E r : log' = Append(log, r)
      BY <1>8, <2>2 DEF RecordFill, RecordPosition, AcceptAndSubmit, RecordRow, Expire, WriteNext
    <3>2. Len(log) \in Nat /\ Len(log') = Len(log) + 1
      BY <3>1, LenProperties DEF TypeOK
    <3> QED
      BY <1>8, <3>2
  <2> QED
    BY <2>1, <2>2
<1>9. CASE Writes /\ log' = log
  BY <1>8, <1>9, NothingWritten DEF Over, Kept
<1>10. CASE RowFails \/ MarkFails
  BY <1>10, NothingWritten DEF RowFails, MarkFails, Return, Over, Kept
<1>11. CASE Complete \/ Fail \/ Crash
  BY <1>11, NothingWritten DEF Complete, Fail, Crash, Over, Kept
<1>12. CASE OnCandle
  <2>1. ~Over /\ k' = k
    BY <1>12 DEF OnCandle, Over
  <2>2. CASE log' = log /\ buffer' = buffer /\ error' = error
    BY <2>1, <2>2, NothingWritten DEF Done, Kept
  <2>3. CASE FlushThen("output")
    BY <2>1, <2>3, BufferWritten DEF FlushThen, Done, Kept, EquityInv
  <2>4. CASE FlushFails
    BY <2>1, <2>4, NothingWritten DEF FlushFails, Return, Over, Done, Kept
  <2> QED
    BY <1>12, <2>2, <2>3, <2>4 DEF OnCandle
<1>13. CASE FinishReplay
  <2>1. ~Over /\ k' = k
    BY <1>13 DEF FinishReplay, Over
  <2>2. CASE FlushThen("expire")
    BY <2>1, <2>2, BufferWritten DEF FlushThen, Done, Kept, EquityInv
  <2>3. CASE FlushFails
    BY <2>1, <2>3, NothingWritten DEF FlushFails, Return, Over, Done, Kept
  <2> QED
    BY <1>13, <2>2, <2>3 DEF FinishReplay
<1>14. CASE BufferEquity
  <2> DEFINE row == Row("equity", 0, candles[k].close, 0)
             buffered == Append(buffer, row)
  <2>1. ~Over /\ k \in 1..Len(candles) /\ Len(candles) \in Nat
    BY <1>14, LenProperties DEF BufferEquity, Over, FlowInv, TypeOK
  <2>2. row \in Rows /\ row.kind = "equity" /\ row.candle = k
    <3>1. candles[k] \in Candles
      BY <2>1, ElementOfSeq DEF TypeOK
    <3>2. candles[k].close \in Times /\ 0 \in 0..NOrders /\ 0 \in 0..Qty /\ k \in 0..(NSlots + 1)
      BY <2>1, <3>1, BacktestAssumption DEF Candles, FlowInv
    <3> QED
      BY <3>2 DEF Row, Rows, Kinds
  <2>3. Saved + Len(buffer) = Done /\ Done = k - 1 /\ Saved \in Nat /\ Len(buffer) \in Nat
    <3>1. Len(log) \in Nat /\ \A i \in (Len(log) + 1)..Len(log) : log[i].kind = "equity"
      BY LenProperties DEF TypeOK
    <3> QED
      BY <2>1, <3>1, EquityCount, EquityCounts, LenProperties DEF EquityInv, Done, TypeOK
  <2>4. /\ buffered \in Seq(Rows) /\ Len(buffered) = Len(buffer) + 1
        /\ DOMAIN buffer = 1..Len(buffer) /\ DOMAIN buffered = 1..(Len(buffer) + 1)
        /\ buffered[Len(buffer) + 1] = row
        /\ \A j \in 1..Len(buffer) : buffered[j] = buffer[j]
    BY <2>2, AppendProperties, LenProperties DEF TypeOK
  <2> HIDE DEF row, buffered
  <2>5. ASSUME NEW j \in DOMAIN buffered
        PROVE  buffered[j].kind = "equity" /\ buffered[j].candle = Saved + j
    <3>1. CASE j \in DOMAIN buffer
      BY <2>4, <3>1 DEF EquityInv
    <3>2. CASE j = Len(buffer) + 1
      <4>1. \A x, y \in Nat : x + y = k - 1 => x + (y + 1) = k
        BY <2>1
      <4>2. Saved + (Len(buffer) + 1) = k
        BY <2>3, <4>1
      <4> QED
        BY <2>2, <2>4, <3>2, <4>2
    <3> QED
      BY <2>3, <2>4, <3>1, <3>2
  <2>6. CASE log' = log \o buffered /\ buffer' = <<>> /\ k' = k + 1 /\ error' = error
    <3>1. Kept /\ Saved' = Saved + Len(buffered)
      <4>1. log \in Seq(Rows) /\ buffered \in Seq(Rows)
        BY <2>4 DEF TypeOK
      <4> QED
        BY <2>5, <2>6, <4>1, BatchLogged DEF Kept
    <3>2. Done' = k
      BY <2>1, <2>6 DEF Done
    <3>3. Saved' = k /\ Len(buffer') = 0 /\ Saved' + Len(buffer') = k
      <4>1. \A x, y \in Nat : x + y = k - 1 => x + (y + 1) = k
        BY <2>1
      <4>2. Saved' = k
        BY <2>3, <2>4, <3>1, <4>1, Zenon
      <4> QED
        BY <2>1, <2>6, <4>2, EmptySeq
    <3>4. error' # "strategy" /\ \A j \in DOMAIN buffer' : FALSE
      BY <2>1, <2>6, EmptySeq DEF EquityInv
    <3>5. EquityInv'
      BY <3>2, <3>3, <3>4 DEF EquityInv
    <3> QED
      BY <3>1, <3>5 DEF Kept
  <2>7. ASSUME log' = log
        PROVE  Kept /\ Saved' = Saved
    <3>1. EquityInPlace' /\ Saved' = Saved
      BY <2>7 DEF Saved, EquityBefore, EquityInPlace
    <3>2. \A kind, o : HasRow(kind, o)' <=> HasRow(kind, o)
      BY <2>7 DEF HasRow, IsRow
    <3>3. \A o : Recorded(o)' = Recorded(o)
      BY <2>7 DEF Recorded, FillsOf
    <3>4. \A kind, o, n : LastSays(kind, o, n) => LastSays(kind, o, n)'
      BY <2>7 DEF LastSays, IsRow
    <3> QED
      BY <2>7, <3>1, <3>2, <3>3, <3>4 DEF Kept, TypeOK
  <2>8. CASE log' = log /\ buffer' = buffered /\ Over' /\ error' = "storage"
    BY <2>5, <2>7, <2>8 DEF EquityInv, Kept
  <2>9. CASE log' = log /\ buffer' = buffered /\ k' = k + 1 /\ error' = error
    <3>1. Done' = k /\ error' # "strategy"
      BY <2>1, <2>9 DEF Done, EquityInv
    <3>2. Saved' + Len(buffer') = k
      <4>1. \A x, y \in Nat : x + y = k - 1 => x + (y + 1) = k
        BY <2>1
      <4>2. Saved + (Len(buffer) + 1) = k
        BY <2>3, <4>1, Zenon
      <4> QED
        BY <2>4, <2>7, <2>9, <4>2
    <3> QED
      BY <2>5, <2>7, <2>9, <3>1, <3>2 DEF EquityInv, Kept
  <2> QED
    BY <1>14, <2>6, <2>8, <2>9 DEF BufferEquity, Return, Over, buffered, row
<1> QED
  BY <1>1, <1>2, <1>3, <1>4, <1>7, <1>9, <1>10, <1>11, <1>12, <1>13, <1>14 DEF Next

-----------------------------------------------------------------------------
(* The flow of the replay *)

\* The next row to write, and what is left behind it.
LEMMA NextRow ==
  ASSUME TypeOK, FlowInv, TodoInv, ~Over, todo # <<>>
  PROVE  /\ Head(todo) \in Rows /\ Head(todo).candle = k /\ Head(todo).kind \in KindsIn(pc)
         /\ 1 \in DOMAIN todo /\ todo[1] = Head(todo)
         /\ Head(todo).kind # "decision" => Head(todo).order \in Orders
         /\ Tail(todo) \in Seq(Rows) /\ InOrder(Tail(todo))
         /\ \A i \in DOMAIN Tail(todo) : i + 1 \in DOMAIN todo /\ Tail(todo)[i] = todo[i + 1]
         /\ Len(todo) > 1 <=> Tail(todo) # <<>>
<1>1. /\ Head(todo) \in Rows /\ 1 \in DOMAIN todo /\ todo[1] = Head(todo)
      /\ Tail(todo) \in Seq(Rows) /\ InOrder(Tail(todo))
      /\ Head(todo).kind # "decision" => Head(todo).order \in Orders
      /\ \A i \in DOMAIN Tail(todo) : i + 1 \in DOMAIN todo /\ Tail(todo)[i] = todo[i + 1]
  BY TailInOrder DEF TypeOK, TodoInv
<1>2. Len(Tail(todo)) = Len(todo) - 1 /\ Len(todo) \in Nat
  BY HeadTailProperties, LenProperties DEF TypeOK
<1>3. Tail(todo) # <<>> <=> Len(Tail(todo)) > 0
  <2>1. Tail(todo) = <<>> => Len(Tail(todo)) = 0
    BY EmptySeq
  <2>2. Tail(todo) # <<>> => Len(Tail(todo)) \in Nat \ {0}
    BY <1>1, EmptySeq
  <2> QED
    BY <2>1, <2>2
<1> QED
  BY <1>1, <1>2, <1>3 DEF FlowInv

\* At the strategy everything that was placed is on the record: orders 1 to m.
LEMMA PlacedSoFar ==
  ASSUME TypeOK, PlacedInv, ~Over, todo = <<>>
  PROVE  \E m \in 0..NOrders : Placed = 1..m
<1>0. \A o : ~ToWrite("intent", o)
  <2>1. Len(todo) = 0 /\ DOMAIN todo = 1..Len(todo)
    BY EmptySeq, LenProperties DEF TypeOK
  <2> QED
    BY <2>1 DEF ToWrite
<1>1. Placed = {o \in Orders : HasRow("intent", o) \/ ToWrite("intent", o)}
  BY <1>0 DEF Placed, HasRow, IsRow
<1>2. PICK m \in 0..NOrders : {o \in Orders : HasRow("intent", o) \/ ToWrite("intent", o)} = 1..m
  BY DEF PlacedInv
<1> QED
  BY <1>1, <1>2

\* What the strategy can put out at this point.
LEMMA SomeOutput ==
  ASSUME TypeOK, FlowInv, PlacedInv, pc \in {"start", "strategy"}, NEW output \in Outputs
  PROVE  /\ output \in Seq(Rows) /\ InOrder(output)
         /\ \A i \in DOMAIN output : output[i].candle = k /\ output[i].kind \in KindsIn("output")
         /\ \E m \in 0..NOrders : \E n \in m..NOrders :
              /\ Placed = 1..m
              /\ \A o \in Orders : \A kind :
                   Holds(output, kind, o)
                     <=> o \in (m + 1)..n /\ kind \in {"intent", "order", "accepted"}
<1>1. ~Over /\ todo = <<>> /\ candles # <<>> /\ k <= Len(candles) /\ Len(candles) <= NSlots
  <2>1. ~Over /\ todo = <<>> /\ candles # <<>> /\ Len(candles) <= NSlots
    BY DEF FlowInv, Over
  <2>2. Len(candles) \in Nat
    BY LenProperties DEF TypeOK
  <2>3. k <= Len(candles)
    BY <2>2 DEF FlowInv
  <2> QED
    BY <2>1, <2>3
<1>2. PICK m \in 0..NOrders : Placed = 1..m
  BY <1>1, PlacedSoFar
<1>3. Cardinality(Placed) = m /\ m \in Nat /\ NOrders \in Nat
  <2>1. m \in Nat /\ NOrders \in Nat
    BY BacktestAssumption
  <2>2. Cardinality(1..m) = IF 1 > m THEN 0 ELSE m - 1 + 1
    BY <2>1, FS_Interval
  <2> QED
    BY <1>2, <2>1, <2>2
<1>4. PICK decides \in BOOLEAN, emitted \in 0..(NOrders - m) : output = OutputRows(decides, emitted)
  BY <1>3 DEF Outputs
<1>5. /\ output \in Seq(Rows) /\ InOrder(output)
      /\ \A i \in DOMAIN output : output[i].candle = k /\ output[i].kind \in KindsIn("output")
      /\ \A o \in Orders : \A kind :
           Holds(output, kind, o)
             <=> o \in (m + 1)..(m + emitted) /\ kind \in {"intent", "order", "accepted"}
  BY <1>1, <1>2, <1>4, OutputFacts
<1>6. m + emitted \in m..NOrders
  BY <1>3
<1> QED
  BY <1>2, <1>5, <1>6

\* What is filled by a candle: orders that rest, and are not filled yet.
LEMMA SomeFilled ==
  ASSUME TypeOK, PlacedInv, pc = "candle", NEW touched \in SUBSET (Eligible \ Market)
  PROVE  Filled(touched) \in SUBSET Eligible /\ Eligible \subseteq book
         /\ \A o \in Filled(touched) : o \in Orders /\ taken[o] < Qty
<1>1. Filled(touched) \in SUBSET Eligible /\ Eligible \subseteq book /\ book \subseteq Orders
  BY DEF Filled, Eligible, TypeOK
<1>2. \A o \in book : taken[o] < Qty
  BY <1>1 DEF PlacedInv, Over
<1> QED
  BY <1>1, <1>2

\* A run is prepared, created and begun with nothing in hand.
LEMMA BeginFlow ==
  ASSUME TypeOK, FlowInv, PrepareReplay \/ CreateRun \/ BeginRun
  PROVE  TypeOK' /\ FlowInv'
<1>1. CASE PrepareReplay
  <2>1. PICK dataset \in SUBSET Slots, start \in Times, end \in Times, needsPrevious \in BOOLEAN :
          LET prepared == Split(AggregateCandles(Loaded(dataset, start, end)), start, needsPrevious)
          IN IF prepared.candles = <<>>
             THEN pc' = "ended" /\ UNCHANGED replay
             ELSE /\ pc' = "create"
                  /\ candles' = prepared.candles
                  /\ previous' = prepared.previous
    BY <1>1 DEF PrepareReplay
  <2> DEFINE series == AggregateCandles(Loaded(dataset, start, end))
             prepared == Split(series, start, needsPrevious)
  <2>2. /\ series \in Seq(Candles) /\ Len(series) <= NSlots
        /\ \A i, j \in 1..Len(series) : i < j => series[i].close < series[j].open
    <3>1. Loaded(dataset, start, end) \in SUBSET Slots
      BY DEF Loaded
    <3> QED
      BY <3>1, AggregateFacts
  <2>3. /\ prepared.candles \in Seq(Candles) /\ Len(prepared.candles) <= NSlots
        /\ prepared.previous \in Candles \cup {NoCandle}
    BY <2>2, SplitFacts
  <2>4. IF prepared.candles = <<>>
        THEN pc' = "ended" /\ UNCHANGED replay
        ELSE pc' = "create" /\ candles' = prepared.candles /\ previous' = prepared.previous
    BY <2>1
  <2> HIDE DEF prepared
  <2>5. k = 0 /\ \A n \in Nat : 0 \in 0..(n + 1)
    BY <1>1 DEF PrepareReplay, FlowInv
  <2>6. CASE prepared.candles = <<>>
    BY <1>1, <2>4, <2>6 DEF PrepareReplay, TypeOK, FlowInv, replay, orders, Over
  <2>7. CASE prepared.candles # <<>>
    <3>1. Len(candles') \in Nat /\ candles' # <<>> /\ candles' \in Seq(Candles) /\ Len(candles') <= NSlots
          /\ previous' \in Candles \cup {NoCandle} /\ pc' = "create"
      BY <2>3, <2>4, <2>7, LenProperties
    <3>2. TypeOK'
      BY <1>1, <2>5, <3>1 DEF PrepareReplay, TypeOK, orders
    <3>3. FlowInv'
      BY <1>1, <2>5, <3>1 DEF PrepareReplay, FlowInv, orders, Over, TypeOK
    <3> QED
      BY <3>2, <3>3
  <2> QED
    BY <2>6, <2>7
<1>2. CASE CreateRun
  BY <1>2 DEF CreateRun, TypeOK, FlowInv, replay, orders, Over, KindsIn
<1>3. CASE BeginRun
  BY <1>3 DEF BeginRun, TypeOK, FlowInv, replay, orders, Over, KindsIn
<1> QED
  BY <1>1, <1>2, <1>3

\* A step that ends the replay, or is about to, has nothing else to keep.
LEMMA OverFlow ==
  ASSUME TypeOK, FlowInv, Over', pc' = "failing" => pc \notin {"idle", "create", "begin", "ended"},
         status' \in {"none", "created", "running", "completed", "failed"},
         pc' = "failing" => status' = status,
         log' \in Seq(Rows), UNCHANGED <<candles, previous, k, eligible, taken, portfolio>>,
         todo' \in Seq(Rows), book' \subseteq Orders,
         buffer' \in Seq(Rows), Len(buffer') <= Batch,
         error' \in {"none", "storage", "simulation", "strategy"}
  PROVE  TypeOK' /\ FlowInv'
<1>1. TypeOK'
  BY DEF TypeOK, Over
<1>2. FlowInv'
  BY DEF FlowInv, Over
<1> QED
  BY <1>1, <1>2

\* The strategy has its say.
LEMMA OutputFlow ==
  ASSUME TypeOK, FlowInv, PlacedInv, log' \in Seq(Rows), OnStart \/ OnCandle \/ StrategyFails
  PROVE  TypeOK' /\ FlowInv'
<1>0. Batch \in Nat /\ Batch >= 1 /\ Len(candles) \in Nat /\ Len(<<>>) = 0
  BY BacktestAssumption, LenProperties, EmptySeq DEF TypeOK
<1>e. <<>> \in Seq(Rows) /\ (DOMAIN <<>>) = {}
  BY EmptySeq
<1>1. CASE Over'
  <2>1. todo' = todo /\ book' = book /\ pc' = "failing" /\ status' = status /\ k' = k
        /\ (buffer' = buffer \/ buffer' = <<>>) /\ error' \in {"storage", "strategy"}
        /\ pc \in {"start", "strategy"} /\ UNCHANGED <<candles, previous, eligible, taken, portfolio>>
    BY <1>1 DEF OnStart, OnCandle, StrategyFails, FlushAndReturn, FlushFails, FlushThen, Return,
                Over, replay, orders
  <2>2. pc' = "failing" => pc \notin {"idle", "create", "begin", "ended"}
    BY <2>1
  <2>3. buffer' \in Seq(Rows) /\ Len(buffer') <= Batch
    <3>1. CASE buffer' = buffer
      BY <3>1 DEF TypeOK
    <3>2. CASE buffer' = <<>>
      BY <1>0, <1>e, <3>2
    <3> QED
      BY <2>1, <3>1, <3>2
  <2>4. /\ status' \in {"none", "created", "running", "completed", "failed"}
        /\ pc' = "failing" => status' = status
        /\ todo' \in Seq(Rows) /\ book' \subseteq Orders
        /\ error' \in {"none", "storage", "simulation", "strategy"}
    BY <2>1 DEF TypeOK
  <2> QED
    BY <1>1, <2>1, <2>2, <2>3, <2>4, OverFlow
<1>2. CASE ~Over' /\ pc' # "output"
  <2>1. /\ OnStart => pc = "start" /\ k' = 1 /\ pc' = "candle" /\ todo' = <<>> /\ buffer' = buffer
                      /\ error' = error
        /\ OnCandle => pc = "strategy" /\ k' = k /\ pc' = "equity" /\ todo' = todo /\ buffer' = buffer
                      /\ error' = error
        /\ ~StrategyFails /\ UNCHANGED <<status, replay, orders, portfolio>>
    BY <1>2 DEF OnStart, OnCandle, StrategyFails, FlushAndReturn, FlushFails, FlushThen, Return, Over
  <2>2. TypeOK'
    <3>1. CASE OnStart
      BY <1>0, <1>e, <2>1, <3>1 DEF TypeOK, replay, orders
    <3>2. CASE OnCandle
      BY <1>0, <2>1, <3>2 DEF TypeOK, replay, orders
    <3> QED
      BY <2>1, <3>1, <3>2
  <2>3. FlowInv'
    <3>1. CASE OnStart
      BY <1>0, <1>e, <2>1, <3>1 DEF FlowInv, TypeOK, replay, orders, Over, KindsIn
    <3>2. CASE OnCandle
      BY <1>0, <2>1, <3>2 DEF FlowInv, TypeOK, replay, orders, Over, KindsIn
    <3> QED
      BY <2>1, <3>1, <3>2
  <2> QED
    BY <2>2, <2>3
<1>3. CASE pc' = "output"
  <2>1. /\ pc \in {"start", "strategy"}
        /\ pc = "start" => k = 0 /\ buffer = <<>> /\ k' = 0
        /\ pc = "strategy" => k' = k
    BY <1>3 DEF OnStart, OnCandle, StrategyFails, FlushAndReturn, FlushFails, FlushThen, Return,
                FlowInv
  <2>2. k' = k
    BY <2>1
  <2>3. /\ \E output \in Outputs : todo' = output /\ output # <<>>
        /\ buffer' = <<>> /\ error' = error /\ UNCHANGED <<status, replay, orders, portfolio>>
    <3>1. CASE OnStart
      BY <1>3, <2>1, <3>1 DEF OnStart, Return
    <3>2. CASE OnCandle
      BY <1>3, <3>2 DEF OnCandle, FlushFails, FlushThen, Return
    <3>3. CASE StrategyFails
      BY <1>3, <3>3 DEF StrategyFails, FlushAndReturn, FlushFails, Return
    <3> QED
      BY <3>1, <3>2, <3>3
  <2>4. /\ todo' \in Seq(Rows) /\ todo' # <<>>
        /\ \A i \in DOMAIN todo' : todo'[i].candle = k' /\ todo'[i].kind \in KindsIn("output")
    BY <2>1, <2>2, <2>3, SomeOutput
  <2>5. TypeOK'
    BY <1>0, <1>3, <1>e, <2>2, <2>3, <2>4 DEF TypeOK, replay, orders
  <2>6. FlowInv'
    <3>1. status = "running" /\ candles # <<>> /\ Len(candles) <= NSlots /\ k <= Len(candles)
      BY <1>0, <2>1 DEF FlowInv
    <3> QED
      BY <1>0, <1>3, <2>2, <2>3, <2>4, <3>1 DEF FlowInv, replay, Over
  <2> QED
    BY <2>5, <2>6
<1> QED
  BY <1>1, <1>2, <1>3

\* A candle is matched against the book.
LEMMA CandleFlow ==
  ASSUME TypeOK, FlowInv, PlacedInv, log' \in Seq(Rows), TakeCandle \/ MatchFails
  PROVE  TypeOK' /\ FlowInv'
<1>0. Batch \in Nat /\ Batch >= 1 /\ Len(candles) \in Nat /\ Len(<<>>) = 0 /\ <<>> \in Seq(Rows)
  BY BacktestAssumption, LenProperties, EmptySeq DEF TypeOK
<1>1. /\ pc = "candle" /\ ~Over /\ k \in 1..Len(candles) /\ k' = k /\ UNCHANGED <<status, replay>>
      /\ eligible' = eligible /\ portfolio' = portfolio /\ status = "running" /\ todo = <<>>
      /\ candles # <<>> /\ Len(candles) <= NSlots /\ Len(buffer) < Batch
  <2>1. /\ pc = "candle" /\ ~Over /\ k <= Len(candles) /\ k' = k /\ UNCHANGED <<status, replay>>
        /\ eligible' = eligible /\ portfolio' = portfolio
    BY DEF TakeCandle, MatchFails, orders, Over
  <2>2. /\ k >= 1 /\ status = "running" /\ todo = <<>> /\ candles # <<>> /\ Len(candles) <= NSlots
        /\ Len(buffer) < Batch
    BY <2>1 DEF FlowInv
  <2>3. k \in 1..Len(candles)
    BY <1>0, <2>1, <2>2 DEF TypeOK
  <2> QED
    BY <2>1, <2>2, <2>3
<1>2. ASSUME TakeCandle
      PROVE  taken' \in [Orders -> 0..Qty] /\ book' \subseteq Orders
             /\ (pc' = "fills" =>
                   /\ todo' \in Seq(Rows) /\ todo' # <<>>
                   /\ \A i \in DOMAIN todo' :
                        todo'[i].candle = k' /\ todo'[i].kind \in KindsIn("fills"))
             /\ (pc' # "fills" => todo' = todo)
             /\ pc' \in {"strategy", "fills", "failing"} /\ (pc' = "strategy" => buffer' = buffer)
             /\ (buffer' = buffer \/ buffer' = <<>>) /\ (pc' = "fills" => buffer' = <<>>)
             /\ error' \in {error, "storage"}
  <2>1. PICK touched \in SUBSET (Eligible \ Market) :
          /\ taken' = [o \in Orders |-> taken[o] + (IF o \in Filled(touched) THEN Chunk(o) ELSE 0)]
          /\ book' = {o \in book : taken'[o] < Qty}
          /\ IF Filled(touched) = {}
             THEN pc' = "strategy" /\ UNCHANGED <<log, buffer, todo, error>>
             ELSE \/ FlushThen("fills") /\ todo' = FillRows(Filled(touched))
                  \/ FlushFails
    BY <1>2 DEF TakeCandle
  <2>2. Filled(touched) \in SUBSET Orders /\ \A o \in Filled(touched) : taken[o] < Qty
    BY <1>1, SomeFilled DEF TypeOK
  <2>3. taken' \in [Orders -> 0..Qty]
    <3>1. ASSUME NEW o \in Orders
          PROVE  taken[o] + (IF o \in Filled(touched) THEN Chunk(o) ELSE 0) \in 0..Qty
      <4>1. taken[o] \in 0..Qty /\ Qty \in Nat
        BY BacktestAssumption DEF TypeOK
      <4>2. taken[o] \in Nat
        BY <4>1
      <4>3. o \in Filled(touched) => taken[o] + Chunk(o) \in 1..Qty
        BY <2>2, <4>2, ChunkFacts
      <4> QED
        BY <4>1, <4>3
    <3> HIDE DEF Filled, Chunk
    <3> QED
      BY <2>1, <3>1
  <2>4. book' \subseteq Orders
    BY <2>1 DEF TypeOK
  <2>5. CASE Filled(touched) = {}
    BY <2>1, <2>3, <2>4, <2>5
  <2>6. CASE FlushThen("fills") /\ todo' = FillRows(Filled(touched)) /\ Filled(touched) # {}
    <3>1. /\ todo' \in Seq(Rows) /\ todo' # <<>>
          /\ \A i \in DOMAIN todo' : todo'[i].candle = k /\ todo'[i].kind \in KindsIn("fills")
      BY <1>1, <2>2, <2>6, FillFacts
    <3> QED
      BY <1>1, <2>3, <2>4, <2>6, <3>1 DEF FlushThen
  <2>7. CASE FlushFails
    BY <2>3, <2>4, <2>7 DEF FlushFails, Return
  <2> QED
    BY <2>1, <2>5, <2>6, <2>7
<1>3. CASE TakeCandle /\ pc' = "fills"
  <2>1. TypeOK'
    BY <1>0, <1>1, <1>2, <1>3 DEF TypeOK, replay
  <2>2. FlowInv'
    BY <1>0, <1>1, <1>2, <1>3 DEF FlowInv, replay, Over
  <2> QED
    BY <2>1, <2>2
<1>4. CASE TakeCandle /\ pc' # "fills"
  <2>0. buffer' \in Seq(Rows) /\ Len(buffer') <= Batch
    <3>1. CASE buffer' = buffer
      BY <3>1 DEF TypeOK
    <3>2. CASE buffer' = <<>>
      BY <1>0, <3>2
    <3> QED
      BY <1>2, <1>4, <3>1, <3>2
  <2>1. TypeOK'
    BY <1>0, <1>1, <1>2, <1>4, <2>0 DEF TypeOK, replay
  <2>2. FlowInv'
    <3>1. CASE pc' = "strategy"
      <4>1. DOMAIN todo' = {}
        BY <1>1, <1>2, <1>4
      <4> QED
        BY <1>0, <1>1, <1>2, <1>4, <3>1, <4>1 DEF FlowInv, replay, Over
    <3>2. CASE pc' = "failing"
      BY <1>0, <1>1, <1>2, <1>4, <3>2 DEF FlowInv, replay, Over
    <3> QED
      BY <1>2, <1>4, <3>1, <3>2
  <2> QED
    BY <2>1, <2>2
<1>5. CASE MatchFails
  <2>1. /\ pc' = "failing" /\ todo' = todo /\ book' = book /\ taken' = taken
        /\ (buffer' = buffer \/ buffer' = <<>>) /\ error' \in {"storage", "simulation"}
    BY <1>5 DEF MatchFails, FlushAndReturn, FlushFails, Return, orders
  <2>2. buffer' \in Seq(Rows) /\ Len(buffer') <= Batch
    <3>1. CASE buffer' = buffer
      BY <3>1 DEF TypeOK
    <3>2. CASE buffer' = <<>>
      BY <1>0, <3>2
    <3> QED
      BY <2>1, <3>1, <3>2
  <2>3. TypeOK'
    BY <1>0, <1>1, <2>1, <2>2 DEF TypeOK, replay
  <2>4. FlowInv'
    BY <1>0, <1>1, <2>1 DEF FlowInv, replay, Over
  <2> QED
    BY <2>3, <2>4
<1> QED
  BY <1>3, <1>4, <1>5

\* A row is written, and the next phase begins after the last.
LEMMA WriteFlow ==
  ASSUME TypeOK, FlowInv, TodoInv, FilledInv, log' \in Seq(Rows),
         RecordFill \/ RecordPosition \/ AcceptAndSubmit \/ RecordRow
  PROVE  TypeOK' /\ FlowInv'
<1>0. Batch \in Nat /\ Batch >= 1 /\ Len(candles) \in Nat
  BY BacktestAssumption, LenProperties DEF TypeOK
<1>1. /\ pc \in {"fills", "output"} /\ ~Over /\ todo # <<>> /\ UNCHANGED <<status, replay, taken, buffer>>
      /\ buffer = <<>> /\ candles # <<>> /\ Len(candles) <= NSlots /\ k <= Len(candles)
      /\ status = "running" /\ (pc = "fills" => k >= 1)
  BY <1>0 DEF RecordFill, RecordPosition, AcceptAndSubmit, RecordRow, FlowInv, Over, orders
<1>h. Head(todo) \in Rows /\ (Head(todo).kind # "decision" => Head(todo).order \in Orders)
      /\ 1 \in DOMAIN todo /\ todo[1] = Head(todo) /\ (Len(todo) > 1 <=> Tail(todo) # <<>>)
      /\ Tail(todo) \in Seq(Rows)
      /\ \A i \in DOMAIN Tail(todo) : i + 1 \in DOMAIN todo /\ Tail(todo)[i] = todo[i + 1]
  BY <1>1, NextRow
<1>2. portfolio' \in [Orders -> 0..Qty]
  <2>1. CASE portfolio' = portfolio
    BY <2>1 DEF TypeOK
  <2>2. CASE RecordFill /\ portfolio' = [portfolio EXCEPT ![Head(todo).order] = @ + Head(todo).n]
    <3> DEFINE o == Head(todo).order
    <3>1. o \in Orders /\ Head(todo).kind = "fill"
      BY <1>h, <2>2 DEF RecordFill
    <3>2. portfolio[o] = Recorded(o) /\ Recorded(o) + Head(todo).n = taken[o]
      BY <1>1, <1>h, <3>1 DEF FilledInv, IsRow
    <3>3. portfolio[o] + Head(todo).n \in 0..Qty
      BY <3>1, <3>2 DEF TypeOK
    <3> HIDE DEF o
    <3> QED
      BY <2>2, <3>1, <3>3 DEF TypeOK, o
  <2> QED
    BY <2>1, <2>2 DEF RecordFill, RecordPosition, AcceptAndSubmit, RecordRow
<1>3. book' \subseteq Orders /\ eligible' \in [Orders -> Nat]
  <2>1. CASE book' = book /\ eligible' = eligible
    BY <2>1 DEF TypeOK
  <2>2. CASE AcceptAndSubmit /\ ~(book' = book /\ eligible' = eligible)
    <3>1. /\ Head(todo).order \in Orders /\ book' = book \cup {Head(todo).order}
          /\ eligible' = [eligible EXCEPT ![Head(todo).order] = Head(todo).time + Latency]
      BY <1>h, <2>2 DEF AcceptAndSubmit
    <3>2. Head(todo).time + Latency \in Nat
      <4>1. Head(todo).time \in Times
        BY <1>h DEF Rows
      <4> QED
        BY <4>1, BacktestAssumption DEF Times
    <3> QED
      BY <3>1, <3>2 DEF TypeOK
  <2> QED
    BY <2>1, <2>2 DEF RecordFill, RecordPosition, AcceptAndSubmit, RecordRow, orders
<1>4. CASE Over'
  <2>1. pc' = "failing" /\ k' = k /\ todo' = todo /\ error' = "simulation"
    BY <1>4, <1>1 DEF RecordFill, RecordPosition, AcceptAndSubmit, RecordRow, Return, WriteNext, Over,
                      AfterLast
  <2>2. k' \in 0..(Len(candles') + 1) /\ candles' = candles /\ previous' = previous
    BY <1>1, <2>1 DEF TypeOK, replay
  <2>3. status' = status /\ taken' = taken /\ buffer' = buffer
    BY <1>1
  <2>4. TypeOK'
    BY <1>2, <1>3, <2>1, <2>2, <2>3 DEF TypeOK
  <2>5. FlowInv'
    BY <1>0, <1>1, <2>1 DEF FlowInv, replay, Over
  <2> QED
    BY <2>4, <2>5
<1>5. CASE ~Over'
  <2>1. /\ todo' = Tail(todo) /\ pc' = AfterLast /\ k' = (IF AfterLast = "candle" THEN 1 ELSE k)
        /\ error' = error
    BY <1>5 DEF RecordFill, RecordPosition, AcceptAndSubmit, RecordRow, Return, WriteNext, Over
  <2>2. TypeOK'
    <3>1. candles' = candles /\ previous' = previous /\ status' = status /\ taken' = taken
          /\ buffer' = buffer
      BY <1>1 DEF replay
    <3>2. k' \in 0..(Len(candles') + 1)
      BY <1>0, <2>1, <3>1 DEF TypeOK
    <3>3. pc' \in {"fills", "output", "strategy", "candle", "equity"}
      BY <1>1, <2>1 DEF AfterLast
    <3> QED
      BY <1>2, <1>3, <1>h, <2>1, <3>1, <3>2, <3>3 DEF TypeOK
  <2>3. CASE Tail(todo) = <<>>
    <3>1. /\ ~(Len(todo) > 1) /\ pc' \in {"strategy", "candle", "equity"} /\ DOMAIN todo' = {} /\ todo' = <<>>
          /\ pc' \in {"strategy", "equity"} => k' = k /\ k >= 1
          /\ pc' = "candle" => k' = 1
      BY <1>0, <1>1, <1>h, <2>1, <2>3 DEF AfterLast, TypeOK
    <3>2. FlowInv'
      BY <1>0, <1>1, <3>1 DEF FlowInv, replay, Over
    <3> QED
      BY <2>2, <3>2
  <2>4. CASE Tail(todo) # <<>>
    <3>1. pc' = pc /\ k' = k
      <4>1. AfterLast = pc
        BY <1>h, <2>4 DEF AfterLast
      <4> QED
        BY <1>1, <2>1, <4>1
    <3>2. \A i \in DOMAIN todo' : todo'[i].candle = k' /\ todo'[i].kind \in KindsIn(pc')
      BY <1>1, <1>h, <2>1, <3>1 DEF FlowInv
    <3>3. FlowInv'
      BY <1>0, <1>1, <2>1, <2>4, <3>1, <3>2 DEF FlowInv, replay, Over
    <3> QED
      BY <2>2, <3>3
  <2> QED
    BY <2>3, <2>4
<1> QED
  BY <1>4, <1>5

\* The equity of the candle is buffered, and the replay goes to the next.
LEMMA EquityFlow ==
  ASSUME TypeOK, FlowInv, log' \in Seq(Rows), BufferEquity
  PROVE  TypeOK' /\ FlowInv'
<1> DEFINE row == Row("equity", 0, candles[k].close, 0)
           buffered == Append(buffer, row)
<1>0. Batch \in Nat /\ Batch >= 1 /\ Len(candles) \in Nat /\ Len(<<>>) = 0 /\ <<>> \in Seq(Rows)
  BY BacktestAssumption, LenProperties, EmptySeq DEF TypeOK
<1>1. /\ pc = "equity" /\ k \in 1..Len(candles) /\ Len(buffer) < Batch /\ Len(candles) <= NSlots
      /\ status = "running" /\ todo = <<>> /\ candles # <<>>
      /\ UNCHANGED <<status, replay, todo, orders, portfolio>>
  BY <1>0 DEF BufferEquity, FlowInv, Over, TypeOK
<1>2. row \in Rows
  <2>1. candles[k] \in Candles
    BY <1>1, ElementOfSeq DEF TypeOK
  <2>2. candles[k].close \in Times /\ 0 \in 0..NOrders /\ 0 \in 0..Qty /\ k \in 0..(NSlots + 1)
    BY <1>0, <1>1, <2>1, BacktestAssumption DEF Candles
  <2> QED
    BY <2>2 DEF Row, Rows, Kinds
<1>3. buffered \in Seq(Rows) /\ Len(buffered) = Len(buffer) + 1 /\ Len(buffer) \in Nat
  BY <1>2, AppendProperties, LenProperties DEF TypeOK
<1>4. /\ pc' \in {"candle", "failing"} /\ error' \in {error, "storage"}
      /\ pc' = "candle" => k' = k + 1
      /\ pc' = "failing" => k' = k
      /\ (buffer' = <<>> \/ buffer' = buffered)
      /\ pc' = "candle" /\ buffer' = buffered => buffer' = <<>> \/ Len(buffered) < Batch
  <2> HIDE DEF row, buffered
  <2> QED
    BY DEF BufferEquity, Return, row, buffered
<1> HIDE DEF row, buffered
<1>5. buffer' \in Seq(Rows) /\ Len(buffer') <= Batch /\ (pc' = "candle" => Len(buffer') < Batch)
  <2>1. CASE buffer' = <<>>
    BY <1>0, <2>1
  <2>2. CASE buffer' = buffered /\ buffer' # <<>>
    BY <1>0, <1>1, <1>3, <1>4, <2>2
  <2> QED
    BY <1>4, <2>1, <2>2
<1>6. TypeOK'
  BY <1>0, <1>1, <1>4, <1>5 DEF TypeOK, replay, orders
<1>7. FlowInv'
  <2>1. DOMAIN todo' = {} /\ todo' = <<>>
    BY <1>1
  <2> QED
    BY <1>0, <1>1, <1>4, <1>5, <2>1 DEF FlowInv, replay, orders, Over
<1> QED
  BY <1>6, <1>7

\* The replay ends: the last flush, the expired rows, the terminal status, or an error.
LEMMA EndFlow ==
  ASSUME TypeOK, FlowInv, TodoInv, log' \in Seq(Rows),
         FinishReplay \/ Expire \/ Complete \/ Fail \/ Crash \/ RowFails \/ MarkFails
  PROVE  TypeOK' /\ FlowInv'
<1>0. Batch \in Nat /\ Batch >= 1 /\ Len(candles) \in Nat /\ Len(<<>>) = 0 /\ <<>> \in Seq(Rows)
  BY BacktestAssumption, LenProperties, EmptySeq DEF TypeOK
<1>1. CASE RowFails \/ MarkFails
  <2>1. /\ pc \notin {"idle", "create", "begin", "ended"} /\ pc' = "failing"
        /\ error' \in {"storage", "simulation"}
        /\ UNCHANGED <<status, log, replay, k, todo, orders, portfolio, buffer>>
    BY <1>1 DEF RowFails, MarkFails, Return
  <2>2. TypeOK'
    BY <2>1 DEF TypeOK, replay, orders
  <2>3. FlowInv'
    BY <2>1 DEF FlowInv, replay, orders, Over
  <2> QED
    BY <2>2, <2>3
<1>2. CASE Complete \/ Fail \/ Crash \/ (Expire /\ pc' = "ended")
  <2>1. /\ pc' = "ended" /\ status' \in {status, "completed", "failed"}
        /\ UNCHANGED <<log, replay, k, todo, orders, portfolio, buffer, error>>
    BY <1>2 DEF Complete, Fail, Crash, Expire
  <2>2. TypeOK'
    BY <2>1 DEF TypeOK, replay, orders
  <2>3. FlowInv'
    BY <2>1 DEF FlowInv, replay, orders, Over
  <2> QED
    BY <2>2, <2>3
<1>3. CASE FinishReplay /\ pc' = "expire"
  <2>1. /\ pc = "candle" /\ k = Len(candles) + 1 /\ k' = k /\ todo' = ExpiredRows /\ book' = {}
        /\ buffer' = <<>> /\ error' = error /\ UNCHANGED <<status, replay, eligible, taken, portfolio>>
        /\ candles # <<>> /\ Len(candles) <= NSlots /\ status = "running"
    BY <1>0, <1>3 DEF FinishReplay, FlushThen, FlushFails, Return, FlowInv, TypeOK
  <2>2. /\ todo' \in Seq(Rows)
        /\ \A i \in DOMAIN todo' : todo'[i].candle = k /\ todo'[i].kind = "expired"
    BY <2>1, ExpiredFacts
  <2>3. TypeOK'
    BY <1>0, <1>3, <2>1, <2>2 DEF TypeOK, replay
  <2>4. FlowInv'
    BY <1>0, <1>3, <2>1, <2>2 DEF FlowInv, replay, Over, KindsIn
  <2> QED
    BY <2>3, <2>4
<1>4. CASE FinishReplay /\ pc' # "expire"
  <2>1. /\ pc = "candle" /\ pc' = "failing" /\ error' = "storage"
        /\ UNCHANGED <<status, replay, k, orders, portfolio, buffer, todo>>
    BY <1>4 DEF FinishReplay, FlushThen, FlushFails, Return, orders
  <2>2. TypeOK'
    BY <2>1 DEF TypeOK, replay, orders
  <2>3. FlowInv'
    BY <2>1 DEF FlowInv, replay, orders, Over
  <2> QED
    BY <2>2, <2>3
<1>5. CASE Expire /\ pc' # "ended"
  <2>1. /\ pc = "expire" /\ pc' = "expire" /\ ~Over /\ todo # <<>> /\ todo' = Tail(todo)
        /\ UNCHANGED <<status, replay, k, orders, portfolio, buffer, error>>
    BY <1>5 DEF Expire, Over
  <2>2. /\ Tail(todo) \in Seq(Rows)
        /\ \A i \in DOMAIN Tail(todo) : i + 1 \in DOMAIN todo /\ Tail(todo)[i] = todo[i + 1]
    BY <2>1, NextRow
  <2>3. \A i \in DOMAIN todo' : todo'[i].candle = k' /\ todo'[i].kind \in KindsIn(pc')
    BY <2>1, <2>2 DEF FlowInv
  <2>4. TypeOK'
    BY <2>1, <2>2 DEF TypeOK, replay, orders
  <2>5. FlowInv'
    BY <2>1, <2>3 DEF FlowInv, replay, orders, Over
  <2> QED
    BY <2>4, <2>5
<1> QED
  BY <1>1, <1>2, <1>3, <1>4, <1>5

-----------------------------------------------------------------------------
(* What the steps do to the rows and the orders *)

\* Nothing changes but where the replay is, and the equity on the record.
Idles ==
  /\ Kept /\ ~Over /\ pc # "expire" /\ pc' \notin {"expire", "fills"}
  /\ UNCHANGED <<todo, orders, portfolio>>

\* The strategy has put something out.
OutputBegins ==
  /\ Kept /\ ~Over /\ pc \in {"start", "strategy"} /\ pc' = "output"
  /\ todo = <<>> /\ todo' \in Outputs
  /\ UNCHANGED <<orders, portfolio>>

\* A candle has filled some orders.
FillsBegin(filled) ==
  /\ Kept /\ ~Over /\ pc = "candle" /\ pc' = "fills" /\ k \in 1..Len(candles)
  /\ filled \in SUBSET Eligible /\ Eligible \subseteq book
  /\ taken' = [o \in Orders |-> taken[o] + (IF o \in filled THEN Chunk(o) ELSE 0)]
  /\ book' = {o \in book : taken'[o] < Qty}
  /\ todo = <<>> /\ todo' = FillRows(filled)
  /\ UNCHANGED <<eligible, portfolio, candles, k>>

\* Row r is written, the next one of the fills or of the output.
RowStep(r) ==
  LET next == Head(todo)
      o == next.order
  IN /\ ~Over /\ pc \in {"fills", "output"} /\ pc' # "expire"
     /\ pc' = "fills" => pc = "fills" /\ k' = k
     /\ candles' = candles /\ taken' = taken
     /\ todo # <<>> /\ todo' = Tail(todo) /\ log' = Append(log, r)
     /\ r.kind = next.kind /\ r.order = o /\ r.time = next.time
     /\ r.n = IF r.kind = "position" THEN portfolio[o] ELSE next.n
     /\ portfolio' = IF r.kind = "fill" THEN [portfolio EXCEPT ![o] = @ + r.n] ELSE portfolio
     /\ book' = IF r.kind = "accepted" THEN book \cup {o} ELSE book
     /\ eligible' = IF r.kind = "accepted"
                    THEN [eligible EXCEPT ![o] = r.time + Latency] ELSE eligible

\* The replay is through its candles.
ExpireBegins ==
  /\ Kept /\ ~Over /\ pc = "candle" /\ pc' = "expire" /\ k = Len(candles) + 1 /\ candles # <<>>
  /\ todo = <<>> /\ todo' = ExpiredRows
  /\ book' = {} /\ UNCHANGED <<eligible, taken, portfolio>>

\* An expired order is written.
ExpiryStep ==
  /\ ~Over /\ pc = "expire" /\ pc' = "expire"
  /\ todo # <<>> /\ todo' = Tail(todo) /\ log' = Append(log, Head(todo))
  /\ UNCHANGED <<orders, portfolio>>

\* Every step is one of these, or the replay is over with it.
LEMMA StepCases ==
  ASSUME TypeOK, FlowInv, EquityInv, EquityInPlace, TodoInv, PlacedInv, Next
  PROVE  \/ Over' \/ Idles \/ OutputBegins \/ ExpireBegins \/ ExpiryStep
         \/ \E filled : FillsBegin(filled)
         \/ \E r : r \in Rows /\ RowStep(r)
<1>0. Kept \/ pc \in {"fills", "output", "expire"}
  BY RecordStays DEF RowAdded
<1>e. Len(candles) \in Nat /\ <<>> \in Seq(Rows)
  BY LenProperties, EmptySeq DEF TypeOK
<1>1. CASE PrepareReplay \/ CreateRun \/ BeginRun
  BY <1>0, <1>1 DEF PrepareReplay, CreateRun, BeginRun, Idles, Over, orders
<1>2. CASE OnStart
  <2>0. pc = "start" /\ todo = <<>> /\ ~Over /\ Kept
    BY <1>0, <1>2 DEF OnStart, FlowInv, Over
  <2>1. CASE todo' = <<>>
    BY <1>2, <2>0, <2>1 DEF OnStart, Idles, Over, Return
  <2>2. CASE todo' # <<>>
    BY <1>2, <2>0, <2>2 DEF OnStart, OutputBegins, Over, Return
  <2> QED
    BY <2>1, <2>2
<1>3. CASE TakeCandle
  <2>0. /\ pc = "candle" /\ todo = <<>> /\ ~Over /\ Kept /\ k \in 1..Len(candles) /\ k' = k
        /\ UNCHANGED <<candles, eligible, portfolio>>
    BY <1>0, <1>3, <1>e DEF TakeCandle, FlowInv, Over, TypeOK, replay
  <2>1. PICK touched \in SUBSET (Eligible \ Market) :
          /\ taken' = [o \in Orders |-> taken[o] + (IF o \in Filled(touched) THEN Chunk(o) ELSE 0)]
          /\ book' = {o \in book : taken'[o] < Qty}
          /\ IF Filled(touched) = {}
             THEN pc' = "strategy" /\ UNCHANGED <<log, buffer, todo, error>>
             ELSE \/ FlushThen("fills") /\ todo' = FillRows(Filled(touched))
                  \/ FlushFails
    BY <1>3 DEF TakeCandle
  <2> DEFINE filled == Filled(touched)
  <2>2. filled \in SUBSET Eligible /\ Eligible \subseteq book
    BY <2>0, SomeFilled
  <2> HIDE DEF filled
  <2>3. CASE filled = {}
    <3>1. taken' = taken
      <4>1. \A o \in Orders : taken[o] + 0 = taken[o]
        <5>1. \A o \in Orders : taken[o] \in 0..Qty
          BY DEF TypeOK
        <5> QED
          BY <5>1
      <4>2. taken' = [o \in Orders |-> taken[o]]
        BY <2>1, <2>3, <4>1 DEF filled
      <4> QED
        BY <4>2 DEF TypeOK
    <3>2. book' = book
      <4>1. \A o \in book : taken[o] < Qty
        BY <2>0 DEF PlacedInv, Over, TypeOK
      <4> QED
        BY <2>1, <3>1, <4>1
    <3> QED
      BY <2>0, <2>1, <2>3, <3>1, <3>2 DEF Idles, orders, filled
  <2>4. CASE filled # {} /\ FlushThen("fills") /\ todo' = FillRows(filled)
    <3>1. FillsBegin(filled)
      BY <2>0, <2>1, <2>2, <2>4 DEF FillsBegin, FlushThen, filled
    <3> QED
      BY <3>1
  <2>5. CASE FlushFails
    BY <2>5 DEF FlushFails, Return, Over
  <2> QED
    BY <2>1, <2>3, <2>4, <2>5 DEF filled
<1>4. CASE MatchFails \/ StrategyFails \/ RowFails \/ MarkFails \/ Complete \/ Fail \/ Crash
  BY <1>4 DEF MatchFails, StrategyFails, FlushAndReturn, FlushFails, RowFails, MarkFails, Complete,
              Fail, Crash, Return, Over
<1>5. ASSUME RecordFill \/ RecordPosition \/ AcceptAndSubmit \/ RecordRow, ~Over'
      PROVE  \E r : r \in Rows /\ RowStep(r)
  <2>0. /\ pc \in {"fills", "output"} /\ ~Over /\ todo # <<>>
        /\ UNCHANGED <<status, replay, taken, buffer>> /\ candles' = candles
    BY <1>5 DEF RecordFill, RecordPosition, AcceptAndSubmit, RecordRow, FlowInv, Over, orders, replay
  <2>1. Head(todo) \in Rows /\ (Head(todo).kind # "decision" => Head(todo).order \in Orders)
    BY <2>0, NextRow
  <2>2. \E r : WriteNext(r)
    BY <1>5 DEF RecordFill, RecordPosition, AcceptAndSubmit, RecordRow, Return, Over
  <2>3. todo' = Tail(todo) /\ pc' = AfterLast /\ k' = IF AfterLast = "candle" THEN 1 ELSE k
    BY <2>2 DEF WriteNext
  <2>4. pc' # "expire" /\ (pc' = "fills" => pc = "fills" /\ k' = k)
    BY <2>0, <2>3 DEF AfterLast
  <2>5. CASE RecordFill
    <3>1. /\ Head(todo).kind = "fill" /\ log' = Append(log, Head(todo)) /\ UNCHANGED <<book, eligible>>
          /\ portfolio' = [portfolio EXCEPT ![Head(todo).order] = @ + Head(todo).n]
      BY <1>5, <2>5 DEF RecordFill, WriteNext, Return, Over, orders
    <3>2. RowStep(Head(todo))
      BY <2>0, <2>3, <2>4, <3>1 DEF RowStep
    <3> QED
      BY <2>1, <3>2
  <2>6. CASE AcceptAndSubmit
    <3>1. /\ Head(todo).kind = "accepted" /\ log' = Append(log, Head(todo)) /\ portfolio' = portfolio
          /\ book' = book \cup {Head(todo).order}
          /\ eligible' = [eligible EXCEPT ![Head(todo).order] = Head(todo).time + Latency]
      BY <1>5, <2>6 DEF AcceptAndSubmit, WriteNext, Return, Over
    <3>2. RowStep(Head(todo))
      BY <2>0, <2>3, <2>4, <3>1 DEF RowStep
    <3> QED
      BY <2>1, <3>2
  <2>7. CASE RecordRow
    <3>1. /\ Head(todo).kind \in {"decision", "intent", "order", "state"}
          /\ log' = Append(log, Head(todo)) /\ UNCHANGED <<book, eligible, portfolio>>
      BY <2>7 DEF RecordRow, WriteNext, orders
    <3>2. RowStep(Head(todo))
      BY <2>0, <2>3, <2>4, <3>1 DEF RowStep
    <3> QED
      BY <2>1, <3>2
  <2>8. CASE RecordPosition
    <3> DEFINE r == [Head(todo) EXCEPT !.n = portfolio[Head(todo).order]]
    <3>1. /\ Head(todo).kind = "position" /\ log' = Append(log, r)
          /\ UNCHANGED <<book, eligible, portfolio>>
      BY <2>8 DEF RecordPosition, WriteNext, orders
    <3>2. portfolio[Head(todo).order] \in 0..Qty
      BY <2>1, <3>1 DEF TypeOK
    <3>3. /\ r \in Rows /\ r.kind = Head(todo).kind /\ r.order = Head(todo).order
          /\ r.time = Head(todo).time /\ r.n = portfolio[Head(todo).order]
      BY <2>1, <3>2 DEF Rows
    <3> HIDE DEF r
    <3>4. RowStep(r)
      BY <2>0, <2>3, <2>4, <3>1, <3>3 DEF RowStep
    <3> QED
      BY <3>3, <3>4
  <2> QED
    BY <1>5, <2>5, <2>6, <2>7, <2>8
<1>6. CASE OnCandle
  <2>0. pc = "strategy" /\ todo = <<>> /\ ~Over /\ Kept
    BY <1>0, <1>6 DEF OnCandle, FlowInv, Over
  <2>1. CASE pc' = "equity"
    BY <1>6, <2>0, <2>1 DEF OnCandle, Idles, FlushThen, FlushFails, Return
  <2>2. CASE pc' = "output"
    BY <1>6, <2>0, <2>2 DEF OnCandle, OutputBegins, FlushThen, FlushFails, Return
  <2> QED
    BY <1>6, <2>1, <2>2 DEF OnCandle, FlushThen, FlushFails, Return, Over
<1>7. CASE BufferEquity
  BY <1>0, <1>7 DEF BufferEquity, Idles, Return, Over
<1>8. CASE FinishReplay
  <2>0. pc = "candle" /\ todo = <<>> /\ ~Over /\ Kept /\ k = Len(candles) + 1 /\ candles # <<>>
    BY <1>0, <1>8, <1>e DEF FinishReplay, FlowInv, Over, TypeOK
  <2> QED
    BY <1>8, <2>0 DEF FinishReplay, ExpireBegins, FlushThen, FlushFails, Return, Over
<1>9. CASE Expire
  BY <1>9 DEF Expire, ExpiryStep, Over
<1> QED
  BY <1>1, <1>2, <1>3, <1>4, <1>5, <1>6, <1>7, <1>8, <1>9 DEF Next

\* A replay that idles keeps its rows and its orders.
LEMMA IdleKeeps ==
  ASSUME TypeOK, TodoInv, PlacedInv, FilledInv, ExpiredInv, LookInv, Idles
  PROVE  TodoInv' /\ PlacedInv' /\ FilledInv' /\ ExpiredInv' /\ LookInv'
<1>1. ~Over /\ pc # "expire" /\ pc' \notin {"expire", "fills"} /\ todo' = todo /\ book' = book
      /\ eligible' = eligible /\ taken' = taken /\ portfolio' = portfolio
  BY DEF Idles, orders
<1>2. /\ \A i \in DOMAIN log : i \in DOMAIN log' /\ log'[i] = log[i]
      /\ \A i \in DOMAIN log' : i \in DOMAIN log \/ log'[i].kind = "equity"
      /\ \A kind, o : kind # "equity" => (HasRow(kind, o)' <=> HasRow(kind, o))
      /\ \A o : Recorded(o)' = Recorded(o)
      /\ \A kind, o, n : kind # "equity" /\ LastSays(kind, o, n) => LastSays(kind, o, n)'
  BY DEF Idles, Kept
<1>3. \A kind, o : ToWrite(kind, o)' <=> ToWrite(kind, o)
  BY <1>1 DEF ToWrite, IsRow
<1>4. TodoInv'
  BY <1>1 DEF TodoInv, InOrder, Holds, IsRow
<1>5. PlacedInv'
  <2>1. {o \in Orders : HasRow("intent", o)' \/ ToWrite("intent", o)'}
          = {o \in Orders : HasRow("intent", o) \/ ToWrite("intent", o)}
    BY <1>2, <1>3
  <2>2. \E m \in 0..NOrders : {o \in Orders : HasRow("intent", o)' \/ ToWrite("intent", o)'} = 1..m
    BY <1>1, <2>1 DEF PlacedInv
  <2>3. /\ \A o : HasRow("intent", o)' <=> HasRow("intent", o)
        /\ \A o : HasRow("order", o)' <=> HasRow("order", o)
        /\ \A o : HasRow("accepted", o)' <=> HasRow("accepted", o)
    BY <1>2
  <2> QED
    BY <1>1, <1>3, <2>2, <2>3 DEF PlacedInv
<1>6. FilledInv'
  <2> SUFFICES ASSUME NEW o \in Orders
               PROVE  /\ portfolio'[o] = Recorded(o)'
                      /\ ~ToWrite("fill", o)' => Recorded(o)' = taken'[o]
                      /\ \A i \in DOMAIN todo' :
                           /\ IsRow(todo'[i], "fill", o) =>
                                todo'[i].n >= 1 /\ Recorded(o)' + todo'[i].n = taken'[o]
                           /\ IsRow(todo'[i], "state", o) => todo'[i].n = taken'[o]
                      /\ \A kind \in {"fill", "state", "position"} : ToWrite(kind, o)' => taken'[o] > 0
                      /\ \A kind \in {"state", "position"} :
                           taken'[o] > 0 /\ ~ToWrite(kind, o)' => LastSays(kind, o, taken[o])'
                      /\ \A i \in DOMAIN log' : IsRow(log'[i], "state", o) /\ log'[i].n = Qty =>
                           taken'[o] = Qty /\ ~ToWrite("state", o)'
    BY DEF FilledInv, IsRow
  <2>1. \A kind \in {"state", "position"} :
          taken'[o] > 0 /\ ~ToWrite(kind, o)' => LastSays(kind, o, taken[o])'
    <3> SUFFICES ASSUME NEW kind \in {"state", "position"}, taken'[o] > 0, ~ToWrite(kind, o)'
                 PROVE  LastSays(kind, o, taken[o])'
      OBVIOUS
    <3>1. LastSays(kind, o, taken[o])
      BY <1>1, <1>3 DEF FilledInv
    <3>2. \E n : n = taken[o] /\ LastSays(kind, o, n)'
      BY <1>2, <3>1
    <3> QED
      BY <1>1, <3>2 DEF LastSays
  <2>2. \A i \in DOMAIN log' : IsRow(log'[i], "state", o) /\ log'[i].n = Qty =>
          taken'[o] = Qty /\ ~ToWrite("state", o)'
    BY <1>1, <1>2, <1>3 DEF FilledInv, IsRow
  <2> QED
    BY <1>1, <1>2, <1>3, <2>1, <2>2 DEF FilledInv
<1>7. ExpiredInv'
  BY <1>1, <1>2, <1>3 DEF ExpiredInv, IsRow
<1>8. LookInv'
  BY <1>1, <1>2 DEF LookInv, IsRow
<1> QED
  BY <1>4, <1>5, <1>6, <1>7, <1>8

\* Nothing is left to write between two phases.
LEMMA NothingToWrite ==
  ASSUME todo = <<>>
  PROVE  DOMAIN todo = {} /\ \A kind, o : ~ToWrite(kind, o)
BY DEF ToWrite

\* New orders are the next ones, each with its rows in order and nothing filled.
LEMMA OutputKeeps ==
  ASSUME TypeOK, FlowInv, TodoInv, PlacedInv, FilledInv, ExpiredInv, LookInv, OutputBegins
  PROVE  TodoInv' /\ PlacedInv' /\ FilledInv' /\ ExpiredInv' /\ LookInv'
<1>1. /\ ~Over /\ pc \in {"start", "strategy"} /\ pc' = "output" /\ todo = <<>> /\ todo' \in Outputs
      /\ book' = book /\ eligible' = eligible /\ taken' = taken /\ portfolio' = portfolio
  BY DEF OutputBegins, orders
<1>2. /\ \A i \in DOMAIN log : i \in DOMAIN log' /\ log'[i] = log[i]
      /\ \A i \in DOMAIN log' : i \in DOMAIN log \/ log'[i].kind = "equity"
      /\ \A kind, o : kind # "equity" => (HasRow(kind, o)' <=> HasRow(kind, o))
      /\ \A o : Recorded(o)' = Recorded(o)
      /\ \A kind, o, n : kind # "equity" /\ LastSays(kind, o, n) => LastSays(kind, o, n)'
  BY DEF OutputBegins, Kept
<1>3. \A kind, o : ~ToWrite(kind, o)
  BY <1>1, NothingToWrite
<1>4. /\ InOrder(todo')
      /\ \E m \in 0..NOrders : \E n \in m..NOrders :
           /\ Placed = 1..m
           /\ \A o \in Orders : \A kind :
                Holds(todo', kind, o)
                  <=> o \in (m + 1)..n /\ kind \in {"intent", "order", "accepted"}
  <2> DEFINE output == todo'
  <2>1. output \in Outputs
    BY <1>1
  <2> HIDE DEF output
  <2>2. /\ InOrder(output)
        /\ \E m \in 0..NOrders : \E n \in m..NOrders :
             /\ Placed = 1..m
             /\ \A o \in Orders : \A kind :
                  Holds(output, kind, o)
                    <=> o \in (m + 1)..n /\ kind \in {"intent", "order", "accepted"}
    BY <1>1, <2>1, SomeOutput
  <2> QED
    BY <2>2 DEF output
<1>p. PICK m \in 0..NOrders :
        \E n \in m..NOrders :
          /\ Placed = 1..m
          /\ \A o \in Orders : \A kind :
               Holds(todo', kind, o) <=> o \in (m + 1)..n /\ kind \in {"intent", "order", "accepted"}
  BY <1>4
<1>5. PICK n \in m..NOrders :
        /\ Placed = 1..m
        /\ \A o \in Orders : \A kind :
             Holds(todo', kind, o) <=> o \in (m + 1)..n /\ kind \in {"intent", "order", "accepted"}
  BY <1>p
<1>6. /\ \A o \in Orders : \A kind :
           ToWrite(kind, o)' <=> o \in (m + 1)..n /\ kind \in {"intent", "order", "accepted"}
      /\ \A o \in Orders : HasRow("intent", o) <=> o \in 1..m
  <2>1. \A kind, o : ToWrite(kind, o)' <=> Holds(todo', kind, o)
    BY DEF ToWrite, Holds, IsRow
  <2>2. \A o \in Orders : HasRow("intent", o) <=> o \in Placed
    BY DEF HasRow, Placed, IsRow
  <2> QED
    BY <1>5, <2>1, <2>2
<1>7. m \in Nat /\ n \in Nat /\ NOrders \in Nat /\ m <= n /\ n <= NOrders
  BY BacktestAssumption
<1>8. TodoInv'
  <2>1. InOrder(todo)'
    BY <1>4 DEF InOrder, Holds, IsRow
  <2> QED
    BY <2>1 DEF TodoInv
<1>9. PlacedInv'
  <2>1. {o \in Orders : HasRow("intent", o)' \/ ToWrite("intent", o)'} = 1..n
    <3>1. \A o \in Orders : (HasRow("intent", o)' \/ ToWrite("intent", o)') <=> (o \in 1..m \/ o \in (m + 1)..n)
      BY <1>2, <1>6
    <3>2. \A o : (o \in 1..m \/ o \in (m + 1)..n) <=> o \in 1..n
      BY <1>7
    <3>3. \A o \in 1..n : o \in Orders
      BY <1>7 DEF Orders
    <3> QED
      BY <3>1, <3>2, <3>3
  <2>2. n \in 0..NOrders
    BY <1>7
  <2>3. /\ \A o : HasRow("intent", o)' <=> HasRow("intent", o)
        /\ \A o : HasRow("order", o)' <=> HasRow("order", o)
        /\ \A o : HasRow("accepted", o)' <=> HasRow("accepted", o)
    BY <1>2
  <2>4. \A o \in Orders : ToWrite("intent", o)' => ~HasRow("intent", o)
    <3>1. \A o : ~(o \in 1..m /\ o \in (m + 1)..n)
      BY <1>7
    <3> QED
      BY <1>6, <3>1
  <2>5. \A o \in Orders : /\ ToWrite("order", o)' <=> ToWrite("intent", o)'
                          /\ ToWrite("accepted", o)' <=> ToWrite("intent", o)'
    BY <1>6
  <2>6. \A o \in Orders :
          /\ HasRow("accepted", o) => HasRow("order", o)
          /\ HasRow("order", o) => HasRow("intent", o)
          /\ HasRow("intent", o) => HasRow("order", o)
          /\ HasRow("order", o) => HasRow("accepted", o)
          /\ taken[o] > 0 => HasRow("accepted", o)
          /\ (o \in book) <=> (HasRow("accepted", o) /\ taken[o] < Qty)
    BY <1>1, <1>3 DEF PlacedInv
  <2> QED
    BY <1>1, <2>1, <2>2, <2>3, <2>4, <2>5, <2>6 DEF PlacedInv
<1>10. FilledInv'
  <2> SUFFICES ASSUME NEW o \in Orders
               PROVE  /\ portfolio'[o] = Recorded(o)'
                      /\ ~ToWrite("fill", o)' => Recorded(o)' = taken'[o]
                      /\ \A i \in DOMAIN todo' :
                           /\ IsRow(todo'[i], "fill", o) =>
                                todo'[i].n >= 1 /\ Recorded(o)' + todo'[i].n = taken'[o]
                           /\ IsRow(todo'[i], "state", o) => todo'[i].n = taken'[o]
                      /\ \A kind \in {"fill", "state", "position"} : ToWrite(kind, o)' => taken'[o] > 0
                      /\ \A kind \in {"state", "position"} :
                           taken'[o] > 0 /\ ~ToWrite(kind, o)' => LastSays(kind, o, taken[o])'
                      /\ \A i \in DOMAIN log' : IsRow(log'[i], "state", o) /\ log'[i].n = Qty =>
                           taken'[o] = Qty /\ ~ToWrite("state", o)'
    BY DEF FilledInv, IsRow
  <2>1. \A kind \in {"fill", "state", "position"} : ~ToWrite(kind, o)'
    BY <1>6
  <2>2. \A i \in DOMAIN todo' : ~IsRow(todo'[i], "fill", o) /\ ~IsRow(todo'[i], "state", o)
    BY <2>1 DEF ToWrite, IsRow
  <2>3. \A kind \in {"state", "position"} : taken'[o] > 0 => LastSays(kind, o, taken[o])'
    <3> SUFFICES ASSUME NEW kind \in {"state", "position"}, taken'[o] > 0
                 PROVE  LastSays(kind, o, taken[o])'
      OBVIOUS
    <3>1. LastSays(kind, o, taken[o])
      BY <1>1, <1>3 DEF FilledInv
    <3>2. \E x : x = taken[o] /\ LastSays(kind, o, x)'
      BY <1>2, <3>1
    <3> QED
      BY <1>1, <3>2 DEF LastSays
  <2>4. \A i \in DOMAIN log' : IsRow(log'[i], "state", o) /\ log'[i].n = Qty => taken'[o] = Qty
    BY <1>1, <1>2 DEF FilledInv, IsRow
  <2>5. portfolio'[o] = Recorded(o)' /\ Recorded(o)' = taken'[o]
    BY <1>1, <1>2, <1>3 DEF FilledInv
  <2> QED
    BY <2>1, <2>2, <2>3, <2>4, <2>5
<1>11. ExpiredInv'
  <2>1. \A o \in Orders : ~ToWrite("expired", o)' /\ ~HasRow("expired", o)'
    BY <1>1, <1>2, <1>6 DEF ExpiredInv
  <2>2. \A o \in Orders : \A i \in DOMAIN todo' : ~IsRow(todo'[i], "expired", o)
    BY <2>1 DEF ToWrite, IsRow
  <2> QED
    BY <1>1, <2>1, <2>2 DEF ExpiredInv, IsRow
<1>12. LookInv'
  BY <1>1, <1>2 DEF LookInv, IsRow
<1> QED
  BY <1>8, <1>9, <1>10, <1>11, <1>12

\* What a candle fills of an order is in the book before the first of its rows is on the
\* record, and every row says so.
LEMMA FillsKeep ==
  ASSUME TypeOK, FlowInv, TodoInv, PlacedInv, FilledInv, ExpiredInv, LookInv,
         NEW filled, FillsBegin(filled)
  PROVE  TodoInv' /\ PlacedInv' /\ FilledInv' /\ ExpiredInv' /\ LookInv'
<1>1. /\ ~Over /\ pc = "candle" /\ pc' = "fills" /\ todo = <<>> /\ k \in 1..Len(candles)
      /\ todo' = FillRows(filled) /\ filled \in SUBSET Eligible /\ Eligible \subseteq book
      /\ taken' = [o \in Orders |-> taken[o] + (IF o \in filled THEN Chunk(o) ELSE 0)]
      /\ book' = {o \in book : taken'[o] < Qty}
      /\ eligible' = eligible /\ portfolio' = portfolio /\ candles' = candles /\ k' = k
  BY DEF FillsBegin
<1>2. /\ \A i \in DOMAIN log : i \in DOMAIN log' /\ log'[i] = log[i]
      /\ \A i \in DOMAIN log' : i \in DOMAIN log \/ log'[i].kind = "equity"
      /\ \A kind, o : kind # "equity" => (HasRow(kind, o)' <=> HasRow(kind, o))
      /\ \A o : Recorded(o)' = Recorded(o)
      /\ \A kind, o, n : kind # "equity" /\ LastSays(kind, o, n) => LastSays(kind, o, n)'
  BY DEF FillsBegin, Kept
<1>3. \A kind, o : ~ToWrite(kind, o)
  BY <1>1, NothingToWrite
<1>4. filled \in SUBSET Orders /\ \A o \in filled : taken[o] < Qty /\ o \in book
  BY <1>1 DEF PlacedInv, TypeOK
<1>5. Len(candles) <= NSlots
  BY DEF FlowInv
<1>6. /\ InOrder(todo')
      /\ \A i \in DOMAIN todo' : todo'[i].order \in filled
      /\ \A o \in Orders : \A kind :
           Holds(todo', kind, o) <=> o \in filled /\ kind \in {"fill", "state", "position"}
      /\ \A i \in DOMAIN todo' :
           /\ todo'[i].kind = "fill" => todo'[i].n = Chunk(todo'[i].order)
           /\ todo'[i].kind = "state" => todo'[i].n = taken[todo'[i].order] + Chunk(todo'[i].order)
  <2> DEFINE rows == todo'
  <2>1. rows = FillRows(filled)
    BY <1>1
  <2> HIDE DEF rows
  <2>2. /\ InOrder(rows)
        /\ \A i \in DOMAIN rows : rows[i].order \in filled
        /\ \A o \in Orders : \A kind :
             Holds(rows, kind, o) <=> o \in filled /\ kind \in {"fill", "state", "position"}
        /\ \A i \in DOMAIN rows :
             /\ rows[i].kind = "fill" => rows[i].n = Chunk(rows[i].order)
             /\ rows[i].kind = "state" => rows[i].n = taken[rows[i].order] + Chunk(rows[i].order)
    BY <1>1, <1>4, <1>5, <2>1, FillFacts
  <2> QED
    BY <2>2 DEF rows
<1>7. \A o \in Orders : \A kind :
        ToWrite(kind, o)' <=> o \in filled /\ kind \in {"fill", "state", "position"}
  <2>1. \A kind, o : ToWrite(kind, o)' <=> Holds(todo', kind, o)
    BY DEF ToWrite, Holds, IsRow
  <2> QED
    BY <1>6, <2>1
<1>8. ASSUME NEW o \in Orders
      PROVE  /\ taken[o] \in Nat
             /\ o \notin filled => taken'[o] = taken[o]
             /\ o \in filled => /\ Chunk(o) \in 1..Qty /\ taken'[o] = taken[o] + Chunk(o)
                                /\ taken'[o] \in 1..Qty
  <2>1. taken[o] \in 0..Qty /\ Qty \in Nat
    BY BacktestAssumption DEF TypeOK
  <2>2. taken[o] \in Nat
    BY <2>1
  <2>3. o \in filled => Chunk(o) \in 1..Qty /\ taken[o] + Chunk(o) \in 1..Qty
    BY <1>4, <2>2, ChunkFacts
  <2>4. taken'[o] = taken[o] + (IF o \in filled THEN Chunk(o) ELSE 0)
    BY <1>1
  <2> QED
    BY <2>2, <2>3, <2>4
<1>9. TodoInv'
  <2>1. InOrder(todo)'
    BY <1>6 DEF InOrder, Holds, IsRow
  <2> QED
    BY <2>1 DEF TodoInv
<1>10. PlacedInv'
  <2>0. \A o \in Orders : \A kind \in {"intent", "order", "accepted"} : ~ToWrite(kind, o)'
    BY <1>7
  <2>1. {o \in Orders : HasRow("intent", o)' \/ ToWrite("intent", o)'}
          = {o \in Orders : HasRow("intent", o) \/ ToWrite("intent", o)}
    BY <1>2, <1>3, <2>0
  <2>2. \E m \in 0..NOrders : {o \in Orders : HasRow("intent", o)' \/ ToWrite("intent", o)'} = 1..m
    BY <1>1, <2>1 DEF PlacedInv
  <2>3. /\ \A o : HasRow("intent", o)' <=> HasRow("intent", o)
        /\ \A o : HasRow("order", o)' <=> HasRow("order", o)
        /\ \A o : HasRow("accepted", o)' <=> HasRow("accepted", o)
    BY <1>2
  <2>4. \A o \in Orders :
          /\ HasRow("accepted", o) => HasRow("order", o)
          /\ HasRow("order", o) => HasRow("intent", o)
          /\ HasRow("intent", o) => HasRow("order", o)
          /\ HasRow("order", o) => HasRow("accepted", o)
          /\ taken[o] > 0 => HasRow("accepted", o)
          /\ (o \in book) <=> (HasRow("accepted", o) /\ taken[o] < Qty)
    BY <1>1, <1>3 DEF PlacedInv
  <2>5. \A o \in Orders : taken'[o] > 0 => HasRow("accepted", o)
    BY <1>4, <1>8, <2>4
  <2>6. \A o \in Orders : (o \in book') <=> (HasRow("accepted", o) /\ taken'[o] < Qty)
    <3> SUFFICES ASSUME NEW o \in Orders
                 PROVE  (o \in book') <=> (HasRow("accepted", o) /\ taken'[o] < Qty)
      OBVIOUS
    <3>1. (o \in book') <=> (o \in book /\ taken'[o] < Qty)
      BY <1>1
    <3>2. o \in filled => o \in book
      BY <1>4
    <3>3. o \notin filled => taken'[o] = taken[o]
      BY <1>8
    <3> QED
      BY <2>4, <3>1, <3>2, <3>3
  <2> QED
    BY <2>0, <2>2, <2>3, <2>4, <2>5, <2>6 DEF PlacedInv
<1>11. FilledInv'
  <2> SUFFICES ASSUME NEW o \in Orders
               PROVE  /\ portfolio'[o] = Recorded(o)'
                      /\ ~ToWrite("fill", o)' => Recorded(o)' = taken'[o]
                      /\ \A i \in DOMAIN todo' :
                           /\ IsRow(todo'[i], "fill", o) =>
                                todo'[i].n >= 1 /\ Recorded(o)' + todo'[i].n = taken'[o]
                           /\ IsRow(todo'[i], "state", o) => todo'[i].n = taken'[o]
                      /\ \A kind \in {"fill", "state", "position"} : ToWrite(kind, o)' => taken'[o] > 0
                      /\ \A kind \in {"state", "position"} :
                           taken'[o] > 0 /\ ~ToWrite(kind, o)' => LastSays(kind, o, taken[o])'
                      /\ \A i \in DOMAIN log' : IsRow(log'[i], "state", o) /\ log'[i].n = Qty =>
                           taken'[o] = Qty /\ ~ToWrite("state", o)'
    BY DEF FilledInv, IsRow
  <2>1. portfolio'[o] = Recorded(o)' /\ Recorded(o)' = taken[o]
    BY <1>1, <1>2, <1>3 DEF FilledInv
  <2>2. ~ToWrite("fill", o)' => Recorded(o)' = taken'[o]
    BY <1>7, <1>8, <2>1
  <2>3. \A i \in DOMAIN todo' :
          /\ IsRow(todo'[i], "fill", o) => todo'[i].n >= 1 /\ Recorded(o)' + todo'[i].n = taken'[o]
          /\ IsRow(todo'[i], "state", o) => todo'[i].n = taken'[o]
    <3> SUFFICES ASSUME NEW i \in DOMAIN todo'
                 PROVE  /\ IsRow(todo'[i], "fill", o) =>
                             todo'[i].n >= 1 /\ Recorded(o)' + todo'[i].n = taken'[o]
                        /\ IsRow(todo'[i], "state", o) => todo'[i].n = taken'[o]
      OBVIOUS
    <3>1. CASE todo'[i].order # o
      BY <3>1 DEF IsRow
    <3>2. CASE todo'[i].order = o
      <4>1. o \in filled /\ Chunk(o) >= 1 /\ taken'[o] = taken[o] + Chunk(o)
        BY <1>6, <1>8, <3>2
      <4>2. /\ todo'[i].kind = "fill" => todo'[i].n = Chunk(o)
            /\ todo'[i].kind = "state" => todo'[i].n = taken[o] + Chunk(o)
        BY <1>6, <3>2
      <4> QED
        BY <2>1, <4>1, <4>2 DEF IsRow
    <3> QED
      BY <3>1, <3>2
  <2>4. \A kind \in {"fill", "state", "position"} : ToWrite(kind, o)' => taken'[o] > 0
    BY <1>7, <1>8
  <2>5. \A kind \in {"state", "position"} :
          taken'[o] > 0 /\ ~ToWrite(kind, o)' => LastSays(kind, o, taken[o])'
    <3> SUFFICES ASSUME NEW kind \in {"state", "position"}, taken'[o] > 0, ~ToWrite(kind, o)'
                 PROVE  LastSays(kind, o, taken[o])'
      OBVIOUS
    <3>0. taken'[o] = taken[o]
      BY <1>7, <1>8
    <3>1. LastSays(kind, o, taken[o])
      BY <1>1, <1>3, <3>0 DEF FilledInv
    <3>2. \E x : x = taken[o] /\ LastSays(kind, o, x)'
      BY <1>2, <3>1
    <3> QED
      BY <3>0, <3>2 DEF LastSays
  <2>6. \A i \in DOMAIN log' : IsRow(log'[i], "state", o) /\ log'[i].n = Qty =>
          taken'[o] = Qty /\ ~ToWrite("state", o)'
    <3> SUFFICES ASSUME NEW i \in DOMAIN log', IsRow(log'[i], "state", o), log'[i].n = Qty
                 PROVE  taken'[o] = Qty /\ ~ToWrite("state", o)'
      OBVIOUS
    <3>1. i \in DOMAIN log /\ log'[i] = log[i]
      BY <1>2 DEF IsRow
    <3>2. taken[o] = Qty
      BY <1>1, <3>1 DEF FilledInv
    <3>3. o \notin filled
      BY <1>4, <1>8, <3>2
    <3> QED
      BY <1>7, <1>8, <3>2, <3>3
  <2> QED
    BY <2>1, <2>2, <2>3, <2>4, <2>5, <2>6
<1>12. ExpiredInv'
  <2>1. \A o \in Orders : ~ToWrite("expired", o)' /\ ~HasRow("expired", o)'
    BY <1>1, <1>2, <1>7 DEF ExpiredInv
  <2>2. \A o \in Orders : \A i \in DOMAIN todo' : ~IsRow(todo'[i], "expired", o)
    BY <2>1 DEF ToWrite, IsRow
  <2> QED
    BY <1>1, <2>1, <2>2 DEF ExpiredInv, IsRow
<1>13. LookInv'
  <2>1. ASSUME NEW o \in book
        PROVE  \E j \in DOMAIN log' : IsRow(log'[j], "accepted", o) /\ log'[j].time + Latency = eligible[o]
    BY <1>1, <1>2, <2>1 DEF LookInv
  <2>2. ASSUME NEW i \in DOMAIN todo'
        PROVE  \E j \in DOMAIN log' : /\ IsRow(log'[j], "accepted", todo'[i].order)
                                      /\ log'[j].time + Latency <= candles'[k'].open
    <3>1. todo'[i].order \in book /\ eligible[todo'[i].order] <= candles[k].open
      BY <1>1, <1>4, <1>6 DEF Eligible
    <3> QED
      BY <1>1, <2>1, <3>1
  <2>3. book' \subseteq book
    BY <1>1
  <2> QED
    BY <1>1, <2>1, <2>2, <2>3 DEF LookInv, IsRow
<1> QED
  BY <1>9, <1>10, <1>11, <1>12, <1>13

\* At the end of the candles every resting order is to be expired with what it filled.
LEMMA ExpiryKeeps ==
  ASSUME TypeOK, FlowInv, TodoInv, PlacedInv, FilledInv, ExpiredInv, LookInv, ExpireBegins
  PROVE  TodoInv' /\ PlacedInv' /\ FilledInv' /\ ExpiredInv' /\ LookInv'
<1>1. /\ ~Over /\ pc = "candle" /\ pc' = "expire" /\ todo = <<>> /\ todo' = ExpiredRows /\ book' = {}
      /\ k = Len(candles) + 1 /\ candles # <<>>
      /\ eligible' = eligible /\ taken' = taken /\ portfolio' = portfolio
  BY DEF ExpireBegins
<1>2. /\ \A i \in DOMAIN log : i \in DOMAIN log' /\ log'[i] = log[i]
      /\ \A i \in DOMAIN log' : i \in DOMAIN log \/ log'[i].kind = "equity"
      /\ \A kind, o : kind # "equity" => (HasRow(kind, o)' <=> HasRow(kind, o))
      /\ \A o : Recorded(o)' = Recorded(o)
      /\ \A kind, o, n : kind # "equity" /\ LastSays(kind, o, n) => LastSays(kind, o, n)'
  BY DEF ExpireBegins, Kept
<1>3. \A kind, o : ~ToWrite(kind, o)
  BY <1>1, NothingToWrite
<1>4. /\ InOrder(todo')
      /\ \A i \in DOMAIN todo' : /\ todo'[i].kind = "expired" /\ todo'[i].order \in book
                                 /\ todo'[i].n = taken[todo'[i].order]
      /\ \A o \in book : Holds(todo', "expired", o)
  <2> DEFINE rows == todo'
  <2>1. rows = ExpiredRows /\ Len(candles) <= NSlots
    BY <1>1 DEF FlowInv
  <2> HIDE DEF rows
  <2>2. /\ InOrder(rows)
        /\ \A i \in DOMAIN rows : /\ rows[i].kind = "expired" /\ rows[i].order \in book
                                  /\ rows[i].n = taken[rows[i].order]
        /\ \A o \in book : Holds(rows, "expired", o)
    BY <1>1, <2>1, ExpiredFacts
  <2> QED
    BY <2>2 DEF rows
<1>5. /\ \A o : \A kind : ToWrite(kind, o)' => kind = "expired" /\ o \in book
      /\ \A o \in book : ToWrite("expired", o)'
  BY <1>4 DEF ToWrite, Holds, IsRow
<1>6. \A o \in Orders :
        /\ HasRow("accepted", o) => HasRow("order", o)
        /\ HasRow("order", o) => HasRow("intent", o)
        /\ HasRow("intent", o) => HasRow("order", o)
        /\ HasRow("order", o) => HasRow("accepted", o)
        /\ taken[o] > 0 => HasRow("accepted", o)
        /\ (o \in book) <=> (HasRow("accepted", o) /\ taken[o] < Qty)
  BY <1>1, <1>3 DEF PlacedInv
<1>7. TodoInv'
  <2>1. InOrder(todo)'
    BY <1>4 DEF InOrder, Holds, IsRow
  <2> QED
    BY <2>1 DEF TodoInv
<1>8. PlacedInv'
  <2>0. \A o \in Orders : \A kind \in {"intent", "order", "accepted"} : ~ToWrite(kind, o)'
    BY <1>5
  <2>1. {o \in Orders : HasRow("intent", o)' \/ ToWrite("intent", o)'}
          = {o \in Orders : HasRow("intent", o) \/ ToWrite("intent", o)}
    BY <1>2, <1>3, <2>0
  <2>2. \E m \in 0..NOrders : {o \in Orders : HasRow("intent", o)' \/ ToWrite("intent", o)'} = 1..m
    BY <1>1, <2>1 DEF PlacedInv
  <2>3. /\ \A o : HasRow("intent", o)' <=> HasRow("intent", o)
        /\ \A o : HasRow("order", o)' <=> HasRow("order", o)
        /\ \A o : HasRow("accepted", o)' <=> HasRow("accepted", o)
    BY <1>2
  <2> QED
    BY <1>1, <1>6, <2>0, <2>2, <2>3 DEF PlacedInv
<1>9. FilledInv'
  <2> SUFFICES ASSUME NEW o \in Orders
               PROVE  /\ portfolio'[o] = Recorded(o)'
                      /\ ~ToWrite("fill", o)' => Recorded(o)' = taken'[o]
                      /\ \A i \in DOMAIN todo' :
                           /\ IsRow(todo'[i], "fill", o) =>
                                todo'[i].n >= 1 /\ Recorded(o)' + todo'[i].n = taken'[o]
                           /\ IsRow(todo'[i], "state", o) => todo'[i].n = taken'[o]
                      /\ \A kind \in {"fill", "state", "position"} : ToWrite(kind, o)' => taken'[o] > 0
                      /\ \A kind \in {"state", "position"} :
                           taken'[o] > 0 /\ ~ToWrite(kind, o)' => LastSays(kind, o, taken[o])'
                      /\ \A i \in DOMAIN log' : IsRow(log'[i], "state", o) /\ log'[i].n = Qty =>
                           taken'[o] = Qty /\ ~ToWrite("state", o)'
    BY DEF FilledInv, IsRow
  <2>1. \A kind \in {"fill", "state", "position"} : ~ToWrite(kind, o)'
    BY <1>5
  <2>2. \A i \in DOMAIN todo' : ~IsRow(todo'[i], "fill", o) /\ ~IsRow(todo'[i], "state", o)
    BY <2>1 DEF ToWrite, IsRow
  <2>3. \A kind \in {"state", "position"} : taken'[o] > 0 => LastSays(kind, o, taken[o])'
    <3> SUFFICES ASSUME NEW kind \in {"state", "position"}, taken'[o] > 0
                 PROVE  LastSays(kind, o, taken[o])'
      OBVIOUS
    <3>1. LastSays(kind, o, taken[o])
      BY <1>1, <1>3 DEF FilledInv
    <3>2. \E x : x = taken[o] /\ LastSays(kind, o, x)'
      BY <1>2, <3>1
    <3> QED
      BY <1>1, <3>2 DEF LastSays
  <2>4. \A i \in DOMAIN log' : IsRow(log'[i], "state", o) /\ log'[i].n = Qty => taken'[o] = Qty
    BY <1>1, <1>2 DEF FilledInv, IsRow
  <2>5. portfolio'[o] = Recorded(o)' /\ Recorded(o)' = taken'[o]
    BY <1>1, <1>2, <1>3 DEF FilledInv
  <2> QED
    BY <2>1, <2>2, <2>3, <2>4, <2>5
<1>10. ExpiredInv'
  <2> SUFFICES ASSUME NEW o \in Orders
               PROVE  /\ ~HasRow("expired", o)'
                      /\ \A i \in DOMAIN todo' : IsRow(todo'[i], "expired", o) =>
                           todo'[i].n = taken[o] /\ taken[o] < Qty /\ HasRow("accepted", o)'
                      /\ HasRow("accepted", o)' => taken[o] = Qty \/ ToWrite("expired", o)'
    BY <1>1 DEF ExpiredInv, IsRow
  <2>1. ~HasRow("expired", o)'
    BY <1>1, <1>2 DEF ExpiredInv
  <2>2. HasRow("accepted", o)' <=> HasRow("accepted", o)
    BY <1>2
  <2>3. \A i \in DOMAIN todo' : IsRow(todo'[i], "expired", o) => todo'[i].n = taken[o] /\ o \in book
    BY <1>4 DEF IsRow
  <2>4. taken[o] < Qty \/ taken[o] = Qty
    <3>1. taken[o] \in 0..Qty /\ Qty \in Nat
      BY BacktestAssumption DEF TypeOK
    <3> QED
      BY <3>1
  <2> QED
    BY <1>5, <1>6, <2>1, <2>2, <2>3, <2>4
<1>11. LookInv'
  BY <1>1 DEF LookInv
<1> QED
  BY <1>7, <1>8, <1>9, <1>10, <1>11

\* The next row goes from what is left to write to the record.
LEMMA RowMoves ==
  ASSUME TypeOK, FlowInv, TodoInv, ~Over, todo # <<>>, todo' = Tail(todo),
         NEW r \in Rows, log' = Append(log, r), r.kind = Head(todo).kind, r.order = Head(todo).order
  PROVE  /\ InOrder(todo)' /\ r.kind # "equity" /\ 1 \in DOMAIN todo /\ todo[1] = Head(todo)
         /\ r.kind # "decision" => r.order \in Orders
         /\ r.kind \in KindsIn(pc)
         /\ \A i \in DOMAIN todo' : i + 1 \in DOMAIN todo /\ todo'[i] = todo[i + 1]
         /\ \A kind, o : ToWrite(kind, o)' <=> ToWrite(kind, o) /\ ~IsRow(r, kind, o)
         /\ \A kind, o : IsRow(r, kind, o) => ToWrite(kind, o)
         /\ \A pair \in Earlier : r.kind = pair[1] => ToWrite(pair[2], r.order)'
         /\ \A pair \in Earlier : r.kind = pair[2] => ~ToWrite(pair[1], r.order)
         /\ \A i \in DOMAIN log : i \in DOMAIN log' /\ log'[i] = log[i]
         /\ Len(log) + 1 \in DOMAIN log' /\ log'[Len(log) + 1] = r
         /\ \A i \in DOMAIN log' : i \in DOMAIN log \/ log'[i] = r
         /\ \A kind, o : HasRow(kind, o)' <=> (HasRow(kind, o) \/ IsRow(r, kind, o))
         /\ \A o : Recorded(o)' = Recorded(o) + Contribution(r, o)
         /\ \A kind, o, n :
              IF IsRow(r, kind, o) THEN LastSays(kind, o, n)' <=> r.n = n
              ELSE LastSays(kind, o, n) => LastSays(kind, o, n)'
<1>1. /\ Head(todo) \in Rows /\ Head(todo).kind \in KindsIn(pc)
      /\ Head(todo).kind # "decision" => Head(todo).order \in Orders
  BY NextRow
<1>2. r.kind # "equity" /\ r.kind \in KindsIn(pc) /\ (r.kind # "decision" => r.order \in Orders)
  BY <1>1 DEF KindsIn
<1>3. todo \in Seq(Rows) /\ InOrder(todo) /\ log \in Seq(Rows)
  BY DEF TypeOK, TodoInv
<1>4. /\ InOrder(Tail(todo)) /\ 1 \in DOMAIN todo /\ todo[1] = Head(todo)
      /\ \A i \in DOMAIN Tail(todo) : i + 1 \in DOMAIN todo /\ Tail(todo)[i] = todo[i + 1]
      /\ \A kind, o :
           Holds(Tail(todo), kind, o) <=> Holds(todo, kind, o) /\ ~IsRow(Head(todo), kind, o)
      /\ \A pair \in Earlier : Head(todo).kind = pair[1] => Holds(Tail(todo), pair[2], Head(todo).order)
      /\ \A pair \in Earlier : Head(todo).kind = pair[2] => ~Holds(todo, pair[1], Head(todo).order)
  BY <1>3, TailInOrder
<1>5. /\ \A kind, o : ToWrite(kind, o)' <=> Holds(Tail(todo), kind, o)
      /\ \A kind, o : ToWrite(kind, o) <=> Holds(todo, kind, o)
      /\ \A kind, o : IsRow(r, kind, o) <=> IsRow(Head(todo), kind, o)
  BY DEF ToWrite, Holds, IsRow
<1>6. InOrder(todo)'
  BY <1>4 DEF InOrder, Holds, IsRow
<1>7. \A kind, o : IsRow(r, kind, o) => ToWrite(kind, o)
  BY <1>4, <1>5 DEF Holds
<1>8. /\ \A pair \in Earlier : r.kind = pair[1] => ToWrite(pair[2], r.order)'
      /\ \A pair \in Earlier : r.kind = pair[2] => ~ToWrite(pair[1], r.order)
  BY <1>4, <1>5
<1>9. \A kind, o : ToWrite(kind, o)' <=> ToWrite(kind, o) /\ ~IsRow(r, kind, o)
  BY <1>4, <1>5
<1>10. /\ Len(log) \in Nat /\ Len(log') = Len(log) + 1 /\ log'[Len(log) + 1] = r
       /\ \A i \in DOMAIN log : i \in DOMAIN log' /\ log'[i] = log[i]
       /\ \A i \in DOMAIN log' : i \in DOMAIN log \/ i = Len(log) + 1
       /\ \A kind, o : HasRow(kind, o)' <=> (HasRow(kind, o) \/ IsRow(r, kind, o))
       /\ \A o : Recorded(o)' = Recorded(o) + Contribution(r, o)
       /\ \A kind, o, n :
            IF IsRow(r, kind, o) THEN LastSays(kind, o, n)' <=> r.n = n
            ELSE LastSays(kind, o, n) => LastSays(kind, o, n)'
       /\ log' \in Seq(Rows)
  BY <1>2, <1>3, RowLogged
<1>11. Len(log) + 1 \in DOMAIN log' /\ \A i \in DOMAIN log' : i \in DOMAIN log \/ log'[i] = r
  BY <1>10, LenProperties
<1> QED
  BY <1>2, <1>4, <1>6, <1>7, <1>8, <1>9, <1>10, <1>11

\* A row that is written says what it was to say, and the rest is still in order.
LEMMA RowKeeps ==
  ASSUME TypeOK, FlowInv, TodoInv, PlacedInv, FilledInv, ExpiredInv, LookInv,
         NEW r \in Rows, RowStep(r)
  PROVE  TodoInv' /\ PlacedInv' /\ FilledInv' /\ ExpiredInv' /\ LookInv'
<1>1. /\ ~Over /\ pc \in {"fills", "output"} /\ pc # "expire" /\ pc' # "expire"
      /\ pc' = "fills" => pc = "fills" /\ k' = k
      /\ candles' = candles /\ taken' = taken
      /\ todo # <<>> /\ todo' = Tail(todo) /\ log' = Append(log, r)
      /\ r.kind = Head(todo).kind /\ r.order = Head(todo).order /\ r.time = Head(todo).time
      /\ r.n = IF r.kind = "position" THEN portfolio[r.order] ELSE Head(todo).n
      /\ portfolio' = IF r.kind = "fill" THEN [portfolio EXCEPT ![r.order] = @ + r.n] ELSE portfolio
      /\ book' = IF r.kind = "accepted" THEN book \cup {r.order} ELSE book
      /\ eligible' = IF r.kind = "accepted"
                     THEN [eligible EXCEPT ![r.order] = r.time + Latency] ELSE eligible
  BY DEF RowStep
<1>2. /\ InOrder(todo)' /\ 1 \in DOMAIN todo /\ todo[1] = Head(todo)
      /\ r.kind # "decision" => r.order \in Orders
      /\ r.kind \in KindsIn(pc)
      /\ \A i \in DOMAIN todo' : i + 1 \in DOMAIN todo /\ todo'[i] = todo[i + 1]
      /\ \A kind, o : ToWrite(kind, o)' <=> ToWrite(kind, o) /\ ~IsRow(r, kind, o)
      /\ \A kind, o : IsRow(r, kind, o) => ToWrite(kind, o)
  BY <1>1, RowMoves
<1>3. /\ \A pair \in Earlier : r.kind = pair[1] => ToWrite(pair[2], r.order)'
      /\ \A pair \in Earlier : r.kind = pair[2] => ~ToWrite(pair[1], r.order)
  BY <1>1, RowMoves
<1>4. /\ \A i \in DOMAIN log : i \in DOMAIN log' /\ log'[i] = log[i]
      /\ Len(log) + 1 \in DOMAIN log' /\ log'[Len(log) + 1] = r
      /\ \A i \in DOMAIN log' : i \in DOMAIN log \/ log'[i] = r
      /\ \A kind, o : HasRow(kind, o)' <=> (HasRow(kind, o) \/ IsRow(r, kind, o))
      /\ \A o : Recorded(o)' = Recorded(o) + Contribution(r, o)
      /\ \A kind, o, n :
           IF IsRow(r, kind, o) THEN LastSays(kind, o, n)' <=> r.n = n
           ELSE LastSays(kind, o, n) => LastSays(kind, o, n)'
  BY <1>1, RowMoves
<1>5. r.kind # "expired"
  BY <1>1, <1>2 DEF KindsIn
<1>6. TodoInv'
  BY <1>2 DEF TodoInv
<1>7. PlacedInv'
  <2>1. {o \in Orders : HasRow("intent", o)' \/ ToWrite("intent", o)'}
          = {o \in Orders : HasRow("intent", o) \/ ToWrite("intent", o)}
    BY <1>2, <1>4
  <2>2. \E m \in 0..NOrders : {o \in Orders : HasRow("intent", o)' \/ ToWrite("intent", o)'} = 1..m
    BY <1>1, <2>1 DEF PlacedInv
  <2>3. ASSUME NEW o \in Orders
        PROVE  /\ \A kind \in {"intent", "order", "accepted"} : ToWrite(kind, o) => ~HasRow(kind, o)
               /\ HasRow("accepted", o) => HasRow("order", o)
               /\ HasRow("order", o) => HasRow("intent", o)
               /\ HasRow("intent", o) => HasRow("order", o) \/ ToWrite("order", o)
               /\ HasRow("order", o) => HasRow("accepted", o) \/ ToWrite("accepted", o)
               /\ ToWrite("order", o) => HasRow("intent", o) \/ ToWrite("intent", o)
               /\ ToWrite("accepted", o) => HasRow("order", o) \/ ToWrite("order", o)
               /\ taken[o] > 0 => HasRow("accepted", o)
               /\ (o \in book) <=> (HasRow("accepted", o) /\ taken[o] < Qty)
    BY <1>1 DEF PlacedInv
  <2>4. ASSUME NEW o \in Orders
        PROVE  \A kind \in {"intent", "order", "accepted"} : ToWrite(kind, o)' => ~HasRow(kind, o)'
    BY <1>2, <1>4, <2>3
  <2>5. ASSUME NEW o \in Orders
        PROVE  /\ IsRow(r, "accepted", o) => ~ToWrite("order", o) /\ ~ToWrite("intent", o)
               /\ IsRow(r, "order", o) => ~ToWrite("intent", o) /\ ToWrite("accepted", o)'
               /\ IsRow(r, "intent", o) => ToWrite("order", o)'
    <3>1. /\ <<"order", "accepted">> \in Earlier /\ <<"intent", "accepted">> \in Earlier
          /\ <<"intent", "order">> \in Earlier
      BY DEF Earlier
    <3>2. IsRow(r, "accepted", o) => ~ToWrite("order", o) /\ ~ToWrite("intent", o)
      <4>1. r.kind = <<"order", "accepted">>[2] => ~ToWrite(<<"order", "accepted">>[1], r.order)
        BY <1>3, <3>1
      <4>2. r.kind = <<"intent", "accepted">>[2] => ~ToWrite(<<"intent", "accepted">>[1], r.order)
        BY <1>3, <3>1
      <4> QED
        BY <4>1, <4>2 DEF IsRow
    <3>3. IsRow(r, "order", o) => ~ToWrite("intent", o) /\ ToWrite("accepted", o)'
      <4>1. r.kind = <<"intent", "order">>[2] => ~ToWrite(<<"intent", "order">>[1], r.order)
        BY <1>3, <3>1
      <4>2. r.kind = <<"order", "accepted">>[1] => ToWrite(<<"order", "accepted">>[2], r.order)'
        BY <1>3, <3>1
      <4> QED
        BY <4>1, <4>2 DEF IsRow, ToWrite
    <3>4. IsRow(r, "intent", o) => ToWrite("order", o)'
      <4>1. r.kind = <<"intent", "order">>[1] => ToWrite(<<"intent", "order">>[2], r.order)'
        BY <1>3, <3>1
      <4> QED
        BY <4>1 DEF IsRow, ToWrite
    <3> QED
      BY <3>2, <3>3, <3>4
  <2>6. ASSUME NEW o \in Orders
        PROVE  /\ HasRow("accepted", o)' => HasRow("order", o)'
               /\ HasRow("order", o)' => HasRow("intent", o)'
               /\ HasRow("intent", o)' => HasRow("order", o)' \/ ToWrite("order", o)'
               /\ HasRow("order", o)' => HasRow("accepted", o)' \/ ToWrite("accepted", o)'
               /\ ToWrite("order", o)' => HasRow("intent", o)' \/ ToWrite("intent", o)'
               /\ ToWrite("accepted", o)' => HasRow("order", o)' \/ ToWrite("order", o)'
    <3>1. \A kind : /\ ToWrite(kind, o)' => ToWrite(kind, o)
                    /\ HasRow(kind, o) => HasRow(kind, o)'
                    /\ HasRow(kind, o)' => HasRow(kind, o) \/ (IsRow(r, kind, o) /\ ToWrite(kind, o))
                    /\ ToWrite(kind, o) => ToWrite(kind, o)' \/ HasRow(kind, o)'
      BY <1>2, <1>4
    <3>2. HasRow("accepted", o)' => HasRow("order", o)'
      BY <2>3, <2>5, <3>1
    <3>3. HasRow("order", o)' => HasRow("intent", o)'
      BY <2>3, <2>5, <3>1
    <3>4. HasRow("intent", o)' => HasRow("order", o)' \/ ToWrite("order", o)'
      BY <2>3, <2>5, <3>1
    <3>5. HasRow("order", o)' => HasRow("accepted", o)' \/ ToWrite("accepted", o)'
      BY <2>3, <2>5, <3>1
    <3>6. ToWrite("order", o)' => HasRow("intent", o)' \/ ToWrite("intent", o)'
      BY <2>3, <3>1
    <3>7. ToWrite("accepted", o)' => HasRow("order", o)' \/ ToWrite("order", o)'
      BY <2>3, <3>1
    <3> QED
      BY <3>2, <3>3, <3>4, <3>5, <3>6, <3>7
  <2>7. ASSUME NEW o \in Orders
        PROVE  /\ taken'[o] > 0 => HasRow("accepted", o)'
               /\ (o \in book') <=> (HasRow("accepted", o)' /\ taken'[o] < Qty)
    <3>1. HasRow("accepted", o)' <=> (HasRow("accepted", o) \/ IsRow(r, "accepted", o))
      BY <1>4
    <3>2. (o \in book') <=> (o \in book \/ IsRow(r, "accepted", o))
      BY <1>1 DEF IsRow
    <3>3. IsRow(r, "accepted", o) => taken[o] < Qty
      <4>1. taken[o] \in 0..Qty /\ Qty \in Nat \ {0}
        BY BacktestAssumption DEF TypeOK
      <4>2. IsRow(r, "accepted", o) => ~(taken[o] > 0)
        BY <1>2, <2>3
      <4> QED
        BY <4>1, <4>2
    <3> QED
      BY <1>1, <2>3, <3>1, <3>2, <3>3
  <2> QED
    BY <2>2, <2>4, <2>6, <2>7 DEF PlacedInv
<1>8. FilledInv'
  <2> SUFFICES ASSUME NEW o \in Orders
               PROVE  /\ portfolio'[o] = Recorded(o)'
                      /\ ~ToWrite("fill", o)' => Recorded(o)' = taken'[o]
                      /\ \A i \in DOMAIN todo' :
                           /\ IsRow(todo'[i], "fill", o) =>
                                todo'[i].n >= 1 /\ Recorded(o)' + todo'[i].n = taken'[o]
                           /\ IsRow(todo'[i], "state", o) => todo'[i].n = taken'[o]
                      /\ \A kind \in {"fill", "state", "position"} : ToWrite(kind, o)' => taken'[o] > 0
                      /\ \A kind \in {"state", "position"} :
                           taken'[o] > 0 /\ ~ToWrite(kind, o)' => LastSays(kind, o, taken[o])'
                      /\ \A i \in DOMAIN log' : IsRow(log'[i], "state", o) /\ log'[i].n = Qty =>
                           taken'[o] = Qty /\ ~ToWrite("state", o)'
    BY DEF FilledInv, IsRow
  <2>0. /\ portfolio[o] = Recorded(o)
        /\ ~ToWrite("fill", o) => Recorded(o) = taken[o]
        /\ \A i \in DOMAIN todo :
             /\ IsRow(todo[i], "fill", o) => todo[i].n >= 1 /\ Recorded(o) + todo[i].n = taken[o]
             /\ IsRow(todo[i], "state", o) => todo[i].n = taken[o]
        /\ \A kind \in {"fill", "state", "position"} : ToWrite(kind, o) => taken[o] > 0
        /\ \A kind \in {"state", "position"} :
             taken[o] > 0 /\ ~ToWrite(kind, o) => LastSays(kind, o, taken[o])
        /\ \A i \in DOMAIN log : IsRow(log[i], "state", o) /\ log[i].n = Qty =>
             taken[o] = Qty /\ ~ToWrite("state", o)
    BY <1>1 DEF FilledInv
  <2>a. Recorded(o) \in Nat
    <3>1. portfolio[o] \in 0..Qty /\ Qty \in Nat
      BY BacktestAssumption DEF TypeOK
    <3> QED
      BY <2>0, <3>1
  <2>b. IF IsRow(r, "fill", o) THEN Recorded(o)' = Recorded(o) + r.n ELSE Recorded(o)' = Recorded(o)
    <3>1. Recorded(o)' = Recorded(o) + Contribution(r, o)
      BY <1>4
    <3> QED
      BY <2>a, <3>1 DEF Contribution
  <2>c. /\ IsRow(r, "fill", o) => Recorded(o) + r.n = taken[o]
        /\ IsRow(r, "state", o) => r.n = taken[o]
    BY <1>1, <1>2, <2>0 DEF IsRow
  <2>1. portfolio'[o] = Recorded(o)'
    <3>1. CASE IsRow(r, "fill", o)
      BY <1>1, <2>0, <2>b, <3>1 DEF IsRow, TypeOK
    <3>2. CASE ~IsRow(r, "fill", o)
      BY <1>1, <2>0, <2>b, <3>2 DEF IsRow, TypeOK
    <3> QED
      BY <3>1, <3>2
  <2>2. ~ToWrite("fill", o)' => Recorded(o)' = taken'[o]
    BY <1>1, <1>2, <2>0, <2>b, <2>c
  <2>3. ASSUME NEW i \in DOMAIN todo'
        PROVE  /\ IsRow(todo'[i], "fill", o) =>
                    todo'[i].n >= 1 /\ Recorded(o)' + todo'[i].n = taken'[o]
               /\ IsRow(todo'[i], "state", o) => todo'[i].n = taken'[o]
    <3>1. IsRow(todo'[i], "fill", o) => ~IsRow(r, "fill", o)
      <4>1. IsRow(todo'[i], "fill", o) => ToWrite("fill", o)'
        BY DEF ToWrite, IsRow
      <4> QED
        BY <1>2, <4>1
    <3>2. i + 1 \in DOMAIN todo /\ todo'[i] = todo[i + 1]
      BY <1>2
    <3> QED
      BY <1>1, <2>0, <2>b, <3>1, <3>2
  <2>4. \A kind \in {"fill", "state", "position"} : ToWrite(kind, o)' => taken'[o] > 0
    BY <1>1, <1>2, <2>0
  <2>5. ASSUME NEW kind \in {"state", "position"}, taken'[o] > 0, ~ToWrite(kind, o)'
        PROVE  LastSays(kind, o, taken[o])'
    <3>1. CASE IsRow(r, kind, o)
      <4>1. r.n = taken[o]
        <5>1. CASE kind = "state"
          BY <2>c, <3>1, <5>1
        <5>2. CASE kind = "position"
          <6>1. <<"fill", "position">> \in Earlier
            BY DEF Earlier
          <6>2. r.kind = <<"fill", "position">>[2] => ~ToWrite(<<"fill", "position">>[1], r.order)
            BY <1>3, <6>1
          <6>3. ~ToWrite("fill", o)
            BY <3>1, <5>2, <6>2 DEF IsRow
          <6>4. r.n = portfolio[o]
            BY <1>1, <3>1, <5>2 DEF IsRow
          <6> QED
            BY <2>0, <6>3, <6>4
        <5> QED
          BY <5>1, <5>2
      <4>2. \E x : x = taken[o] /\ LastSays(kind, o, x)'
        BY <1>4, <3>1, <4>1
      <4> QED
        BY <1>1, <4>2 DEF LastSays
    <3>2. CASE ~IsRow(r, kind, o)
      <4>1. LastSays(kind, o, taken[o])
        BY <1>1, <1>2, <2>0, <2>5, <3>2
      <4>2. \E x : x = taken[o] /\ LastSays(kind, o, x)'
        BY <1>4, <3>2, <4>1
      <4> QED
        BY <1>1, <4>2 DEF LastSays
    <3> QED
      BY <3>1, <3>2
  <2>6. ASSUME NEW i \in DOMAIN log', IsRow(log'[i], "state", o), log'[i].n = Qty
        PROVE  taken'[o] = Qty /\ ~ToWrite("state", o)'
    <3>1. CASE i \in DOMAIN log
      BY <1>1, <1>2, <1>4, <2>0, <2>6, <3>1
    <3>2. CASE log'[i] = r
      BY <1>1, <1>2, <2>c, <2>6, <3>2
    <3> QED
      BY <1>4, <3>1, <3>2
  <2> QED
    BY <2>1, <2>2, <2>3, <2>4, <2>5, <2>6
<1>9. ExpiredInv'
  <2> SUFFICES ASSUME NEW o \in Orders
               PROVE  /\ ~HasRow("expired", o)'
                      /\ \A i \in DOMAIN todo' : IsRow(todo'[i], "expired", o) =>
                           todo'[i].n = taken[o] /\ taken[o] < Qty /\ HasRow("accepted", o)'
    BY <1>1 DEF ExpiredInv, IsRow
  <2>1. ~HasRow("expired", o)'
    BY <1>1, <1>4, <1>5 DEF ExpiredInv, IsRow
  <2>2. HasRow("accepted", o) => HasRow("accepted", o)'
    BY <1>4
  <2> QED
    BY <1>1, <1>2, <2>1, <2>2 DEF ExpiredInv
<1>10. LookInv'
  <2>1. ASSUME NEW o \in book'
        PROVE  \E j \in DOMAIN log' :
                 IsRow(log'[j], "accepted", o) /\ log'[j].time + Latency = eligible'[o]
    <3>1. CASE IsRow(r, "accepted", o)
      <4>1. o \in Orders /\ r.order = o /\ r.kind = "accepted"
        BY <1>2, <3>1 DEF IsRow
      <4>2. eligible'[o] = r.time + Latency
        BY <1>1, <4>1 DEF TypeOK
      <4> QED
        BY <1>4, <3>1, <4>2
    <3>2. CASE ~IsRow(r, "accepted", o)
      <4>1. o \in book /\ eligible'[o] = eligible[o]
        BY <1>1, <3>2 DEF IsRow, TypeOK
      <4> QED
        BY <1>1, <1>4, <4>1 DEF LookInv
    <3> QED
      BY <3>1, <3>2
  <2>2. ASSUME pc' = "fills", NEW i \in DOMAIN todo', todo'[i].kind = "fill"
        PROVE  \E j \in DOMAIN log' : /\ IsRow(log'[j], "accepted", todo'[i].order)
                                      /\ log'[j].time + Latency <= candles'[k'].open
    BY <1>1, <1>2, <1>4, <2>2 DEF LookInv
  <2> QED
    BY <2>1, <2>2 DEF LookInv, IsRow
<1> QED
  BY <1>6, <1>7, <1>8, <1>9, <1>10

\* An expired order is on the record once, with what it filled.
LEMMA ExpiryStepKeeps ==
  ASSUME TypeOK, FlowInv, TodoInv, PlacedInv, FilledInv, ExpiredInv, LookInv, ExpiryStep
  PROVE  TodoInv' /\ PlacedInv' /\ FilledInv' /\ ExpiredInv' /\ LookInv'
<1> DEFINE r == Head(todo)
<1>0. /\ ~Over /\ pc = "expire" /\ pc' = "expire" /\ todo # <<>> /\ todo' = Tail(todo)
      /\ log' = Append(log, r) /\ book' = book /\ eligible' = eligible
      /\ taken' = taken /\ portfolio' = portfolio
  BY DEF ExpiryStep, orders
<1>r. r \in Rows /\ r = Head(todo) /\ r.kind = Head(todo).kind /\ r.order = Head(todo).order
  BY <1>0, NextRow
<1> HIDE DEF r
<1>1. /\ InOrder(todo)' /\ 1 \in DOMAIN todo /\ todo[1] = Head(todo) /\ r.kind \in KindsIn(pc)
      /\ \A i \in DOMAIN todo' : i + 1 \in DOMAIN todo /\ todo'[i] = todo[i + 1]
      /\ \A kind, o : ToWrite(kind, o)' <=> ToWrite(kind, o) /\ ~IsRow(r, kind, o)
      /\ \A kind, o : IsRow(r, kind, o) => ToWrite(kind, o)
  BY <1>0, <1>r, RowMoves
<1>2. /\ \A i \in DOMAIN log : i \in DOMAIN log' /\ log'[i] = log[i]
      /\ Len(log) + 1 \in DOMAIN log' /\ log'[Len(log) + 1] = r
      /\ \A i \in DOMAIN log' : i \in DOMAIN log \/ log'[i] = r
      /\ \A kind, o : HasRow(kind, o)' <=> (HasRow(kind, o) \/ IsRow(r, kind, o))
      /\ \A o : Recorded(o)' = Recorded(o) + Contribution(r, o)
      /\ \A kind, o, n :
           IF IsRow(r, kind, o) THEN LastSays(kind, o, n)' <=> r.n = n
           ELSE LastSays(kind, o, n) => LastSays(kind, o, n)'
  BY <1>0, <1>r, RowMoves
<1>3. r.kind = "expired"
  BY <1>0, <1>1 DEF KindsIn
<1>4. \A kind, o : kind # "expired" =>
        ~IsRow(r, kind, o) /\ (ToWrite(kind, o)' <=> ToWrite(kind, o))
                           /\ (HasRow(kind, o)' <=> HasRow(kind, o))
  BY <1>1, <1>2, <1>3 DEF IsRow
<1>5. TodoInv'
  BY <1>1 DEF TodoInv
<1>6. PlacedInv'
  <2>1. /\ \A o : HasRow("intent", o)' <=> HasRow("intent", o)
        /\ \A o : HasRow("order", o)' <=> HasRow("order", o)
        /\ \A o : HasRow("accepted", o)' <=> HasRow("accepted", o)
        /\ \A o : ToWrite("intent", o)' <=> ToWrite("intent", o)
        /\ \A o : ToWrite("order", o)' <=> ToWrite("order", o)
        /\ \A o : ToWrite("accepted", o)' <=> ToWrite("accepted", o)
    BY <1>4
  <2>2. {o \in Orders : HasRow("intent", o)' \/ ToWrite("intent", o)'}
          = {o \in Orders : HasRow("intent", o) \/ ToWrite("intent", o)}
    BY <2>1
  <2>3. \E m \in 0..NOrders : {o \in Orders : HasRow("intent", o)' \/ ToWrite("intent", o)'} = 1..m
    BY <1>0, <2>2 DEF PlacedInv
  <2> QED
    BY <1>0, <2>1, <2>3 DEF PlacedInv
<1>7. FilledInv'
  <2> SUFFICES ASSUME NEW o \in Orders
               PROVE  /\ portfolio'[o] = Recorded(o)'
                      /\ ~ToWrite("fill", o)' => Recorded(o)' = taken'[o]
                      /\ \A i \in DOMAIN todo' :
                           /\ IsRow(todo'[i], "fill", o) =>
                                todo'[i].n >= 1 /\ Recorded(o)' + todo'[i].n = taken'[o]
                           /\ IsRow(todo'[i], "state", o) => todo'[i].n = taken'[o]
                      /\ \A kind \in {"fill", "state", "position"} : ToWrite(kind, o)' => taken'[o] > 0
                      /\ \A kind \in {"state", "position"} :
                           taken'[o] > 0 /\ ~ToWrite(kind, o)' => LastSays(kind, o, taken[o])'
                      /\ \A i \in DOMAIN log' : IsRow(log'[i], "state", o) /\ log'[i].n = Qty =>
                           taken'[o] = Qty /\ ~ToWrite("state", o)'
    BY DEF FilledInv, IsRow
  <2>0. /\ portfolio[o] = Recorded(o)
        /\ ~ToWrite("fill", o) => Recorded(o) = taken[o]
        /\ \A i \in DOMAIN todo :
             /\ IsRow(todo[i], "fill", o) => todo[i].n >= 1 /\ Recorded(o) + todo[i].n = taken[o]
             /\ IsRow(todo[i], "state", o) => todo[i].n = taken[o]
        /\ \A kind \in {"fill", "state", "position"} : ToWrite(kind, o) => taken[o] > 0
        /\ \A kind \in {"state", "position"} :
             taken[o] > 0 /\ ~ToWrite(kind, o) => LastSays(kind, o, taken[o])
        /\ \A i \in DOMAIN log : IsRow(log[i], "state", o) /\ log[i].n = Qty =>
             taken[o] = Qty /\ ~ToWrite("state", o)
    BY <1>0 DEF FilledInv
  <2>1. Recorded(o)' = Recorded(o)
    <3>1. portfolio[o] \in 0..Qty /\ Qty \in Nat
      BY BacktestAssumption DEF TypeOK
    <3>2. Recorded(o)' = Recorded(o) + Contribution(r, o)
      BY <1>2
    <3>3. Contribution(r, o) = 0
      BY <1>4 DEF Contribution
    <3> QED
      BY <2>0, <3>1, <3>2, <3>3
  <2>2. ASSUME NEW kind \in {"state", "position"}, taken'[o] > 0, ~ToWrite(kind, o)'
        PROVE  LastSays(kind, o, taken[o])'
    <3>1. LastSays(kind, o, taken[o])
      BY <1>0, <1>4, <2>0, <2>2
    <3>2. \E x : x = taken[o] /\ LastSays(kind, o, x)'
      BY <1>2, <1>4, <3>1
    <3> QED
      BY <1>0, <3>2 DEF LastSays
  <2>3. ASSUME NEW i \in DOMAIN log', IsRow(log'[i], "state", o), log'[i].n = Qty
        PROVE  taken'[o] = Qty /\ ~ToWrite("state", o)'
    <3>1. i \in DOMAIN log /\ log'[i] = log[i]
      BY <1>2, <1>3, <2>3 DEF IsRow
    <3> QED
      BY <1>0, <1>4, <2>0, <2>3, <3>1
  <2> QED
    BY <1>0, <1>1, <1>4, <2>0, <2>1, <2>2, <2>3
<1>8. ExpiredInv'
  <2> SUFFICES ASSUME NEW o \in Orders
               PROVE  /\ HasRow("expired", o)' => ~ToWrite("expired", o)'
                      /\ \A i \in DOMAIN todo' : IsRow(todo'[i], "expired", o) =>
                           todo'[i].n = taken[o] /\ taken[o] < Qty /\ HasRow("accepted", o)'
                      /\ HasRow("accepted", o)' =>
                           \/ taken[o] = Qty \/ ToWrite("expired", o)'
                           \/ \E i \in DOMAIN log' : IsRow(log'[i], "expired", o) /\ log'[i].n = taken[o]
    BY <1>0 DEF ExpiredInv, IsRow
  <2>1. /\ HasRow("expired", o) => ~ToWrite("expired", o)
        /\ \A i \in DOMAIN todo : IsRow(todo[i], "expired", o) =>
             todo[i].n = taken[o] /\ taken[o] < Qty /\ HasRow("accepted", o)
        /\ HasRow("accepted", o) =>
             \/ taken[o] = Qty \/ ToWrite("expired", o)
             \/ \E i \in DOMAIN log : IsRow(log[i], "expired", o) /\ log[i].n = taken[o]
    BY <1>0 DEF ExpiredInv
  <2>2. HasRow("expired", o)' => ~ToWrite("expired", o)'
    BY <1>1, <1>2, <2>1
  <2>3. HasRow("accepted", o)' <=> HasRow("accepted", o)
    BY <1>4
  <2>4. \A i \in DOMAIN todo' : IsRow(todo'[i], "expired", o) =>
          todo'[i].n = taken[o] /\ taken[o] < Qty /\ HasRow("accepted", o)'
    BY <1>1, <2>1, <2>3
  <2>5. ASSUME HasRow("accepted", o), taken[o] # Qty, ~ToWrite("expired", o)'
        PROVE  \E i \in DOMAIN log' : IsRow(log'[i], "expired", o) /\ log'[i].n = taken[o]
    <3>1. CASE IsRow(r, "expired", o)
      <4>1. r.n = taken[o]
        BY <1>1, <1>r, <2>1, <3>1
      <4> QED
        BY <1>2, <3>1, <4>1
    <3>2. CASE ~IsRow(r, "expired", o)
      BY <1>1, <1>2, <2>1, <2>5, <3>2
    <3> QED
      BY <3>1, <3>2
  <2> QED
    BY <2>2, <2>3, <2>4, <2>5
<1>9. LookInv'
  BY <1>0, <1>2 DEF LookInv, IsRow
<1> QED
  BY <1>5, <1>6, <1>7, <1>8, <1>9

-----------------------------------------------------------------------------
(* The properties, step by step *)

\* A fill is written from a candle that opened after its order had been accepted for the
\* latency, and the candles are those of a prepared replay (prepare_replay,
\* process_candle).
LEMMA LookStays ==
  ASSUME TypeOK, FlowInv, EquityInv, EquityInPlace, TodoInv, LookInv, NoLookAhead, Next
  PROVE  NoLookAhead'
<1> DEFINE LogLooksBack(rows, series) ==
             \A i \in DOMAIN rows : rows[i].kind = "fill" =>
               \E j \in 1..(i - 1) :
                 /\ rows[j].kind = "accepted" /\ rows[j].order = rows[i].order
                 /\ rows[j].time + Latency <= series[rows[i].candle].open
<1>1. CASE PrepareReplay
  <2>1. PICK dataset \in SUBSET Slots, start \in Times, end \in Times, needsPrevious \in BOOLEAN :
          LET prepared == Split(AggregateCandles(Loaded(dataset, start, end)), start, needsPrevious)
          IN IF prepared.candles = <<>>
             THEN pc' = "ended" /\ UNCHANGED replay
             ELSE /\ pc' = "create"
                  /\ candles' = prepared.candles
                  /\ previous' = prepared.previous
    BY <1>1 DEF PrepareReplay
  <2> DEFINE series == AggregateCandles(Loaded(dataset, start, end))
             prepared == Split(series, start, needsPrevious)
  <2>2. /\ series \in Seq(Candles) /\ Len(series) <= NSlots
        /\ \A i, j \in 1..Len(series) : i < j => series[i].close < series[j].open
    <3>1. Loaded(dataset, start, end) \in SUBSET Slots
      BY DEF Loaded
    <3> QED
      BY <3>1, AggregateFacts
  <2>3. prepared.candles # <<>> => prepared.previous.close < prepared.candles[1].open
    BY <2>2, SplitFacts
  <2>4. \/ prepared.candles = <<>> /\ UNCHANGED replay
        \/ /\ prepared.candles # <<>>
           /\ candles' = prepared.candles /\ previous' = prepared.previous
    BY <2>1
  <2> HIDE DEF prepared
  <2>5. candles' # <<>> => previous'.close < candles'[1].open
    BY <2>3, <2>4 DEF NoLookAhead, replay
  <2>6. log' = <<>>
    BY <1>1 DEF PrepareReplay, FlowInv
  <2> QED
    BY <2>5, <2>6 DEF NoLookAhead
<1>2. CASE ~PrepareReplay
  <2>1. UNCHANGED replay
    BY <1>2 DEF Next, CreateRun, BeginRun, OnStart, TakeCandle, MatchFails, RecordFill,
                RecordPosition, AcceptAndSubmit, RecordRow, RowFails, OnCandle, StrategyFails,
                MarkFails, BufferEquity, FinishReplay, Expire, Complete, Fail, Crash
  <2>2. candles' = candles /\ previous' = previous
    BY <2>1 DEF replay
  <2>3. LogLooksBack(log, candles)
    BY DEF NoLookAhead
  <2>4. CASE Kept
    <3>1. /\ \A i \in DOMAIN log : i \in DOMAIN log' /\ log'[i] = log[i]
          /\ \A i \in DOMAIN log' : i \in DOMAIN log \/ log'[i].kind = "equity"
      BY <2>4 DEF Kept
    <3>2. \A i \in DOMAIN log : \A j \in 1..(i - 1) : j \in DOMAIN log
      <4>1. DOMAIN log = 1..Len(log) /\ Len(log) \in Nat
        BY LenProperties DEF TypeOK
      <4> QED
        BY <4>1
    <3>3. LogLooksBack(log', candles)
      BY <2>3, <3>1, <3>2
    <3> QED
      BY <2>2, <3>3 DEF NoLookAhead
  <2>5. CASE \E r : RowAdded(r)
    <3>1. PICK r : RowAdded(r)
      BY <2>5
    <3>2. /\ \A i \in DOMAIN log : i \in DOMAIN log' /\ log'[i] = log[i]
          /\ \A i \in DOMAIN log' : i \in DOMAIN log \/ i = Len(log) + 1
          /\ log'[Len(log) + 1] = r /\ Len(log) \in Nat /\ DOMAIN log = 1..Len(log)
      BY <3>1, RowLogged, LenProperties DEF RowAdded, TypeOK
    <3>3. ASSUME r.kind = "fill"
          PROVE  \E j \in 1..Len(log) :
                   /\ log[j].kind = "accepted" /\ log[j].order = r.order
                   /\ log[j].time + Latency <= candles[r.candle].open
      <4>1. pc = "fills" /\ r = Head(todo) /\ ~Over /\ r.candle = k
        BY <3>1, <3>3 DEF RowAdded
      <4>2. 1 \in DOMAIN todo /\ todo[1] = r
        BY <4>1, NextRow DEF FlowInv
      <4> QED
        BY <3>2, <3>3, <4>1, <4>2 DEF LookInv, IsRow
    <3>4. \A i \in DOMAIN log : \A j \in 1..(i - 1) : j \in DOMAIN log
      BY <3>2
    <3>5. (Len(log) + 1) - 1 = Len(log)
      BY <3>2
    <3>6. ASSUME NEW i \in DOMAIN log', log'[i].kind = "fill"
          PROVE  \E j \in 1..(i - 1) :
                   /\ log'[j].kind = "accepted" /\ log'[j].order = log'[i].order
                   /\ log'[j].time + Latency <= candles[log'[i].candle].open
      <4>1. CASE i \in DOMAIN log
        BY <2>3, <3>2, <3>4, <3>6, <4>1
      <4>2. CASE i = Len(log) + 1
        BY <3>2, <3>3, <3>5, <3>6, <4>2
      <4> QED
        BY <3>2, <4>1, <4>2
    <3> QED
      BY <2>2, <3>6 DEF NoLookAhead
  <2> QED
    BY <2>4, <2>5, RecordStays
<1> QED
  BY <1>1, <1>2

\* The run is completed when the last expired row is written, and nothing is written to
\* it afterwards (finalize of run_with_progress).
LEMMA CompletedStays ==
  ASSUME TypeOK, FlowInv, EquityInv, PlacedInv, FilledInv, ExpiredInv, CompletedIsWhole, Next
  PROVE  CompletedIsWhole'
<1> SUFFICES ASSUME status' = "completed"
             PROVE  /\ EquityBefore(Len(log) + 1)' = Len(candles')
                    /\ \A o \in Placed' :
                         \/ Recorded(o)' = Qty
                         \/ \E i \in DOMAIN log' : /\ log'[i].kind = "expired" /\ log'[i].order = o
                                                   /\ log'[i].n = Recorded(o)'
  BY DEF CompletedIsWhole
<1>1. pc # "ended"
  BY DEF Next, PrepareReplay, CreateRun, BeginRun, OnStart, TakeCandle, MatchFails, RecordFill,
         RecordPosition, AcceptAndSubmit, RecordRow, RowFails, OnCandle, StrategyFails,
         MarkFails, BufferEquity, FinishReplay, Expire, Complete, Fail, Crash
<1>2. status # "completed"
  BY <1>1 DEF FlowInv, TypeOK
<1>3. Complete
  BY <1>2 DEF Next, PrepareReplay, CreateRun, BeginRun, OnStart, TakeCandle, MatchFails, RecordFill,
         RecordPosition, AcceptAndSubmit, RecordRow, RowFails, OnCandle, StrategyFails,
         MarkFails, BufferEquity, FinishReplay, Expire, Complete, Fail, Crash
<1>4. /\ pc = "expire" /\ ~Over /\ todo = <<>> /\ log' = log /\ candles' = candles
      /\ k = Len(candles) + 1 /\ buffer = <<>>
  BY <1>3 DEF Complete, FlowInv, Over, replay
<1>5. Saved = Len(candles)
  <2>1. Len(candles) \in Nat /\ Len(buffer) = 0 /\ Len(log) \in Nat
    BY <1>4, LenProperties, EmptySeq DEF TypeOK
  <2>2. Saved \in Nat
    <3>1. \A i \in (Len(log) + 1)..Len(log) : log[i].kind = "equity"
      BY <2>1
    <3> QED
      BY <2>1, <3>1, EquityCount, EquityCounts
  <2>3. Saved + Len(buffer) = Done
    BY <1>4 DEF EquityInv
  <2>4. Done = Len(candles)
    BY <1>4, <2>1 DEF Done
  <2>5. \A x \in Nat : x + 0 = x
    OBVIOUS
  <2> QED
    BY <2>1, <2>2, <2>3, <2>4, <2>5, Zenon
<1>6. EquityBefore(Len(log) + 1)' = Len(candles')
  BY <1>4, <1>5 DEF EquityBefore, Saved
<1>7. ASSUME NEW o \in Placed
      PROVE  \/ Recorded(o) = Qty
             \/ \E i \in DOMAIN log : IsRow(log[i], "expired", o) /\ log[i].n = Recorded(o)
  <2>1. o \in Orders /\ HasRow("intent", o)
    BY DEF Placed, HasRow, IsRow
  <2>2. \A kind : ~ToWrite(kind, o)
    BY <1>4, NothingToWrite
  <2>3. HasRow("accepted", o)
    BY <1>4, <2>1, <2>2 DEF PlacedInv
  <2>4. Recorded(o) = taken[o]
    BY <1>4, <2>1, <2>2 DEF FilledInv
  <2> QED
    BY <1>4, <2>1, <2>2, <2>3, <2>4 DEF ExpiredInv
<1>8. Placed' = Placed /\ \A o : Recorded(o)' = Recorded(o)
  BY <1>4 DEF Placed, Recorded, FillsOf
<1> QED
  BY <1>4, <1>6, <1>7, <1>8 DEF IsRow

-----------------------------------------------------------------------------
(* The inductive invariant *)

\* A worker that has just started keeps nothing (run_with_progress before prepare_replay).
LEMMA InitHolds ==
  Init => IInv
<1> SUFFICES ASSUME Init PROVE IInv
  OBVIOUS
<1>1. /\ Len(log) = 0 /\ Len(buffer) = 0 /\ Len(candles) = 0
      /\ DOMAIN log = {} /\ DOMAIN todo = {} /\ DOMAIN buffer = {}
      /\ log \in Seq(Rows) /\ buffer \in Seq(Rows) /\ todo \in Seq(Rows) /\ candles \in Seq(Candles)
  BY EmptySeq DEF Init
<1>2. Batch \in Nat /\ Batch >= 1 /\ NSlots \in Nat /\ Qty \in Nat /\ NOrders \in Nat
  BY BacktestAssumption
<1>3. Nothing \in [Orders -> Nat] /\ Nothing \in [Orders -> 0..Qty] /\ \A o \in Orders : Nothing[o] = 0
  BY <1>2 DEF Nothing
<1>4. TypeOK
  BY <1>1, <1>2, <1>3 DEF Init, TypeOK
<1>5. FlowInv
  BY <1>1, <1>2 DEF Init, FlowInv, Over
<1>6. Saved = 0
  <2>1. EquityIn(log, 0) = 0
    <3>1. {j \in 1..0 : log[j].kind = "equity"} = {}
      OBVIOUS
    <3> QED
      BY <3>1, FS_EmptySet DEF EquityIn
  <2> QED
    BY <1>1, <2>1, EquityCounts
<1>7. EquityInv
  BY <1>1, <1>6 DEF Init, EquityInv, Done
<1>8. TodoInv
  BY <1>1 DEF TodoInv, InOrder, Holds
<1>9. \A kind, o : ~HasRow(kind, o) /\ ~ToWrite(kind, o)
  BY <1>1 DEF HasRow, ToWrite
<1>10. PlacedInv
  <2>1. 0 \in 0..NOrders /\ 1..0 = {}
    BY <1>2
  <2>2. {o \in Orders : HasRow("intent", o) \/ ToWrite("intent", o)} = 1..0
    BY <1>9, <2>1
  <2>3. \A o \in Orders : taken[o] = 0 /\ o \notin book
    BY <1>3 DEF Init
  <2> QED
    BY <1>9, <2>1, <2>2, <2>3 DEF PlacedInv
<1>11. FilledInv
  <2>1. \A o \in Orders : Recorded(o) = 0
    <3>1. ASSUME NEW o \in Orders
          PROVE  FillsOf(o, log) = 0
      <4>1. PICK f : IsSum(f, o, log) /\ FillsOf(o, log) = f[Len(log)]
        BY <1>1, SumFacts
      <4>2. 0 \in 0..Len(log)
        BY <1>1
      <4> QED
        BY <1>1, <4>1, <4>2 DEF IsSum
    <3> QED
      BY <3>1 DEF Recorded
  <2>2. \A o \in Orders : taken[o] = 0 /\ portfolio[o] = 0
    BY <1>3 DEF Init
  <2> QED
    BY <1>1, <1>9, <2>1, <2>2 DEF FilledInv
<1>12. ExpiredInv
  BY <1>1, <1>9 DEF Init, ExpiredInv
<1>13. LookInv
  BY <1>1 DEF Init, LookInv
<1>14. EquityInPlace /\ NoLookAhead /\ CompletedIsWhole
  BY <1>1 DEF Init, EquityInPlace, NoLookAhead, CompletedIsWhole
<1> QED
  BY <1>4, <1>5, <1>7, <1>8, <1>10, <1>11, <1>12, <1>13, <1>14 DEF IInv

\* Every step of run_with_progress keeps what the replay relies on.
LEMMA StepHolds ==
  IInv /\ [Next]_vars => IInv'
<1> SUFFICES ASSUME IInv, [Next]_vars PROVE IInv'
  OBVIOUS
<1>1. /\ TypeOK /\ FlowInv /\ EquityInv /\ TodoInv /\ PlacedInv /\ FilledInv /\ ExpiredInv /\ LookInv
      /\ EquityInPlace /\ NoLookAhead /\ CompletedIsWhole
  BY DEF IInv
<1>2. CASE UNCHANGED vars
  <2>1. /\ UNCHANGED <<status, log, pc, k, todo, portfolio, buffer, error>>
        /\ UNCHANGED <<candles, previous, book, eligible, taken>>
    BY <1>2 DEF vars, replay, orders
  <2>2. TypeOK' /\ EquityInPlace' /\ NoLookAhead' /\ CompletedIsWhole'
    <3>1. /\ \A i : EquityBefore(i)' = EquityBefore(i)
          /\ Placed' = Placed /\ \A o : Recorded(o)' = Recorded(o)
      BY <2>1 DEF EquityBefore, Placed, Recorded, FillsOf
    <3>2. TypeOK'
      BY <1>1, <2>1 DEF TypeOK
    <3>3. EquityInPlace'
      BY <1>1, <2>1, <3>1 DEF EquityInPlace
    <3>4. NoLookAhead'
      BY <1>1, <2>1 DEF NoLookAhead
    <3>5. EquityBefore(Len(log) + 1)' = EquityBefore(Len(log) + 1)
      BY <2>1 DEF EquityBefore
    <3>6. CompletedIsWhole'
      BY <1>1, <2>1, <3>1, <3>5 DEF CompletedIsWhole
    <3> QED
      BY <3>2, <3>3, <3>4, <3>6
  <2>3. /\ \A kind, o : (HasRow(kind, o)' <=> HasRow(kind, o)) /\ (ToWrite(kind, o)' <=> ToWrite(kind, o))
        /\ \A o : Recorded(o)' = Recorded(o) /\ (Over' <=> Over) /\ Saved' = Saved /\ Done' = Done
        /\ \A kind, o, n : LastSays(kind, o, n)' <=> LastSays(kind, o, n)
    BY <2>1 DEF HasRow, ToWrite, Recorded, FillsOf, Over, Saved, EquityBefore, Done, LastSays
  <2>4. FlowInv' /\ EquityInv' /\ TodoInv'
    BY <1>1, <2>1, <2>3 DEF FlowInv, EquityInv, TodoInv
  <2>5. PlacedInv'
    BY <1>1, <2>1, <2>3 DEF PlacedInv
  <2>6. FilledInv'
    BY <1>1, <2>1, <2>3 DEF FilledInv
  <2>7. ExpiredInv'
    BY <1>1, <2>1, <2>3 DEF ExpiredInv
  <2>8. LookInv'
    BY <1>1, <2>1, <2>3 DEF LookInv
  <2> QED
    BY <2>2, <2>4, <2>5, <2>6, <2>7, <2>8 DEF IInv
<1>3. CASE Next
  <2>1. EquityInv' /\ EquityInPlace' /\ (Kept \/ \E r : RowAdded(r))
    BY <1>1, <1>3, RecordStays
  <2>2. log' \in Seq(Rows)
    <3>1. ASSUME NEW r, RowAdded(r)
          PROVE  log' \in Seq(Rows)
      BY <1>1, <3>1, RowLogged DEF RowAdded, TypeOK
    <3> QED
      BY <2>1, <3>1 DEF Kept
  <2>3. NoLookAhead' /\ CompletedIsWhole'
    BY <1>1, <1>3, LookStays, CompletedStays
  <2>4. TypeOK' /\ FlowInv'
    <3>1. CASE PrepareReplay \/ CreateRun \/ BeginRun
      BY <1>1, <3>1, BeginFlow
    <3>2. CASE OnStart \/ OnCandle \/ StrategyFails
      BY <1>1, <2>2, <3>2, OutputFlow
    <3>3. CASE TakeCandle \/ MatchFails
      BY <1>1, <2>2, <3>3, CandleFlow
    <3>4. CASE RecordFill \/ RecordPosition \/ AcceptAndSubmit \/ RecordRow
      BY <1>1, <2>2, <3>4, WriteFlow
    <3>5. CASE BufferEquity
      BY <1>1, <2>2, <3>5, EquityFlow
    <3>6. CASE FinishReplay \/ Expire \/ Complete \/ Fail \/ Crash \/ RowFails \/ MarkFails
      BY <1>1, <2>2, <3>6, EndFlow
    <3> QED
      BY <1>3, <3>1, <3>2, <3>3, <3>4, <3>5, <3>6 DEF Next
  <2>5. TodoInv' /\ PlacedInv' /\ FilledInv' /\ ExpiredInv' /\ LookInv'
    <3>1. CASE Over'
      BY <3>1 DEF TodoInv, PlacedInv, FilledInv, ExpiredInv, LookInv
    <3>2. CASE Idles
      BY <1>1, <3>2, IdleKeeps
    <3>3. CASE OutputBegins
      BY <1>1, <3>3, OutputKeeps
    <3>4. CASE ExpireBegins
      BY <1>1, <3>4, ExpiryKeeps
    <3>5. CASE ExpiryStep
      BY <1>1, <3>5, ExpiryStepKeeps
    <3>6. ASSUME NEW filled, FillsBegin(filled)
          PROVE  TodoInv' /\ PlacedInv' /\ FilledInv' /\ ExpiredInv' /\ LookInv'
      BY <1>1, <3>6, FillsKeep
    <3>7. ASSUME NEW r, r \in Rows, RowStep(r)
          PROVE  TodoInv' /\ PlacedInv' /\ FilledInv' /\ ExpiredInv' /\ LookInv'
      BY <1>1, <3>7, RowKeeps
    <3>8. \/ Over' \/ Idles \/ OutputBegins \/ ExpireBegins \/ ExpiryStep
          \/ \E filled : FillsBegin(filled)
          \/ \E r : r \in Rows /\ RowStep(r)
      BY <1>1, <1>3, StepCases
    <3> QED
      BY <3>1, <3>2, <3>3, <3>4, <3>5, <3>6, <3>7, <3>8
  <2> QED
    BY <2>1, <2>3, <2>4, <2>5 DEF IInv
<1> QED
  BY <1>2, <1>3

\* The inductive invariant holds of every replay, however it ends.
THEOREM ReplayIsInvariant == Spec => []IInv
<1>1. IInv /\ [Next]_vars => IInv'
  BY StepHolds
<1> QED
  BY <1>1, InitHolds, PTL DEF Spec

\* The state of the worker and its rows are what the code can hold: among others, no
\* order fills for more than its quantity and the equity buffer never exceeds its batch.
THEOREM ReplayTypeCorrect == Spec => []TypeOK
<1>1. IInv => TypeOK
  BY DEF IInv
<1> QED
  BY <1>1, ReplayIsInvariant, PTL

\* The buffered equity rows stand in the record as if each had been written at its candle
\* (equity_buffer and flush_equity_buffer).
THEOREM ReplayKeepsOrder == Spec => []EquityInPlace
<1>1. IInv => EquityInPlace
  BY DEF IInv
<1> QED
  BY <1>1, ReplayIsInvariant, PTL

\* A replay never uses what its candle did not know yet (prepare_replay, process_candle
\* and eligible_from_ms).
THEOREM ReplayLooksBack == Spec => []NoLookAhead
<1>1. IInv => NoLookAhead
  BY DEF IInv
<1> QED
  BY <1>1, ReplayIsInvariant, PTL

\* The strategy is shown a portfolio and a book that agree with the record (the calls of
\* on_candle in run_with_progress).
THEOREM ReplayShowsRecord == Spec => []StrategySeesRecord
<1>1. IInv => StrategySeesRecord
  <2> SUFFICES ASSUME IInv, pc = "strategy", NEW o \in Orders
               PROVE  /\ portfolio[o] = taken[o] /\ Recorded(o) = taken[o]
                      /\ taken[o] > 0 => LastSays("state", o, taken[o]) /\ LastSays("position", o, taken[o])
                      /\ (o \in book) <=> (o \in Placed /\ taken[o] < Qty)
    BY DEF StrategySeesRecord
  <2>1. ~Over /\ todo = <<>> /\ FilledInv /\ PlacedInv
    BY DEF IInv, FlowInv, Over
  <2>2. \A kind : ~ToWrite(kind, o)
    BY <2>1, NothingToWrite
  <2>3. o \in Placed <=> HasRow("intent", o)
    BY DEF Placed, HasRow, IsRow
  <2>4. HasRow("intent", o) <=> HasRow("accepted", o)
    BY <2>1, <2>2 DEF PlacedInv
  <2>5. (o \in book) <=> (HasRow("accepted", o) /\ taken[o] < Qty)
    BY <2>1 DEF PlacedInv
  <2>6. /\ portfolio[o] = taken[o] /\ Recorded(o) = taken[o]
        /\ taken[o] > 0 => LastSays("state", o, taken[o]) /\ LastSays("position", o, taken[o])
    BY <2>1, <2>2 DEF FilledInv
  <2> QED
    BY <2>3, <2>4, <2>5, <2>6
<1> QED
  BY <1>1, ReplayIsInvariant, PTL

\* A run that says completed holds the equity of every candle and the end of every order
\* (expire_all and the last flush before the completed status).
THEOREM ReplayCompletesWhole == Spec => []CompletedIsWhole
<1>1. IInv => CompletedIsWhole
  BY DEF IInv
<1> QED
  BY <1>1, ReplayIsInvariant, PTL

\* A strategy that fails costs no equity that was due (the flush before the error of
\* on_candle is returned).
THEOREM ReplayFailsWhole == Spec => []FailureKeepsEquity
<1>1. IInv => FailureKeepsEquity
  BY DEF IInv, EquityInv, FailureKeepsEquity, Saved, Done
<1> QED
  BY <1>1, ReplayIsInvariant, PTL

-----------------------------------------------------------------------------
(* The record as RunLedger sees it *)

Closed(o) ==
  \/ HasRow("expired", o)
  \/ \E i \in DOMAIN log : IsRow(log[i], "state", o) /\ log[i].n = Qty

Word == IF status = "completed" THEN "stopped" ELSE status
Standing == [o \in Orders |-> LedgerOrder(o)]
Quantities == [o \in Orders |-> Recorded(o)]

\* An order stands where its rows put it (record_order, record_order_state).
LEMMA OrderStands ==
  ASSUME NEW o
  PROVE  /\ LedgerOrder(o) = IF ~HasRow("order", o) THEN "absent"
                             ELSE IF Closed(o) THEN "closed" ELSE "open"
         /\ LedgerOrder(o)' = IF ~HasRow("order", o)' THEN "absent"
                              ELSE IF Closed(o)' THEN "closed" ELSE "open"
<1>1. /\ (\A i \in DOMAIN log : log[i].kind # "order" \/ log[i].order # o) <=> ~HasRow("order", o)
      /\ (\A i \in DOMAIN log' : log'[i].kind # "order" \/ log'[i].order # o) <=> ~HasRow("order", o)'
  BY DEF HasRow, IsRow
<1>2. (\E i \in DOMAIN log : /\ log[i].order = o
                             /\ \/ log[i].kind = "expired"
                                \/ log[i].kind = "state" /\ log[i].n = Qty) <=> Closed(o)
  BY DEF Closed, HasRow, IsRow
<1>3. (\E i \in DOMAIN log' : /\ log'[i].order = o
                              /\ \/ log'[i].kind = "expired"
                                 \/ log'[i].kind = "state" /\ log'[i].n = Qty) <=> Closed(o)'
  BY DEF Closed, HasRow, IsRow
<1>4. LedgerOrder(o) = IF ~HasRow("order", o) THEN "absent"
                       ELSE IF Closed(o) THEN "closed" ELSE "open"
  BY <1>1, <1>2 DEF LedgerOrder
<1>5. LedgerOrder(o)' = IF ~HasRow("order", o)' THEN "absent"
                        ELSE IF Closed(o)' THEN "closed" ELSE "open"
  BY <1>1, <1>3 DEF LedgerOrder
<1> QED
  BY <1>4, <1>5

\* Equity rows move no order (flush_equity_buffer).
LEMMA EquityMovesNoOrder ==
  ASSUME Kept
  PROVE  UNCHANGED <<Standing, Quantities>>
<1>1. /\ \A i \in DOMAIN log : i \in DOMAIN log' /\ log'[i] = log[i]
      /\ \A i \in DOMAIN log' : i \in DOMAIN log \/ log'[i].kind = "equity"
      /\ \A kind, o : kind # "equity" => (HasRow(kind, o)' <=> HasRow(kind, o))
      /\ \A o : Recorded(o)' = Recorded(o)
  BY DEF Kept
<1>2. \A o : Closed(o)' <=> Closed(o)
  BY <1>1 DEF Closed, IsRow
<1>3. ASSUME NEW o \in Orders
      PROVE  LedgerOrder(o)' = LedgerOrder(o)
  BY <1>1, <1>2, OrderStands
<1> QED
  BY <1>1, <1>3 DEF Standing, Quantities

\* A row places, fills or closes its order, or moves none (record_fill, record_order and
\* record_order_state).
LEMMA RowMovesItsOrder ==
  ASSUME IInv, NEW r, RowAdded(r), status' = status
  PROVE  \/ \E o \in Orders : Ledger!Place(o) \/ Ledger!Fill(o) \/ Ledger!Close(o)
         \/ UNCHANGED <<Standing, Quantities>>
<1> DEFINE o == r.order
<1>1. /\ TypeOK /\ FlowInv /\ TodoInv /\ PlacedInv /\ FilledInv /\ ExpiredInv
      /\ ~Over /\ pc \in {"fills", "output", "expire"} /\ todo # <<>> /\ r \in Rows
      /\ r.kind = Head(todo).kind /\ r.order = Head(todo).order
      /\ (r.kind # "position" => r = Head(todo))
  BY DEF IInv, RowAdded
<1>2. /\ \A i \in DOMAIN log : i \in DOMAIN log' /\ log'[i] = log[i]
      /\ \A i \in DOMAIN log' : i \in DOMAIN log \/ i = Len(log) + 1
      /\ Len(log) + 1 \in DOMAIN log' /\ log'[Len(log) + 1] = r
      /\ \A kind, p : HasRow(kind, p)' <=> (HasRow(kind, p) \/ IsRow(r, kind, p))
      /\ \A p : Recorded(p)' = Recorded(p) + Contribution(r, p)
  <2>1. log \in Seq(Rows) /\ log' = Append(log, r) /\ r.kind # "equity"
    BY DEF IInv, TypeOK, RowAdded
  <2>2. Len(log) + 1 \in DOMAIN log'
    BY <1>1, <2>1, AppendProperties, LenProperties
  <2> QED
    BY <1>1, <2>1, <2>2, RowLogged
<1>3. /\ 1 \in DOMAIN todo /\ todo[1] = Head(todo) /\ r.kind \in KindsIn(pc)
      /\ r.kind # "decision" => o \in Orders
  BY <1>1, NextRow
<1>4. ToWrite(r.kind, o)
  BY <1>1, <1>3 DEF ToWrite, IsRow
<1>5. \A p \in Orders : Recorded(p) \in Nat
  BY <1>1 DEF FilledInv, TypeOK
<1>6. status = "running" /\ Word = "running" /\ Word' = Word
  BY <1>1 DEF FlowInv, Over, Word
<1>7. ASSUME r.kind # "fill"
      PROVE  Quantities' = Quantities
  <2>1. \A p \in Orders : Recorded(p)' = Recorded(p)
    BY <1>2, <1>5, <1>7 DEF Contribution, IsRow
  <2> QED
    BY <2>1 DEF Quantities
<1>8. \A p : Closed(p)' <=> \/ Closed(p) \/ IsRow(r, "expired", p)
                            \/ IsRow(r, "state", p) /\ r.n = Qty
  <2>1. \A p : (\E i \in DOMAIN log' : IsRow(log'[i], "state", p) /\ log'[i].n = Qty) <=>
                 \/ \E i \in DOMAIN log : IsRow(log[i], "state", p) /\ log[i].n = Qty
                 \/ IsRow(r, "state", p) /\ r.n = Qty
    BY <1>2
  <2> QED
    BY <1>2, <2>1 DEF Closed, IsRow
<1>9. ASSUME r.kind \notin {"order", "expired", "state"}
      PROVE  Standing' = Standing
  <2>1. ASSUME NEW p \in Orders
        PROVE  LedgerOrder(p)' = LedgerOrder(p)
    BY <1>2, <1>8, <1>9, OrderStands DEF IsRow
  <2> QED
    BY <2>1 DEF Standing
<1>10. ASSUME NEW p \in Orders, p # o
       PROVE  LedgerOrder(p)' = LedgerOrder(p)
  <2>1. \A kind : ~IsRow(r, kind, p)
    BY <1>10 DEF IsRow
  <2> QED
    BY <1>2, <1>8, <2>1, OrderStands
<1>11. Qty \in Nat /\ Qty # 0
  BY BacktestAssumption
<1>12. CASE r.kind = "order"
  <2>1. o \in Orders /\ ~HasRow("order", o)
    BY <1>1, <1>3, <1>4, <1>12 DEF PlacedInv
  <2>2. ~HasRow("expired", o)
    BY <1>1, <1>3, <1>12, <2>1 DEF ExpiredInv, KindsIn
  <2>3. ~HasRow("accepted", o)
    BY <1>1, <2>1 DEF PlacedInv
  <2>4. taken[o] = 0
    BY <1>1, <1>11, <2>1, <2>3 DEF PlacedInv, TypeOK
  <2>5. ~Closed(o)
    BY <1>1, <1>11, <2>1, <2>2, <2>4 DEF Closed, FilledInv
  <2>6. LedgerOrder(o) = "absent" /\ LedgerOrder(o)' = "open"
    BY <1>2, <1>8, <1>12, <2>1, <2>5, OrderStands DEF IsRow
  <2>7. Standing' = [Standing EXCEPT ![o] = "open"]
    BY <1>10, <2>1, <2>6 DEF Standing
  <2>8. Ledger!Place(o)
    BY <1>6, <1>7, <1>12, <2>1, <2>6, <2>7 DEF Ledger!Place, Standing, Quantities, Word
  <2> QED
    BY <2>1, <2>8
<1>13. CASE r.kind = "fill"
  <2>1. o \in Orders /\ pc = "fills" /\ r = Head(todo)
    BY <1>1, <1>3, <1>13 DEF RowAdded
  <2>2. r.n >= 1 /\ Recorded(o) + r.n = taken[o]
    BY <1>1, <1>3, <1>13, <2>1 DEF FilledInv, IsRow
  <2>3. taken[o] > 0
    BY <1>1, <1>4, <1>13, <2>1 DEF FilledInv
  <2>4. HasRow("order", o)
    BY <1>1, <2>1, <2>3 DEF PlacedInv
  <2>5. ToWrite("state", o)
    <3>1. Holds(todo, "fill", o) => Holds(todo, "state", o)
      BY <1>1, <2>1 DEF TodoInv, InOrder, Earlier
    <3> QED
      BY <1>4, <1>13, <3>1 DEF Holds, ToWrite
  <2>6. ~Closed(o)
    BY <1>1, <2>1, <2>5 DEF Closed, FilledInv, ExpiredInv
  <2>7. Standing[o] = "open" /\ Standing' = Standing
    BY <1>9, <1>13, <2>1, <2>4, <2>6, OrderStands DEF Standing
  <2>8. r.n \in 1..(Qty - Recorded(o))
    <3>1. taken[o] \in 0..Qty /\ Recorded(o) \in Nat /\ r.n \in 0..Qty
      BY <1>1, <1>5, <2>1 DEF TypeOK, Rows
    <3> QED
      BY <1>11, <2>2, <3>1
  <2>9. Quantities' = [Quantities EXCEPT ![o] = @ + r.n]
    <3>1. Recorded(o)' = Recorded(o) + r.n
      BY <1>2, <1>13 DEF Contribution, IsRow
    <3>2. \A p \in Orders : p # o => Recorded(p)' = Recorded(p)
      BY <1>2, <1>5 DEF Contribution, IsRow
    <3> QED
      BY <2>1, <3>1, <3>2 DEF Quantities
  <2>10. Ledger!Fill(o)
    BY <1>6, <2>1, <2>7, <2>8, <2>9 DEF Ledger!Fill, Standing, Quantities, Word
  <2> QED
    BY <2>1, <2>10
<1>14. CASE r.kind = "state" /\ r.n # Qty
  <2>1. ASSUME NEW p \in Orders
        PROVE  LedgerOrder(p)' = LedgerOrder(p)
    BY <1>2, <1>8, <1>14, OrderStands DEF IsRow
  <2> QED
    BY <1>7, <1>14, <2>1 DEF Standing
<1>15. ASSUME \/ r.kind = "expired"
              \/ r.kind = "state" /\ r.n = Qty
       PROVE  o \in Orders /\ Ledger!Close(o)
  <2>1. o \in Orders /\ r = Head(todo)
    BY <1>1, <1>3, <1>15
  <2>2. HasRow("order", o)
    <3>1. HasRow("accepted", o)
      <4>1. CASE r.kind = "expired"
        BY <1>1, <1>3, <2>1, <4>1 DEF ExpiredInv, IsRow
      <4>2. CASE r.kind = "state"
        <5>1. taken[o] > 0
          BY <1>1, <1>4, <2>1, <4>2 DEF FilledInv
        <5> QED
          BY <1>1, <2>1, <5>1 DEF PlacedInv
      <4> QED
        BY <1>15, <4>1, <4>2
    <3> QED
      BY <1>1, <2>1, <3>1 DEF PlacedInv
  <2>3. ~Closed(o)
    <3>1. CASE r.kind = "expired"
      <4>1. ~HasRow("expired", o)
        BY <1>1, <1>4, <2>1, <3>1 DEF ExpiredInv
      <4>2. taken[o] < Qty /\ taken[o] \in 0..Qty
        BY <1>1, <1>3, <2>1, <3>1 DEF ExpiredInv, IsRow, TypeOK
      <4>3. taken[o] # Qty
        BY <1>11, <4>2
      <4> QED
        BY <1>1, <2>1, <4>1, <4>3 DEF Closed, FilledInv
    <3>2. CASE r.kind = "state"
      <4>1. pc # "expire"
        BY <1>3, <3>2 DEF KindsIn
      <4> QED
        BY <1>1, <1>4, <2>1, <3>2, <4>1 DEF Closed, FilledInv, ExpiredInv
    <3> QED
      BY <1>15, <3>1, <3>2
  <2>4. LedgerOrder(o) = "open" /\ LedgerOrder(o)' = "closed"
    BY <1>2, <1>8, <1>15, <2>2, <2>3, OrderStands DEF IsRow
  <2>5. Standing' = [Standing EXCEPT ![o] = "closed"]
    BY <1>10, <2>1, <2>4 DEF Standing
  <2>6. Quantities' = Quantities
    BY <1>7, <1>15
  <2> QED
    BY <1>6, <2>1, <2>4, <2>5, <2>6 DEF Ledger!Close, Standing, Quantities, Word
<1>16. CASE r.kind \notin {"order", "fill", "state", "expired"}
  BY <1>7, <1>9, <1>16
<1> QED
  BY <1>12, <1>13, <1>14, <1>15, <1>16

\* A run that completes has closed every order it placed (expire_all).
LEMMA CompletedIsSettled ==
  ASSUME IInv, Complete
  PROVE  \A o \in Orders : Standing[o] # "open"
<1>1. /\ PlacedInv /\ FilledInv /\ ExpiredInv /\ TypeOK
      /\ pc = "expire" /\ ~Over /\ todo = <<>>
  BY DEF IInv, Complete, Over
<1>2. ASSUME NEW o \in Orders, HasRow("order", o)
      PROVE  Closed(o)
  <2>1. \A kind : ~ToWrite(kind, o)
    BY <1>1, NothingToWrite
  <2>2. HasRow("accepted", o)
    BY <1>1, <1>2, <2>1 DEF PlacedInv
  <2>3. taken[o] = Qty \/ HasRow("expired", o)
    BY <1>1, <2>1, <2>2 DEF ExpiredInv, HasRow
  <2>4. ASSUME taken[o] = Qty
        PROVE  \E i \in DOMAIN log : IsRow(log[i], "state", o) /\ log[i].n = Qty
    <3>1. taken[o] > 0
      BY <2>4, BacktestAssumption
    <3>2. LastSays("state", o, taken[o])
      BY <1>1, <2>1, <3>1 DEF FilledInv
    <3> QED
      BY <2>4, <3>2 DEF LastSays
  <2> QED
    BY <2>3, <2>4 DEF Closed
<1> QED
  BY <1>2, OrderStands DEF Standing

\* The run row moves only while no row is written (create_trading_run and
\* append_trading_run_status).
LEMMA StatusMoves ==
  ASSUME IInv, Next
  PROVE  \/ status' = status
         \/ /\ log' = log
            /\ \/ status = "none" /\ status' = "created"
               \/ status = "created" /\ status' = "running"
               \/ status = "running" /\ status' = "failed"
               \/ status = "running" /\ status' = "completed" /\ Complete
<1>1. FlowInv
  BY DEF IInv
<1> QED
  BY <1>1 DEF FlowInv, Next, PrepareReplay, CreateRun, BeginRun, OnStart, TakeCandle, MatchFails, RecordFill,
         RecordPosition, AcceptAndSubmit, RecordRow, RowFails, OnCandle, StrategyFails,
         MarkFails, BufferEquity, FinishReplay, Expire, Complete, Fail, Crash

\* Every step of the replay is a step of RunLedger or changes nothing it sees.
LEMMA LedgerStep ==
  ASSUME IInv, [Next]_vars
  PROVE  [Ledger!LedgerNext]_(Ledger!ledgerVars)
<1>1. UNCHANGED <<Word, Standing, Quantities>> => UNCHANGED Ledger!ledgerVars
  BY DEF Ledger!ledgerVars, Word, Standing, Quantities
<1>2. ASSUME log' = log
      PROVE  UNCHANGED <<Standing, Quantities>>
  <2>1. \A o \in Orders : LedgerOrder(o)' = LedgerOrder(o) /\ Recorded(o)' = Recorded(o)
    BY <1>2 DEF LedgerOrder, Recorded, FillsOf
  <2> QED
    BY <2>1 DEF Standing, Quantities
<1>3. CASE UNCHANGED vars
  BY <1>1, <1>2, <1>3 DEF vars, Word
<1>4. CASE Next /\ status' = status
  <2>1. Word' = Word
    BY <1>4 DEF Word
  <2>2. Kept \/ \E r : RowAdded(r)
    BY <1>4, RecordStays DEF IInv
  <2>3. CASE Kept
    BY <1>1, <2>1, <2>3, EquityMovesNoOrder
  <2>4. ASSUME NEW r, RowAdded(r)
        PROVE  [Ledger!LedgerNext]_(Ledger!ledgerVars)
    <3>1. \/ \E o \in Orders : Ledger!Place(o) \/ Ledger!Fill(o) \/ Ledger!Close(o)
          \/ UNCHANGED <<Standing, Quantities>>
      BY <1>4, <2>4, RowMovesItsOrder
    <3> QED
      BY <1>1, <2>1, <3>1 DEF Ledger!LedgerNext
  <2> QED
    BY <2>2, <2>3, <2>4
<1>5. CASE Next /\ status' # status
  <2>1. /\ UNCHANGED <<Standing, Quantities>>
        /\ \/ status = "none" /\ status' = "created"
           \/ status = "created" /\ status' = "running"
           \/ status = "running" /\ status' = "failed"
           \/ status = "running" /\ status' = "completed" /\ Complete
    BY <1>2, <1>5, StatusMoves
  <2>2. CASE status = "none" /\ status' = "created"
    <3>1. Ledger!CreateLedger
      BY <2>1, <2>2 DEF Ledger!CreateLedger, Standing, Quantities
    <3> QED
      BY <3>1 DEF Ledger!LedgerNext
  <2>3. CASE status = "created" /\ status' = "running"
    <3>1. Ledger!Begin
      BY <2>1, <2>3 DEF Ledger!Begin, Standing, Quantities
    <3> QED
      BY <3>1 DEF Ledger!LedgerNext
  <2>4. CASE status = "running" /\ status' = "failed"
    <3>1. Ledger!Fail
      BY <2>1, <2>4 DEF Ledger!Fail, Standing, Quantities
    <3> QED
      BY <3>1 DEF Ledger!LedgerNext
  <2>5. CASE status = "running" /\ status' = "completed" /\ Complete
    <3>1. \A o \in Orders : Standing[o] # "open"
      BY <2>5, CompletedIsSettled
    <3>2. Ledger!Stop
      BY <2>1, <2>5, <3>1 DEF Ledger!Stop, Standing, Quantities
    <3> QED
      BY <3>2 DEF Ledger!LedgerNext
  <2> QED
    BY <2>1, <2>2, <2>3, <2>4, <2>5
<1> QED
  BY <1>3, <1>4, <1>5

\* A replay writes the record that RunLedger promises: placed and closed once, never
\* overfilled, nothing open in a completed run and nothing after a terminal status.
THEOREM ReplayKeepsLedger == Spec => KeepsLedger
<1>1. Init => Ledger!LedgerInit
  <2> SUFFICES ASSUME Init
               PROVE  /\ Word = "none" /\ Standing = [o \in Orders |-> "absent"]
                      /\ Quantities = [o \in Orders |-> 0]
    BY DEF Ledger!LedgerInit, Word, Standing, Quantities
  <2>1. IInv
    BY InitHolds
  <2>2. \A o : ~HasRow("order", o)
    BY EmptySeq DEF Init, HasRow
  <2>3. \A o \in Orders : Recorded(o) = 0
    <3>1. ~Over /\ \A o \in Orders : ~ToWrite("fill", o)
      BY NothingToWrite DEF Init, Over
    <3> QED
      BY <2>1, <3>1 DEF IInv, FilledInv, Init, Nothing
  <2> QED
    BY <2>2, <2>3, OrderStands DEF Init, Word, Standing, Quantities
<1>2. IInv /\ [Next]_vars => [Ledger!LedgerNext]_(Ledger!ledgerVars)
  BY LedgerStep
<1> QED
  BY <1>1, <1>2, ReplayIsInvariant, PTL DEF Spec, KeepsLedger, Ledger!LedgerSpec
=============================================================================
