--------------------------- MODULE PaperRunProofs ---------------------------
(***************************************************************************)
(* Safety of one Live-Paper run, for any number of orders, any quantities  *)
(* and any trades.  The invariants of PaperRun are not inductive: they say *)
(* nothing of the middle of a fill group, of an exit, or of start.  IInv   *)
(* adds, phase by phase, how far each order's rows have come.              *)
(***************************************************************************)
EXTENDS PaperRun, TLAPS

Resting == {"accepted", "partially_filled"}

\* All rows of order o, the portfolio and the executor agree.
Agree(o) ==
  /\ taken[o] = fillRows[o] /\ orderFilled[o] = fillRows[o]
  /\ portfolio[o] = fillRows[o] /\ positionRow[o] = fillRows[o]
  /\ equityRow[o] = fillRows[o]

\* Its state row says whether it is in the book.
Placed(o) ==
  \/ orderStatus[o] \in Resting /\ taken[o] < Qty /\ o \in book
  \/ orderStatus[o] = "filled" /\ taken[o] = Qty /\ o \notin book

\* The executor filled it, no row of that fill is written yet.
Pending(o) ==
  /\ fills[o] <= Part
  /\ taken[o] = fillRows[o] + fills[o]
  /\ orderFilled[o] = fillRows[o] /\ portfolio[o] = fillRows[o]
  /\ positionRow[o] = fillRows[o] /\ equityRow[o] = fillRows[o]
  /\ orderStatus[o] \in Resting
  /\ o \in book <=> taken[o] < Qty

\* The fill row is written.
FillWritten(o) ==
  /\ fills[o] <= Part
  /\ taken[o] = fillRows[o]
  /\ orderFilled[o] + fills[o] = fillRows[o] /\ portfolio[o] + fills[o] = fillRows[o]
  /\ positionRow[o] + fills[o] = fillRows[o] /\ equityRow[o] + fills[o] = fillRows[o]
  /\ orderStatus[o] \in Resting
  /\ o \in book <=> taken[o] < Qty

\* The fill and state rows are written, and the portfolio has the fill.
StateWritten(o) ==
  /\ fills[o] <= Part
  /\ taken[o] = fillRows[o] /\ orderFilled[o] = fillRows[o] /\ portfolio[o] = fillRows[o]
  /\ positionRow[o] + fills[o] = fillRows[o] /\ equityRow[o] + fills[o] = fillRows[o]
  /\ Placed(o)

\* Only the equity row is missing.
PositionWritten(o) ==
  /\ fills[o] <= Part
  /\ taken[o] = fillRows[o] /\ orderFilled[o] = fillRows[o] /\ portfolio[o] = fillRows[o]
  /\ positionRow[o] = fillRows[o] /\ equityRow[o] + fills[o] = fillRows[o]
  /\ Placed(o)

StartInv ==
  pc \in {"idle"} \cup Starting =>
    /\ taken = Nothing /\ fills = Nothing /\ portfolio = Nothing
    /\ fillRows = Nothing /\ orderFilled = Nothing
    /\ positionRow = Nothing /\ equityRow = Nothing
    /\ view = NoView
    /\ book = {o \in Orders : orderStatus[o] = "accepted"}
    /\ \A o \in Orders : orderStatus[o] \in {"absent", "intended", "created", "accepted"}
    /\ pc \in {"idle", "subscribe", "run"} => book = {}
    /\ pc = "register" => book = Orders

\* At most one order is between its intent row and the book.
SubmitInv ==
  /\ pc \in {"idle", "subscribe", "run", "decide", "intent", "register"} =>
       \A o \in Orders : orderStatus[o] \notin {"intended", "created"}
  /\ pc = "create" => \A o, p \in Orders :
       /\ orderStatus[o] # "created"
       /\ orderStatus[o] = "intended" /\ orderStatus[p] = "intended" => o = p
  /\ pc = "accept" => \A o, p \in Orders :
       /\ orderStatus[o] # "intended"
       /\ orderStatus[o] = "created" /\ orderStatus[p] = "created" => o = p

LoopInv ==
  pc \in {"select", "waiting", "publish"} =>
    \A o \in Orders : fills[o] = 0 /\ Agree(o) /\ Placed(o)

\* Where order o is while the fills of one trade are written: done or untouched
\* by the trade, still to come, or the current one, as far as pc says.
InGroup(o) ==
  \/ fills[o] = 0 /\ Agree(o) /\ Placed(o)
  \/ fills[o] > 0 /\ ~IsCurrent(o) /\ Pending(o)
  \/ /\ IsCurrent(o)
     /\ \/ pc = "fill" /\ Pending(o)
        \/ pc = "order_state" /\ FillWritten(o)
        \/ pc = "position" /\ StateWritten(o)
        \/ pc = "equity" /\ PositionWritten(o)

GroupInv == pc \in Persisting => \A o \in Orders : InGroup(o)

StopInv ==
  pc \in Stopping =>
    /\ book = {}
    /\ pc # "stop_expire" => draining = {}
    /\ \A o \in Orders :
         /\ Agree(o)
         /\ \/ o \in draining /\ orderStatus[o] \in Resting /\ taken[o] < Qty
            \/ o \notin draining /\ orderStatus[o] = "filled" /\ taken[o] = Qty
            \/ o \notin draining /\ orderStatus[o] = "expired" /\ taken[o] < Qty

FailInv ==
  /\ pc = "fail" =>
       /\ \A o \in book : orderStatus[o] \in Resting
       /\ book # {} => runStatus = "running"
  /\ pc = "fail_expire" =>
       /\ \A o \in draining : orderStatus[o] \in Resting
       /\ draining # {} => runStatus = "running"

StatusInv ==
  /\ pc = "idle" => runStatus = "none"
  /\ pc \in {"subscribe", "run"} => runStatus = "created"
  /\ pc \in (Starting \ {"subscribe", "run"}) \cup Looping \cup {"stop_expire", "stop_status"} =>
       runStatus = "running"
  /\ pc = "stop_publish" => runStatus = "stopped"
  /\ pc \in {"fail", "fail_expire", "fail_status"} => runStatus \in Unfinished
  /\ pc = "fail_publish" => runStatus \in Unfinished \cup {"failed"}

\* The portfolio takes a fill after its row, whatever happens next.
PortfolioInv == \A o \in Orders : portfolio[o] <= fillRows[o]

IInv ==
  /\ TypeOK
  /\ StartInv /\ SubmitInv
  /\ LoopInv /\ GroupInv
  /\ StopInv /\ FailInv
  /\ StatusInv /\ PortfolioInv
  /\ OneGroupShort /\ StoppedIsSettled /\ PublishedIsPersisted

-----------------------------------------------------------------------------
\* The fills of one trade have at most one current order.
LEMMA OneCurrent ==
  ASSUME NEW o \in Orders, NEW p \in Orders, IsCurrent(o), IsCurrent(p)
  PROVE  o = p
BY DEF IsCurrent, IsFirst, Orders

\* Before it is created a run satisfies every part of the invariant.
LEMMA InitInv == Init => IInv
<1> SUFFICES ASSUME Init PROVE IInv
  OBVIOUS
<1> USE RunAssumption DEF Init, Nothing, NoView
<1>1. TypeOK
  <2>1. Nothing \in Quantities
    BY DEF Quantities
  <2>2. NoView \in [status : {"none", "running"} \cup Terminal,
                    open : SUBSET Orders, filled : Quantities]
    BY <2>1
  <2>3. orderStatus \in [Orders -> OrderStatus]
    BY DEF OrderStatus
  <2>4. pc \in Phase /\ runStatus \in {"none"} \cup Unfinished \cup Terminal
    BY DEF Phase
  <2> QED BY <2>1, <2>2, <2>3, <2>4 DEF TypeOK
<1>2. StartInv /\ SubmitInv /\ LoopInv /\ GroupInv /\ StopInv /\ FailInv /\ StatusInv
  BY DEF StartInv, SubmitInv, LoopInv, GroupInv, StopInv, FailInv, StatusInv,
         Starting, Looping, Persisting, Stopping
<1>3. PortfolioInv /\ OneGroupShort /\ StoppedIsSettled /\ PublishedIsPersisted
  BY DEF PortfolioInv, OneGroupShort, StoppedIsSettled, PublishedIsPersisted
<1> QED BY <1>1, <1>2, <1>3 DEF IInv

\* Every step keeps each row and each piece of memory in its type; in particular
\* no fill exceeds what remains of its order.
LEMMA TypeStays == IInv /\ Next => TypeOK'
<1> SUFFICES ASSUME IInv, Next PROVE TypeOK'
  OBVIOUS
<1> USE RunAssumption DEF IInv, TypeOK, Quantities, OrderStatus, OpenStatus, Unfinished, Terminal,
      Phase, Starting, Looping, Persisting, Stopping, Failing, Goto, rows, memory
<1>1. CASE CreateRun \/ Subscribe \/ BeginRunning
  BY <1>1 DEF CreateRun, Subscribe, BeginRunning
<1>2. CASE RecordDecision
  BY <1>2 DEF RecordDecision, NextIntent
<1>3. ASSUME NEW o \in Orders, RecordOrderIntent(o) \/ CreateTradingOrder(o) PROVE TypeOK'
  BY <1>3 DEF RecordOrderIntent, CreateTradingOrder
<1>4. ASSUME NEW o \in Orders, AcceptAndSubmit(o) PROVE TypeOK'
  BY <1>4 DEF AcceptAndSubmit, NextIntent
<1>5. CASE Register
  BY <1>5 DEF Register, Snapshot
<1>6. CASE RequestStop \/ PollFeed \/ PollStop
  BY <1>6 DEF RequestStop, PollFeed, PollStop
<1>7. ASSUME NEW t \in Trades, ProcessTrade(t) PROVE TypeOK'
  BY <1>7 DEF ProcessTrade, FillableBy, Chunk
<1>8. CASE (\E t \in Trades : RepeatedTrade(t)) \/ FeedFails
  BY <1>8 DEF RepeatedTrade, FeedFails
<1>9. CASE ProcessCandle \/ Refresh
  BY <1>9 DEF ProcessCandle, Refresh, Snapshot
<1>10. ASSUME NEW o \in Orders, RecordFill(o) PROVE TypeOK'
  <2>1. CASE pc' = "fail"
    BY <1>10, <2>1 DEF RecordFill
  <2>2. CASE pc' # "fail"
    <3>1. fillRows[o] + fills[o] \in 0..Qty
      BY <1>10 DEF RecordFill, GroupInv, InGroup, Pending, IsCurrent, IsFirst, Unsaved
    <3> QED BY <1>10, <2>2, <3>1 DEF RecordFill
  <2> QED BY <2>1, <2>2
<1>11. ASSUME NEW o \in Orders, RecordOrderState(o) PROVE TypeOK'
  <2>1. CASE pc' = "fail"
    BY <1>11, <2>1 DEF RecordOrderState
  <2>2. CASE pc' # "fail"
    <3>1. portfolio[o] + fills[o] \in 0..Qty
      BY <1>11 DEF RecordOrderState, GroupInv, InGroup, FillWritten, IsCurrent, IsFirst, Unsaved
    <3> QED BY <1>11, <2>2, <3>1 DEF RecordOrderState
  <2> QED BY <2>1, <2>2
<1>12. CASE RecordPosition \/ PublishFills
  BY <1>12 DEF RecordPosition, PublishFills, Snapshot
<1>13. ASSUME NEW o \in Orders, RecordEquity(o) PROVE TypeOK'
  BY <1>13 DEF RecordEquity
<1>14. ASSUME NEW o \in Orders, StopExpire(o) \/ FailExpire(o) PROVE TypeOK'
  BY <1>14 DEF StopExpire, FailExpire, Expire
<1>15. CASE StopExpired \/ StopStatus \/ FailDrain \/ FailExpired \/ FailStatus
  BY <1>15 DEF StopExpired, StopStatus, FailDrain, FailExpired, FailStatus
<1>16. CASE StopPublish
  BY <1>16 DEF StopPublish, Snapshot
<1>17. CASE FailPublish
  BY <1>17 DEF FailPublish, Snapshot
<1>18. CASE Crash
  <2>1. Nothing \in Quantities /\ Orders \in SUBSET Orders /\ {} \in SUBSET Orders
    BY DEF Nothing
  <2>2. NoView \in [status : {"none", "running"} \cup Terminal,
                    open : SUBSET Orders, filled : Quantities]
    BY <2>1 DEF NoView
  <2> QED BY <1>18, <2>1, <2>2 DEF Crash
<1>19. CASE Restart
  BY <1>19, <1>9 DEF Restart
<1> QED
  BY <1>1, <1>2, <1>3, <1>4, <1>5, <1>6, <1>7, <1>8, <1>9, <1>10, <1>11, <1>12, <1>13,
     <1>14, <1>15, <1>16, <1>17, <1>18, <1>19
     DEF Next, StartStep, MarketStep, LoopStep, ExitStep

\* Until the handle is registered nothing is filled, and the book holds the
\* orders whose Accepted row is written.
LEMMA StartStays == IInv /\ TypeOK' /\ Next => StartInv'
<1> SUFFICES ASSUME IInv, TypeOK', Next PROVE StartInv'
  OBVIOUS
<1> USE RunAssumption DEF
      IInv, Goto, rows, memory, TypeOK, StartInv, Starting
<1>1. CASE CreateRun
  BY <1>1 DEF CreateRun
<1>2. CASE Subscribe
  BY <1>2 DEF Subscribe
<1>3. CASE BeginRunning
  BY <1>3 DEF BeginRunning
<1>4. CASE RecordDecision
  BY <1>4 DEF RecordDecision, NextIntent, SubmitInv
<1>5. ASSUME NEW o \in Orders, RecordOrderIntent(o) PROVE StartInv'
  BY <1>5 DEF RecordOrderIntent, IsFirst
<1>6. ASSUME NEW o \in Orders, CreateTradingOrder(o) PROVE StartInv'
  BY <1>6 DEF CreateTradingOrder
<1>7. ASSUME NEW o \in Orders, AcceptAndSubmit(o) PROVE StartInv'
  <2>1. CASE pc' = "fail"
    BY <2>1
  <2>2. CASE pc' # "fail"
    <3>1. /\ orderStatus' = [orderStatus EXCEPT ![o] = "accepted"]
          /\ book' = book \cup {o} /\ pc' = NextIntent
      BY <1>7, <2>2 DEF AcceptAndSubmit
    <3>2. \A p \in Orders : p # o => orderStatus[p] \in {"absent", "accepted"}
      BY <1>7 DEF AcceptAndSubmit, SubmitInv
    <3>3. book' = {p \in Orders : orderStatus'[p] = "accepted"}
      BY <1>7, <3>1 DEF AcceptAndSubmit
    <3>4. pc' = "register" => \A p \in Orders : orderStatus'[p] # "absent"
      BY <3>1 DEF NextIntent
    <3>5. pc' \in {"intent", "register"}
      BY <3>1 DEF NextIntent
    <3>6. book' = Orders \/ pc' # "register"
      BY <3>1, <3>2, <3>3, <3>4
    <3> QED BY <1>7, <3>1, <3>2, <3>3, <3>5, <3>6 DEF AcceptAndSubmit, NoView, Nothing
  <2> QED BY <2>1, <2>2
<1>8. CASE RequestStop
  BY <1>8 DEF RequestStop, NoView
<1>9. CASE \/ Register \/ PollFeed \/ PollStop \/ RecordPosition \/ PublishFills
           \/ ProcessCandle \/ Refresh \/ FeedFails \/ StopExpired \/ StopStatus
           \/ StopPublish \/ FailDrain \/ FailExpired \/ FailStatus \/ FailPublish
           \/ Crash \/ Restart
           \/ \E o \in Orders : RecordFill(o) \/ RecordOrderState(o) \/ RecordEquity(o)
           \/ \E o \in Orders : StopExpire(o) \/ FailExpire(o)
           \/ \E t \in Trades : ProcessTrade(t) \/ RepeatedTrade(t)
  BY <1>9 DEF Register, PollFeed, PollStop, ProcessTrade, RepeatedTrade, RecordFill,
     RecordOrderState, RecordPosition, RecordEquity, PublishFills, ProcessCandle,
     Refresh, FeedFails, StopExpire, StopExpired, StopStatus, StopPublish, FailDrain,
     FailExpire, FailExpired, FailStatus, FailPublish, Crash, Restart, Expire, Persisting
<1> QED
  BY <1>1, <1>2, <1>3, <1>4, <1>5, <1>6, <1>7, <1>8, <1>9 DEF Next, StartStep,
     MarketStep, LoopStep, ExitStep

\* Orders are submitted one at a time: at most one is between its intent row
\* and the book.
LEMMA SubmitStays == IInv /\ TypeOK' /\ Next => SubmitInv'
<1> SUFFICES ASSUME IInv, TypeOK', Next PROVE SubmitInv'
  OBVIOUS
<1> USE RunAssumption DEF
      IInv, Goto, rows, memory, TypeOK, SubmitInv, StartInv, Starting
<1>1. CASE CreateRun
  BY <1>1 DEF CreateRun
<1>2. CASE Subscribe
  BY <1>2 DEF Subscribe
<1>3. CASE BeginRunning
  BY <1>3 DEF BeginRunning
<1>4. CASE RecordDecision
  BY <1>4 DEF RecordDecision, NextIntent
<1>5. ASSUME NEW o \in Orders, RecordOrderIntent(o) PROVE SubmitInv'
  BY <1>5 DEF RecordOrderIntent, IsFirst
<1>6. ASSUME NEW o \in Orders, CreateTradingOrder(o) PROVE SubmitInv'
  BY <1>6 DEF CreateTradingOrder
<1>7. ASSUME NEW o \in Orders, AcceptAndSubmit(o) PROVE SubmitInv'
  BY <1>7 DEF AcceptAndSubmit, NextIntent
<1>8. CASE \/ Register \/ RequestStop \/ PollFeed \/ PollStop \/ RecordPosition
           \/ PublishFills \/ ProcessCandle \/ Refresh \/ FeedFails \/ StopExpired
           \/ StopStatus \/ StopPublish \/ FailDrain \/ FailExpired \/ FailStatus
           \/ FailPublish \/ Crash \/ Restart
           \/ \E o \in Orders : RecordFill(o) \/ RecordOrderState(o) \/ RecordEquity(o)
           \/ \E o \in Orders : StopExpire(o) \/ FailExpire(o)
           \/ \E t \in Trades : ProcessTrade(t) \/ RepeatedTrade(t)
  BY <1>8 DEF Register, RequestStop, PollFeed, PollStop, ProcessTrade, RepeatedTrade,
     RecordFill, RecordOrderState, RecordPosition, RecordEquity, PublishFills,
     ProcessCandle, Refresh, FeedFails, StopExpire, StopExpired, StopStatus, StopPublish,
     FailDrain, FailExpire, FailExpired, FailStatus, FailPublish, Crash, Restart, Expire,
     Persisting
<1> QED
  BY <1>1, <1>2, <1>3, <1>4, <1>5, <1>6, <1>7, <1>8 DEF Next, StartStep, MarketStep,
     LoopStep, ExitStep

\* The loop is back between events only with every fill and its rows done.
LEMMA LoopStays == IInv /\ TypeOK' /\ Next => LoopInv'
<1> SUFFICES ASSUME IInv, TypeOK', Next PROVE LoopInv'
  OBVIOUS
<1> USE RunAssumption DEF
      IInv, Goto, rows, memory, TypeOK, LoopInv, Agree, Placed
<1>1. CASE Register
  BY <1>1 DEF Register, StartInv, Starting, Nothing, Resting
<1>2. CASE PollFeed
  BY <1>2 DEF PollFeed
<1>3. ASSUME NEW t \in Trades, ProcessTrade(t) PROVE LoopInv'
  BY <1>3 DEF ProcessTrade, FillableBy
<1>4. ASSUME NEW t \in Trades, RepeatedTrade(t) PROVE LoopInv'
  BY <1>4 DEF RepeatedTrade
<1>5. ASSUME NEW o \in Orders, RecordEquity(o) PROVE LoopInv'
  BY <1>5 DEF RecordEquity, GroupInv, InGroup, PositionWritten, Persisting, Quantities,
     Unsaved, IsCurrent, IsFirst
<1>6. CASE PublishFills
  BY <1>6 DEF PublishFills
<1>7. CASE ProcessCandle
  BY <1>7 DEF ProcessCandle
<1>8. CASE Refresh
  BY <1>8 DEF Refresh
<1>9. CASE RequestStop
  BY <1>9 DEF RequestStop
<1>10. CASE \/ CreateRun \/ Subscribe \/ BeginRunning \/ RecordDecision \/ PollStop
            \/ RecordPosition \/ FeedFails \/ StopExpired \/ StopStatus \/ StopPublish
            \/ FailDrain \/ FailExpired \/ FailStatus \/ FailPublish \/ Crash \/ Restart
            \/ \E o \in Orders : RecordOrderIntent(o) \/ CreateTradingOrder(o)
            \/ \E o \in Orders : AcceptAndSubmit(o) \/ RecordFill(o) \/ RecordOrderState(o)
            \/ \E o \in Orders : StopExpire(o) \/ FailExpire(o)
  BY <1>10 DEF CreateRun, Subscribe, BeginRunning, RecordDecision, RecordOrderIntent,
     CreateTradingOrder, AcceptAndSubmit, PollStop, RecordFill, RecordOrderState,
     RecordPosition, FeedFails, StopExpire, StopExpired, StopStatus, StopPublish,
     FailDrain, FailExpire, FailExpired, FailStatus, FailPublish, Crash, Restart,
     NextIntent, Expire
<1> QED
  BY <1>1, <1>2, <1>3, <1>4, <1>5, <1>6, <1>7, <1>8, <1>9, <1>10 DEF Next, StartStep,
     MarketStep, LoopStep, ExitStep

\* While a trade's fills are written, exactly one order is part-way: those
\* before it are complete, those after it untouched.
LEMMA GroupStays == IInv /\ TypeOK' /\ Next => GroupInv'
<1> SUFFICES ASSUME IInv, TypeOK', Next PROVE GroupInv'
  OBVIOUS
<1> USE RunAssumption DEF
      IInv, Goto, rows, memory, TypeOK, GroupInv, InGroup, Persisting, Unsaved,
      IsCurrent, IsFirst, Agree, Placed, Pending, Quantities
<1>1. ASSUME NEW t \in Trades, ProcessTrade(t) PROVE GroupInv'
  BY <1>1 DEF ProcessTrade, FillableBy, Chunk, LoopInv
<1>2. ASSUME NEW o \in Orders, RecordFill(o) PROVE GroupInv'
  <2>1. CASE pc' = "fail"
    BY <2>1
  <2>2. ASSUME pc' # "fail", NEW p \in Orders PROVE InGroup(p)'
    <3>1. Pending(o) /\ InGroup(p) /\ pc' = "order_state"
      BY <1>2, <2>2 DEF RecordFill
    <3>2. CASE p = o
      BY <1>2, <2>2, <3>1, <3>2 DEF RecordFill, FillWritten
    <3>3. CASE p # o
      <4>1. ~IsCurrent(p) /\ ~IsCurrent(p)'
        BY <1>2, <2>2, <3>3, OneCurrent DEF RecordFill
      <4> QED BY <1>2, <2>2, <3>1, <3>3, <4>1 DEF RecordFill
    <3> QED BY <3>2, <3>3
  <2> QED BY <2>1, <2>2
<1>3. ASSUME NEW o \in Orders, RecordOrderState(o) PROVE GroupInv'
  <2>1. CASE pc' = "fail"
    BY <2>1
  <2>2. ASSUME pc' # "fail", NEW p \in Orders PROVE InGroup(p)'
    <3>1. FillWritten(o) /\ InGroup(p) /\ pc' = "position"
      BY <1>3, <2>2 DEF RecordOrderState
    <3>2. CASE p = o
      <4>1. /\ orderStatus'[o] = IF taken[o] = Qty THEN "filled" ELSE "partially_filled"
            /\ orderFilled'[o] = taken[o] /\ portfolio'[o] = portfolio[o] + fills[o]
        BY <1>3, <2>2 DEF RecordOrderState
      <4>2. /\ taken'[o] = taken[o] /\ fillRows'[o] = fillRows[o] /\ book' = book
            /\ positionRow'[o] = positionRow[o] /\ equityRow'[o] = equityRow[o]
            /\ fills' = fills
        BY <1>3 DEF RecordOrderState
      <4>3. Placed(o)'
        <5>1. taken[o] \in Nat /\ Qty \in Nat /\ taken[o] <= Qty
          OBVIOUS
        <5>2. CASE taken[o] = Qty
          BY <3>1, <4>1, <4>2, <5>2 DEF FillWritten
        <5>3. CASE taken[o] < Qty
          BY <3>1, <4>1, <4>2, <5>3 DEF FillWritten, Resting
        <5> QED BY <5>1, <5>2, <5>3
      <4>4. StateWritten(o)'
        BY <3>1, <4>1, <4>2, <4>3 DEF FillWritten, StateWritten
      <4>5. IsCurrent(o)'
        BY <1>3, <4>2 DEF RecordOrderState
      <4> QED BY <3>1, <3>2, <4>4, <4>5
    <3>3. CASE p # o
      <4>1. ~IsCurrent(p) /\ ~IsCurrent(p)'
        BY <1>3, <2>2, <3>3, OneCurrent DEF RecordOrderState
      <4> QED BY <1>3, <2>2, <3>1, <3>3, <4>1 DEF RecordOrderState
    <3> QED BY <3>2, <3>3
  <2> QED BY <2>1, <2>2
<1>4. CASE RecordPosition
  BY <1>4 DEF RecordPosition, StateWritten, PositionWritten
<1>5. ASSUME NEW o \in Orders, RecordEquity(o) PROVE GroupInv'
  <2>1. CASE pc' = "fail"
    BY <2>1
  <2>2. ASSUME pc' # "fail", NEW p \in Orders PROVE pc' \in Persisting => InGroup(p)'
    <3>1. PositionWritten(o) /\ InGroup(p) /\ pc' \in {"publish", "fill"}
      BY <1>5, <2>2 DEF RecordEquity
    <3>2. CASE p = o
      BY <1>5, <2>2, <3>1, <3>2 DEF RecordEquity, PositionWritten
    <3>3. CASE p # o
      <4>1. ~IsCurrent(p)
        BY <1>5, <3>3, OneCurrent DEF RecordEquity
      <4> QED BY <1>5, <2>2, <3>1, <3>3, <4>1 DEF RecordEquity
    <3> QED BY <3>2, <3>3
  <2> QED BY <2>1, <2>2
<1>6. CASE RequestStop
  BY <1>6 DEF RequestStop, FillWritten, StateWritten, PositionWritten
<1>7. CASE \/ CreateRun \/ Subscribe \/ BeginRunning \/ RecordDecision \/ Register
           \/ PollFeed \/ PollStop \/ PublishFills \/ ProcessCandle \/ Refresh
           \/ FeedFails \/ StopExpired \/ StopStatus \/ StopPublish \/ FailDrain
           \/ FailExpired \/ FailStatus \/ FailPublish \/ Crash \/ Restart
           \/ \E o \in Orders : RecordOrderIntent(o) \/ CreateTradingOrder(o)
           \/ \E o \in Orders : AcceptAndSubmit(o) \/ StopExpire(o) \/ FailExpire(o)
           \/ \E t \in Trades : RepeatedTrade(t)
  BY <1>7 DEF CreateRun, Subscribe, BeginRunning, RecordDecision, RecordOrderIntent,
     CreateTradingOrder, AcceptAndSubmit, Register, PollFeed, PollStop, RepeatedTrade,
     PublishFills, ProcessCandle, Refresh, FeedFails, StopExpire, StopExpired,
     StopStatus, StopPublish, FailDrain, FailExpire, FailExpired, FailStatus,
     FailPublish, Crash, Restart, NextIntent, Expire
<1> QED
  BY <1>1, <1>2, <1>3, <1>4, <1>5, <1>6, <1>7 DEF Next, StartStep, MarketStep, LoopStep,
     ExitStep

\* Stop expires what the book held, and nothing else is open.
LEMMA StopStays == IInv /\ TypeOK' /\ Next => StopInv'
<1> SUFFICES ASSUME IInv, TypeOK', Next PROVE StopInv'
  OBVIOUS
<1> USE RunAssumption DEF
      IInv, Goto, rows, memory, TypeOK, StopInv, Stopping
<1>1. CASE PollStop
  BY <1>1 DEF PollStop, LoopInv, Agree, Placed
<1>2. ASSUME NEW o \in Orders, StopExpire(o) PROVE StopInv'
  BY <1>2 DEF StopExpire, Expire, IsFirst, Agree, Resting, Quantities
<1>3. CASE StopExpired
  BY <1>3 DEF StopExpired, Agree
<1>4. CASE StopStatus
  BY <1>4 DEF StopStatus, Agree
<1>5. CASE RequestStop
  BY <1>5 DEF RequestStop, Agree
<1>6. CASE \/ CreateRun \/ Subscribe \/ BeginRunning \/ RecordDecision \/ Register
           \/ PollFeed \/ RecordPosition \/ PublishFills \/ ProcessCandle \/ Refresh
           \/ FeedFails \/ StopPublish \/ FailDrain \/ FailExpired \/ FailStatus
           \/ FailPublish \/ Crash \/ Restart
           \/ \E o \in Orders : RecordOrderIntent(o) \/ CreateTradingOrder(o)
           \/ \E o \in Orders : AcceptAndSubmit(o) \/ RecordFill(o) \/ RecordOrderState(o)
           \/ \E o \in Orders : RecordEquity(o) \/ FailExpire(o)
           \/ \E t \in Trades : ProcessTrade(t) \/ RepeatedTrade(t)
  BY <1>6 DEF CreateRun, Subscribe, BeginRunning, RecordDecision, RecordOrderIntent,
     CreateTradingOrder, AcceptAndSubmit, Register, PollFeed, ProcessTrade,
     RepeatedTrade, RecordFill, RecordOrderState, RecordPosition, RecordEquity,
     PublishFills, ProcessCandle, Refresh, FeedFails, StopPublish, FailDrain, FailExpire,
     FailExpired, FailStatus, FailPublish, Crash, Restart, NextIntent, Expire
<1> QED
  BY <1>1, <1>2, <1>3, <1>4, <1>5, <1>6 DEF Next, StartStep, MarketStep, LoopStep,
     ExitStep

\* Whatever step failed, the orders left in the book are those with open rows.
LEMMA FailStays == IInv /\ TypeOK' /\ Next => FailInv'
<1> SUFFICES ASSUME IInv, TypeOK', Next PROVE FailInv'
  OBVIOUS
<1> USE RunAssumption DEF
      IInv, Goto, rows, memory, TypeOK, FailInv, StatusInv, Starting, Looping,
      Persisting
<1>1. CASE FailDrain
  BY <1>1 DEF FailDrain
<1>2. ASSUME NEW o \in Orders, FailExpire(o) PROVE FailInv'
  BY <1>2 DEF FailExpire, Expire
<1>3. CASE RequestStop
  BY <1>3 DEF RequestStop
<1>4. CASE \/ CreateRun \/ Subscribe \/ BeginRunning \/ RecordDecision \/ Register
           \/ \E o \in Orders : RecordOrderIntent(o) \/ CreateTradingOrder(o)
           \/ \E o \in Orders : AcceptAndSubmit(o)
  BY <1>4 DEF CreateRun, Subscribe, BeginRunning, RecordDecision, Register,
     RecordOrderIntent, CreateTradingOrder, AcceptAndSubmit, NextIntent, StartInv,
     Resting
<1>5. CASE \/ ProcessCandle \/ Refresh \/ FeedFails
           \/ \E t \in Trades : ProcessTrade(t) \/ RepeatedTrade(t)
  BY <1>5 DEF ProcessTrade, RepeatedTrade, ProcessCandle, Refresh, FeedFails, LoopInv,
     Placed, Resting
<1>6. CASE \/ PollFeed \/ PollStop \/ PublishFills \/ RecordPosition
           \/ \E o \in Orders : RecordFill(o) \/ RecordOrderState(o) \/ RecordEquity(o)
  BY <1>6 DEF PollFeed, PollStop, PublishFills, RecordFill, RecordOrderState,
     RecordPosition, RecordEquity, GroupInv, InGroup, Placed, Resting, Pending,
     FillWritten, StateWritten, PositionWritten, LoopInv
<1>7. CASE \/ StopExpired \/ StopStatus \/ StopPublish \/ FailExpired \/ FailStatus
           \/ FailPublish \/ Crash \/ Restart
           \/ \E o \in Orders : StopExpire(o)
  BY <1>7 DEF StopExpire, StopExpired, StopStatus, StopPublish, FailExpired, FailStatus,
     FailPublish, Crash, Restart, Expire, StopInv, Stopping
<1> QED
  BY <1>1, <1>2, <1>3, <1>4, <1>5, <1>6, <1>7 DEF Next, StartStep, MarketStep, LoopStep,
     ExitStep

\* Each phase of the actor knows what its run row says.
LEMMA StatusStays == IInv /\ TypeOK' /\ Next => StatusInv'
<1> SUFFICES ASSUME IInv, TypeOK', Next PROVE StatusInv'
  OBVIOUS
<1> USE RunAssumption DEF
      IInv, Goto, rows, memory, StatusInv, Starting, Looping, Persisting, Unfinished
<1>1. CASE \/ CreateRun \/ Subscribe \/ BeginRunning \/ RecordDecision \/ Register
           \/ \E o \in Orders : RecordOrderIntent(o) \/ CreateTradingOrder(o)
           \/ \E o \in Orders : AcceptAndSubmit(o)
  BY <1>1 DEF CreateRun, Subscribe, BeginRunning, RecordDecision, Register,
     RecordOrderIntent, CreateTradingOrder, AcceptAndSubmit, NextIntent
<1>2. CASE \/ ProcessCandle \/ Refresh \/ FeedFails
           \/ \E t \in Trades : ProcessTrade(t) \/ RepeatedTrade(t)
  BY <1>2 DEF ProcessTrade, RepeatedTrade, ProcessCandle, Refresh, FeedFails
<1>3. CASE \/ PollFeed \/ PollStop \/ PublishFills \/ RecordPosition
           \/ \E o \in Orders : RecordFill(o) \/ RecordOrderState(o) \/ RecordEquity(o)
  BY <1>3 DEF PollFeed, PollStop, PublishFills, RecordFill, RecordOrderState,
     RecordPosition, RecordEquity
<1>4. CASE \/ StopExpired \/ StopStatus \/ StopPublish \/ FailDrain \/ FailExpired
           \/ FailStatus \/ FailPublish \/ RequestStop \/ Crash \/ Restart
           \/ \E o \in Orders : StopExpire(o) \/ FailExpire(o)
  BY <1>4 DEF StopExpire, StopExpired, StopStatus, StopPublish, FailDrain, FailExpire,
     FailExpired, FailStatus, FailPublish, RequestStop, Crash, Restart, Expire
<1> QED
  BY <1>1, <1>2, <1>3, <1>4 DEF Next, StartStep, MarketStep, LoopStep, ExitStep

\* The rows of at most one order are behind its fills.
LEMMA ShortStays == IInv /\ TypeOK' /\ Next => OneGroupShort'
<1> SUFFICES ASSUME IInv, TypeOK', Next PROVE OneGroupShort'
  OBVIOUS
<1> USE RunAssumption DEF
      IInv, Goto, rows, memory, TypeOK, Quantities, OneGroupShort
<1>1. ASSUME NEW o \in Orders, RecordFill(o) PROVE OneGroupShort'
  BY <1>1 DEF RecordFill, GroupInv, InGroup, Persisting, Agree, Pending, Unsaved,
     IsCurrent, IsFirst
<1>2. CASE RecordPosition
  BY <1>2 DEF RecordPosition, GroupInv, InGroup, Persisting, Agree, Pending,
     StateWritten, Unsaved, IsCurrent, IsFirst
<1>3. ASSUME NEW o \in Orders, RecordEquity(o) PROVE OneGroupShort'
  BY <1>3 DEF RecordEquity, GroupInv, InGroup, Persisting, Agree, Pending,
     PositionWritten, Unsaved, IsCurrent, IsFirst
<1>4. CASE ProcessCandle
  BY <1>4 DEF ProcessCandle, LoopInv, Agree
<1>5. CASE \/ CreateRun \/ Subscribe \/ BeginRunning \/ RecordDecision \/ Register
           \/ RequestStop \/ PollFeed \/ PollStop \/ PublishFills \/ Refresh \/ FeedFails
           \/ StopExpired \/ StopStatus \/ StopPublish \/ FailDrain \/ FailExpired
           \/ FailStatus \/ FailPublish \/ Crash \/ Restart
           \/ \E o \in Orders : RecordOrderIntent(o) \/ CreateTradingOrder(o)
           \/ \E o \in Orders : AcceptAndSubmit(o) \/ RecordOrderState(o) \/ StopExpire(o)
           \/ \E o \in Orders : FailExpire(o)
           \/ \E t \in Trades : ProcessTrade(t) \/ RepeatedTrade(t)
  BY <1>5 DEF CreateRun, Subscribe, BeginRunning, RecordDecision, RecordOrderIntent,
     CreateTradingOrder, AcceptAndSubmit, Register, RequestStop, PollFeed, PollStop,
     ProcessTrade, RepeatedTrade, RecordOrderState, PublishFills, Refresh, FeedFails,
     StopExpire, StopExpired, StopStatus, StopPublish, FailDrain, FailExpire,
     FailExpired, FailStatus, FailPublish, Crash, Restart, NextIntent, Expire
<1> QED
  BY <1>1, <1>2, <1>3, <1>4, <1>5 DEF Next, StartStep, MarketStep, LoopStep, ExitStep

\* A stopped run was settled when its row was written, and no later step has
\* its row to change.
LEMMA SettledStays == IInv /\ TypeOK' /\ Next => StoppedIsSettled'
<1> SUFFICES ASSUME IInv, TypeOK', Next PROVE StoppedIsSettled'
  OBVIOUS
<1> USE RunAssumption DEF
      IInv, Goto, rows, memory, TypeOK, StoppedIsSettled, StatusInv, Starting, Looping,
      Persisting, Unfinished
<1>1. CASE StopStatus
  BY <1>1 DEF StopStatus, StopInv, Stopping, Agree
<1>2. CASE \/ CreateRun \/ Subscribe \/ BeginRunning \/ RecordDecision \/ Register
           \/ \E o \in Orders : RecordOrderIntent(o) \/ CreateTradingOrder(o)
           \/ \E o \in Orders : AcceptAndSubmit(o)
  BY <1>2 DEF CreateRun, Subscribe, BeginRunning, RecordDecision, Register,
     RecordOrderIntent, CreateTradingOrder, AcceptAndSubmit, NextIntent
<1>3. CASE \/ ProcessCandle \/ Refresh \/ FeedFails
           \/ \E t \in Trades : ProcessTrade(t) \/ RepeatedTrade(t)
  BY <1>3 DEF ProcessTrade, RepeatedTrade, ProcessCandle, Refresh, FeedFails
<1>4. CASE \/ PollFeed \/ PollStop \/ PublishFills \/ RecordPosition
           \/ \E o \in Orders : RecordFill(o) \/ RecordOrderState(o) \/ RecordEquity(o)
  BY <1>4 DEF PollFeed, PollStop, PublishFills, RecordFill, RecordOrderState,
     RecordPosition, RecordEquity
<1>5. CASE \/ StopExpired \/ StopPublish \/ FailDrain \/ FailExpired \/ FailStatus
           \/ FailPublish \/ RequestStop \/ Crash \/ Restart
           \/ \E o \in Orders : StopExpire(o) \/ FailExpire(o)
  BY <1>5 DEF StopExpire, StopExpired, StopPublish, FailDrain, FailExpire, FailExpired,
     FailStatus, FailPublish, RequestStop, Crash, Restart, Expire
<1> QED
  BY <1>1, <1>2, <1>3, <1>4, <1>5 DEF Next, StartStep, MarketStep, LoopStep, ExitStep

\* The portfolio never has a fill whose row is not written.
LEMMA PortfolioStays == IInv /\ TypeOK' /\ Next => PortfolioInv'
<1> SUFFICES ASSUME IInv, TypeOK', Next PROVE PortfolioInv'
  OBVIOUS
<1> USE RunAssumption DEF
      IInv, Goto, rows, memory, TypeOK, Quantities, PortfolioInv
<1>1. ASSUME NEW o \in Orders, RecordFill(o) PROVE PortfolioInv'
  BY <1>1 DEF RecordFill, GroupInv, InGroup, Pending, Unsaved, IsCurrent, IsFirst,
     Persisting
<1>2. ASSUME NEW o \in Orders, RecordOrderState(o) PROVE PortfolioInv'
  BY <1>2 DEF RecordOrderState, GroupInv, InGroup, FillWritten, Persisting, Unsaved,
     IsCurrent, IsFirst
<1>3. CASE Crash
  BY <1>3 DEF Crash, Nothing
<1>4. CASE \/ CreateRun \/ Subscribe \/ BeginRunning \/ RecordDecision \/ Register
           \/ RequestStop \/ PollFeed \/ PollStop \/ RecordPosition \/ PublishFills
           \/ ProcessCandle \/ Refresh \/ FeedFails \/ StopExpired \/ StopStatus
           \/ StopPublish \/ FailDrain \/ FailExpired \/ FailStatus \/ FailPublish
           \/ Restart
           \/ \E o \in Orders : RecordOrderIntent(o) \/ CreateTradingOrder(o)
           \/ \E o \in Orders : AcceptAndSubmit(o) \/ RecordEquity(o) \/ StopExpire(o)
           \/ \E o \in Orders : FailExpire(o)
           \/ \E t \in Trades : ProcessTrade(t) \/ RepeatedTrade(t)
  BY <1>4 DEF CreateRun, Subscribe, BeginRunning, RecordDecision, RecordOrderIntent,
     CreateTradingOrder, AcceptAndSubmit, Register, RequestStop, PollFeed, PollStop,
     ProcessTrade, RepeatedTrade, RecordPosition, RecordEquity, PublishFills,
     ProcessCandle, Refresh, FeedFails, StopExpire, StopExpired, StopStatus, StopPublish,
     FailDrain, FailExpire, FailExpired, FailStatus, FailPublish, Restart, NextIntent,
     Expire
<1> QED
  BY <1>1, <1>2, <1>3, <1>4 DEF Next, StartStep, MarketStep, LoopStep, ExitStep

\* The published snapshot is never ahead of the rows.
LEMMA PublishedStays == IInv /\ TypeOK' /\ Next => PublishedIsPersisted'
<1> SUFFICES ASSUME IInv, TypeOK', Next PROVE PublishedIsPersisted'
  OBVIOUS
<1> USE RunAssumption DEF
      IInv, Goto, rows, memory, TypeOK, Quantities, PublishedIsPersisted, Snapshot
<1>1. CASE Register
  BY <1>1 DEF Register, StartInv, Starting, Nothing
<1>2. CASE PublishFills
  BY <1>2 DEF PublishFills, LoopInv, Agree
<1>3. CASE Refresh
  BY <1>3 DEF Refresh, LoopInv, Agree
<1>4. CASE ProcessCandle
  BY <1>4 DEF ProcessCandle, LoopInv, Agree
<1>5. ASSUME NEW o \in Orders, RecordFill(o) PROVE PublishedIsPersisted'
  BY <1>5 DEF RecordFill
<1>6. ASSUME NEW o \in Orders, RecordEquity(o) PROVE PublishedIsPersisted'
  BY <1>6 DEF RecordEquity, GroupInv, InGroup, Persisting, Agree, Pending,
     PositionWritten, Unsaved, IsCurrent, IsFirst
<1>7. CASE StopPublish
  BY <1>7 DEF StopPublish, StatusInv, StopInv, Stopping, Agree
<1>8. CASE FailPublish
  BY <1>8 DEF FailPublish, PortfolioInv
<1>9. CASE Crash
  BY <1>9 DEF Crash, Nothing, NoView
<1>10. CASE \/ CreateRun \/ Subscribe \/ BeginRunning \/ FailStatus \/ Restart
            \/ StopStatus
  BY <1>10 DEF CreateRun, Subscribe, BeginRunning, FailStatus, Restart, StopStatus,
     StatusInv, Unfinished, StartInv, Starting, NoView
<1>11. CASE \/ RecordDecision \/ RequestStop \/ PollFeed \/ PollStop \/ FeedFails
            \/ RecordPosition \/ StopExpired \/ FailDrain \/ FailExpired
            \/ \E o \in Orders : RecordOrderIntent(o) \/ CreateTradingOrder(o)
            \/ \E o \in Orders : AcceptAndSubmit(o) \/ RecordOrderState(o) \/ StopExpire(o)
            \/ \E o \in Orders : FailExpire(o)
            \/ \E t \in Trades : ProcessTrade(t) \/ RepeatedTrade(t)
  BY <1>11 DEF RecordDecision, RecordOrderIntent, CreateTradingOrder, AcceptAndSubmit,
     RequestStop, PollFeed, PollStop, ProcessTrade, RepeatedTrade, FeedFails,
     RecordOrderState, RecordPosition, StopExpire, StopExpired, FailDrain, FailExpire,
     FailExpired, NextIntent, Expire
<1> QED
  BY <1>1, <1>2, <1>3, <1>4, <1>5, <1>6, <1>7, <1>8, <1>9, <1>10, <1>11 DEF Next,
     StartStep, MarketStep, LoopStep, ExitStep

-----------------------------------------------------------------------------
\* The parts together: IInv is inductive.
LEMMA Inductive == IInv /\ [Next]_vars => IInv'
<1> SUFFICES ASSUME IInv, [Next]_vars PROVE IInv'
  OBVIOUS
<1>1. CASE Next
  BY <1>1, TypeStays, StartStays, SubmitStays, LoopStays, GroupStays, StopStays, FailStays,
     StatusStays, PortfolioStays, ShortStays, SettledStays, PublishedStays DEF IInv
<1>2. CASE UNCHANGED vars
  <2> USE <1>2 DEF vars, rows, memory, IInv
  <2>1. TypeOK' /\ StartInv' /\ SubmitInv' /\ StopInv' /\ FailInv' /\ StatusInv'
    BY DEF TypeOK, StartInv, SubmitInv, StopInv, FailInv, StatusInv, Agree
  <2>2. LoopInv' /\ GroupInv'
    BY DEF LoopInv, GroupInv, InGroup, Agree, Placed, Pending, FillWritten, StateWritten,
       PositionWritten, IsCurrent, Unsaved
  <2>3. PortfolioInv' /\ OneGroupShort' /\ StoppedIsSettled' /\ PublishedIsPersisted'
    BY DEF PortfolioInv, OneGroupShort, StoppedIsSettled, PublishedIsPersisted
  <2> QED BY <2>1, <2>2, <2>3
<1> QED BY <1>1, <1>2

\* Every behaviour of a run, with whatever storage errors, crashes and restarts,
\* keeps the inductive invariant.
THEOREM RunIsInvariant == Spec => []IInv
BY InitInv, Inductive, PTL DEF Spec

\* Rows and memory stay in their types: no order, row or snapshot ever accounts
\* for more than the order's quantity (fill_order's clamp).
THEOREM RunTypeCorrect == Spec => []TypeOK
BY RunIsInvariant, PTL DEF IInv

\* Between two market events the executor, the portfolio and all rows agree
\* (run_loop and process_trade).
THEOREM RunLoopIsAudited == Spec => []LoopIsAudited
<1>1. IInv => LoopIsAudited
  BY DEF IInv, TypeOK, Quantities, LoopInv, Agree, Placed, Resting, LoopIsAudited,
         OpenStatus, OrderStatus
<1> QED BY <1>1, RunIsInvariant, PTL

\* No failure or crash leaves the rows of more than one order behind its fills
\* (process_trade's group of storage calls).
THEOREM RunOneGroupShort == Spec => []OneGroupShort
BY RunIsInvariant, PTL DEF IInv

\* A run recorded stopped has every order settled (PaperRunCore::stop).
THEOREM RunStoppedIsSettled == Spec => []StoppedIsSettled
BY RunIsInvariant, PTL DEF IInv

\* The published snapshot is never ahead of the canonical rows (update_snapshot).
THEOREM RunPublishedIsPersisted == Spec => []PublishedIsPersisted
BY RunIsInvariant, PTL DEF IInv

\* No step after a terminal status changes a row (the phases in which the actor
\* writes, and the guard of terminate_interrupted_paper_runs).
THEOREM RunTerminalIsFrozen == Spec => TerminalIsFrozen
<1>1. IInv /\ [Next]_vars => [(runStatus \in Terminal) => (rows' = rows)]_vars
  <2> SUFFICES ASSUME IInv, Next, runStatus \in Terminal PROVE rows' = rows
    BY DEF vars
  <2> USE DEF IInv, StatusInv, FailInv, StopInv, Stopping, Starting, Looping, Persisting,
        Unfinished, Terminal, rows
  <2>1. CASE CreateRun \/ StartStep \/ RequestStop \/ Crash \/ Restart
    BY <2>1 DEF CreateRun, StartStep, Subscribe, BeginRunning, RecordDecision, Register,
       RecordOrderIntent, CreateTradingOrder, AcceptAndSubmit, RequestStop, Crash, Restart
  <2>2. CASE MarketStep
    BY <2>2 DEF MarketStep, ProcessTrade, RepeatedTrade, ProcessCandle, Refresh,
       FeedFails
  <2>3. CASE LoopStep
    BY <2>3 DEF LoopStep, PollFeed, PollStop, RecordPosition, PublishFills, RecordFill,
       RecordOrderState, RecordEquity
  <2>4. CASE ExitStep
    BY <2>4 DEF ExitStep, StopExpired, StopStatus, StopPublish, FailDrain, FailExpired,
       FailStatus, FailPublish, StopExpire, FailExpire
  <2> QED BY <2>1, <2>2, <2>3, <2>4 DEF Next
<1> QED BY <1>1, RunIsInvariant, PTL DEF Spec, TerminalIsFrozen

-----------------------------------------------------------------------------
\* What each status of an order becomes in the ledger.
LEMMA LedgerOrders ==
  /\ LedgerOrder("absent") = "absent" /\ LedgerOrder("intended") = "absent"
  /\ \A s \in OpenStatus : LedgerOrder(s) = "open"
  /\ LedgerOrder("filled") = "closed" /\ LedgerOrder("expired") = "closed"
BY DEF LedgerOrder, OpenStatus

\* A change of one order's status is a change of one entry of the mapping.
LEMMA LedgerExcept ==
  ASSUME TypeOK, NEW o \in Orders, NEW s, orderStatus' = [orderStatus EXCEPT ![o] = s]
  PROVE  [p \in Orders |-> LedgerOrder(orderStatus'[p])] =
           [[p \in Orders |-> LedgerOrder(orderStatus[p])] EXCEPT ![o] = LedgerOrder(s)]
BY DEF TypeOK

\* Expiring an open order closes it in the ledger.
LEMMA ExpireCloses ==
  ASSUME IInv, NEW o \in Orders, Expire(o), orderStatus[o] \in Resting,
         runStatus = "running", UNCHANGED <<runStatus, fillRows>>
  PROVE  Ledger!Close(o)
<1>1. orderStatus' = [orderStatus EXCEPT ![o] = "expired"]
  BY DEF Expire
<1>2. LedgerOrder(orderStatus[o]) = "open" /\ LedgerOrder("expired") = "closed"
  BY LedgerOrders DEF Resting, OpenStatus
<1> QED BY <1>1, <1>2, LedgerExcept DEF IInv, Ledger!Close

\* Any run's rows are a behaviour of RunLedger: the status lifecycle, orders placed
\* and closed once, fills within the order, stopped only with every order closed
\* (valid_run_transition and the writers in paper.rs).
THEOREM RunKeepsLedger == Spec => KeepsLedger
<1>1. Init => Ledger!LedgerInit
  BY LedgerOrders DEF Init, Nothing, Ledger!LedgerInit
<1>2. IInv /\ [Next]_vars => [Ledger!LedgerNext]_(Ledger!ledgerVars)
  <2> SUFFICES ASSUME IInv, [Next]_vars PROVE [Ledger!LedgerNext]_(Ledger!ledgerVars)
    OBVIOUS
  <2> USE DEF IInv, Ledger!LedgerNext, Ledger!ledgerVars
  <2>1. CASE UNCHANGED <<runStatus, orderStatus, fillRows>>
    BY <2>1
  <2>2. CASE CreateRun
    BY <2>2 DEF CreateRun, StatusInv, Ledger!CreateLedger
  <2>3. CASE Subscribe
    BY <2>3 DEF Subscribe, StatusInv, Ledger!Fail
  <2>4. CASE BeginRunning
    BY <2>4 DEF BeginRunning, StatusInv, Ledger!Begin
  <2>5. ASSUME NEW o \in Orders, RecordOrderIntent(o)
        PROVE [Ledger!LedgerNext]_(Ledger!ledgerVars)
    <3>1. CASE UNCHANGED orderStatus
      BY <2>1, <2>5, <3>1 DEF RecordOrderIntent
    <3>2. CASE orderStatus' = [orderStatus EXCEPT ![o] = "intended"]
      <4>1. orderStatus[o] = "absent"
        BY <2>5 DEF RecordOrderIntent, IsFirst
      <4>2. [p \in Orders |-> LedgerOrder(orderStatus'[p])] =
              [p \in Orders |-> LedgerOrder(orderStatus[p])]
        BY <3>2, <4>1, LedgerExcept, LedgerOrders
      <4> QED BY <2>5, <4>2 DEF RecordOrderIntent
    <3> QED BY <2>5, <3>1, <3>2 DEF RecordOrderIntent
  <2>6. ASSUME NEW o \in Orders, CreateTradingOrder(o)
        PROVE [Ledger!LedgerNext]_(Ledger!ledgerVars)
    <3>1. CASE UNCHANGED orderStatus
      BY <2>1, <2>6, <3>1 DEF CreateTradingOrder
    <3>2. CASE orderStatus' = [orderStatus EXCEPT ![o] = "created"]
      <4>1. LedgerOrder(orderStatus[o]) = "absent" /\ LedgerOrder("created") = "open"
        BY <2>6, LedgerOrders DEF CreateTradingOrder, OpenStatus
      <4>2. Ledger!Place(o)
        BY <2>6, <3>2, <4>1, LedgerExcept
           DEF CreateTradingOrder, StatusInv, Starting, Ledger!Place
      <4> QED BY <4>2
    <3> QED BY <2>6, <3>1, <3>2 DEF CreateTradingOrder
  <2>7. ASSUME NEW o \in Orders, AcceptAndSubmit(o)
        PROVE [Ledger!LedgerNext]_(Ledger!ledgerVars)
    <3>1. CASE UNCHANGED orderStatus
      BY <2>1, <2>7, <3>1 DEF AcceptAndSubmit
    <3>2. CASE orderStatus' = [orderStatus EXCEPT ![o] = "accepted"]
      <4>1. LedgerOrder(orderStatus[o]) = "open" /\ LedgerOrder("accepted") = "open"
        BY <2>7, LedgerOrders DEF AcceptAndSubmit, OpenStatus
      <4>2. [p \in Orders |-> LedgerOrder(orderStatus'[p])] =
              [p \in Orders |-> LedgerOrder(orderStatus[p])]
        BY <3>2, <4>1, LedgerExcept
      <4> QED BY <2>7, <4>2 DEF AcceptAndSubmit
    <3> QED BY <2>7, <3>1, <3>2 DEF AcceptAndSubmit
  <2>8. ASSUME NEW o \in Orders, RecordFill(o)
        PROVE [Ledger!LedgerNext]_(Ledger!ledgerVars)
    <3>1. CASE UNCHANGED fillRows
      BY <2>1, <2>8, <3>1 DEF RecordFill
    <3>2. CASE fillRows' = [fillRows EXCEPT ![o] = @ + fills[o]]
      <4>1. Pending(o) /\ fills[o] > 0 /\ runStatus = "running"
        BY <2>8 DEF RecordFill, GroupInv, InGroup, Persisting, IsCurrent, IsFirst, Unsaved,
           StatusInv, Looping
      <4>2. fills[o] \in 1..(Qty - fillRows[o])
        BY <4>1, RunAssumption DEF Pending, TypeOK, Quantities
      <4>3. LedgerOrder(orderStatus[o]) = "open"
        BY <4>1, LedgerOrders DEF Pending, Resting, OpenStatus
      <4>4. Ledger!Fill(o)
        BY <2>8, <3>2, <4>1, <4>2, <4>3 DEF RecordFill, Ledger!Fill
      <4> QED BY <4>4
    <3> QED BY <2>8, <3>1, <3>2 DEF RecordFill
  <2>9. ASSUME NEW o \in Orders, RecordOrderState(o)
        PROVE [Ledger!LedgerNext]_(Ledger!ledgerVars)
    <3>1. CASE UNCHANGED orderStatus
      BY <2>1, <2>9, <3>1 DEF RecordOrderState
    <3>2. CASE pc' = "position"
      <4>1. FillWritten(o) /\ runStatus = "running"
        BY <2>9 DEF RecordOrderState, GroupInv, InGroup, Persisting, IsCurrent, IsFirst, Unsaved,
           StatusInv, Looping
      <4>2. LedgerOrder(orderStatus[o]) = "open"
        BY <4>1, LedgerOrders DEF FillWritten, Resting, OpenStatus
      <4>3. CASE taken[o] = Qty
        <5>1. orderStatus' = [orderStatus EXCEPT ![o] = "filled"]
          BY <2>9, <3>2, <4>3 DEF RecordOrderState, Goto
        <5>2. LedgerOrder("filled") = "closed"
          BY LedgerOrders
        <5>3. UNCHANGED <<runStatus, fillRows>>
          BY <2>9 DEF RecordOrderState
        <5>4. Ledger!Close(o)
          BY <4>1, <4>2, <5>1, <5>2, <5>3, LedgerExcept DEF Ledger!Close
        <5> QED BY <5>4
      <4>4. CASE taken[o] # Qty
        <5>1. orderStatus' = [orderStatus EXCEPT ![o] = "partially_filled"]
          BY <2>9, <3>2, <4>4 DEF RecordOrderState, Goto
        <5>2. LedgerOrder("partially_filled") = "open"
          BY LedgerOrders DEF OpenStatus
        <5>3. [p \in Orders |-> LedgerOrder(orderStatus'[p])] =
                [p \in Orders |-> LedgerOrder(orderStatus[p])]
          BY <4>2, <5>1, <5>2, LedgerExcept
        <5> QED BY <2>9, <5>3 DEF RecordOrderState
      <4> QED BY <4>3, <4>4
    <3> QED BY <2>9, <3>1, <3>2 DEF RecordOrderState, Goto
  <2>10. ASSUME NEW o \in Orders, StopExpire(o)
         PROVE [Ledger!LedgerNext]_(Ledger!ledgerVars)
    <3>1. CASE UNCHANGED orderStatus
      BY <2>1, <2>10, <3>1 DEF StopExpire
    <3>2. CASE Expire(o)
      <4>1. orderStatus[o] \in Resting /\ runStatus = "running"
        BY <2>10 DEF StopExpire, StopInv, Stopping, StatusInv
      <4> QED BY <2>10, <3>2, <4>1, ExpireCloses DEF StopExpire
    <3> QED BY <2>10, <3>1, <3>2 DEF StopExpire
  <2>11. ASSUME NEW o \in Orders, FailExpire(o)
         PROVE [Ledger!LedgerNext]_(Ledger!ledgerVars)
    <3>1. CASE UNCHANGED orderStatus
      BY <2>1, <2>11, <3>1 DEF FailExpire
    <3>2. CASE Expire(o)
      <4>1. orderStatus[o] \in Resting /\ runStatus = "running"
        BY <2>11 DEF FailExpire, FailInv
      <4> QED BY <2>11, <3>2, <4>1, ExpireCloses DEF FailExpire
    <3> QED BY <2>11, <3>1, <3>2 DEF FailExpire
  <2>12. CASE StopStatus
    <3>1. runStatus = "running" /\ \A o \in Orders : orderStatus[o] \in {"filled", "expired"}
      BY <2>12 DEF StopStatus, StopInv, Stopping, StatusInv
    <3>2. \A o \in Orders : LedgerOrder(orderStatus[o]) = "closed"
      BY <3>1, LedgerOrders
    <3> QED BY <2>12, <3>1, <3>2 DEF StopStatus, Ledger!Stop
  <2>13. CASE FailStatus
    BY <2>13 DEF FailStatus, StatusInv, Unfinished, Ledger!Fail
  <2>14. CASE Restart
    BY <2>14 DEF Restart, Unfinished, Ledger!Fail
  <2>15. CASE \/ RecordDecision \/ Register \/ RequestStop \/ PollFeed \/ PollStop
              \/ RecordPosition \/ PublishFills \/ ProcessCandle \/ Refresh \/ FeedFails
              \/ Crash
              \/ StopExpired \/ StopPublish \/ FailDrain \/ FailExpired \/ FailPublish
              \/ \E o \in Orders : RecordEquity(o)
              \/ \E t \in Trades : ProcessTrade(t) \/ RepeatedTrade(t)
    BY <2>1, <2>15 DEF RecordDecision, Register, RequestStop, PollFeed, PollStop,
       RecordPosition, PublishFills, ProcessCandle, Refresh, FeedFails, Crash, StopExpired,
       StopPublish, FailDrain, FailExpired, FailPublish, RecordEquity, ProcessTrade,
       RepeatedTrade, rows
  <2>16. CASE UNCHANGED vars
    BY <2>1, <2>16 DEF vars, rows
  <2> QED
    BY <2>2, <2>3, <2>4, <2>5, <2>6, <2>7, <2>8, <2>9, <2>10, <2>11, <2>12, <2>13, <2>14,
       <2>15, <2>16 DEF Next, StartStep, MarketStep, LoopStep, ExitStep
<1> QED BY <1>1, <1>2, RunIsInvariant, PTL DEF Spec, KeepsLedger, Ledger!LedgerSpec
=============================================================================
