-------------------------- MODULE MarketFeedProofs --------------------------
(***************************************************************************)
(* What a run can trust of its subscription to a market feed, for every    *)
(* channel capacity, every number of runs and every history of trades,     *)
(* connections and redeliveries (MarketFeed, src/market/service.rs).       *)
(***************************************************************************)
EXTENDS MarketFeed, SequenceTheorems, TLAPS

IsTrade(k) == log[k].kind = "trade"

\* The trade at position k of the channel's history was sent on connection e.
SentOn(k, e) == IsTrade(k) /\ log[k].epoch = e
Sent(id, e) == \E k \in 1..Len(log) : SentOn(k, e) /\ log[k].id = id

\* What is on the channel: its events are numbered from one, connections do not
\* come back, and a trade was sent on a connection that had handed it over.
LogInv ==
  /\ sequence = Len(log)
  /\ \A k \in 1..Len(log) : log[k].sequence = k /\ log[k].epoch <= epoch
  /\ \A k \in 1..Len(log) : IsTrade(k) => log[k].id \in 1..wire /\ log[k].epoch > 0
  /\ phase = "open" => epoch > 0 /\ \A k \in 1..Len(log) : ~SentOn(k, epoch)
  /\ phase = "live" => epoch > 0

\* A trade in a reader's hands is the last the connection handed over or was sent
\* before, and every other trade since one that was sent was sent as well.
DeliveryInv ==
  phase = "live" =>
    /\ held # 0 => held = wire \/ Sent(held, epoch)
    /\ \A k \in 1..Len(log) : SentOn(k, epoch) =>
         \A id \in log[k].id..wire : id = held \/ Sent(id, epoch)

\* Between two trades of one connection, the later one sent last, all were sent.
NoHoleInv ==
  \A j \in 1..Len(log), k \in 1..Len(log) :
    (k < j /\ IsTrade(j) /\ SentOn(k, log[j].epoch)) =>
      \A id \in (log[k].id + 1)..(log[j].id - 1) :
        \E m \in 1..(j - 1) : IsTrade(m) /\ log[m].id = id

\* A subscription stands behind the event it took last, returned every trade it
\* passed that was made after it subscribed, and returned trades of one connection
\* only.
CursorInv ==
  \A r \in Runs : run[r] # "idle" =>
    /\ cursor[r].at \in 1..(Len(log) + 1)
    /\ cursor[r].lastSequence # 0 => cursor[r].lastSequence = cursor[r].at - 1
    /\ cursor[r].lastTrade # 0 => cursor[r].lastTrade \in accepted[r]
    /\ \A k \in 1..(cursor[r].at - 1) :
         IsTrade(k) /\ log[k].id > attached[r] => log[k].id \in accepted[r]
    /\ \A id \in accepted[r] :
         /\ cursor[r].epoch > 0
         /\ id <= cursor[r].lastTrade
         /\ \E k \in 1..(cursor[r].at - 1) : SentOn(k, cursor[r].epoch) /\ log[k].id = id

\* A run that has not subscribed has returned nothing.
IdleInv == \A r \in Runs : run[r] = "idle" => accepted[r] = {}

IInv ==
  /\ TypeOK /\ LogInv /\ DeliveryInv /\ NoHoleInv /\ CursorInv /\ IdleInv
  /\ NoSilentGap /\ LagIsReportedAsLag

-----------------------------------------------------------------------------
\* What publish_realtime does to the history of the channel: one event more.
LEMMA PublishAppends ==
  ASSUME TypeOK, NEW kind \in Statuses \cup {"trade"}, NEW id \in Nat, Publish(kind, id)
  PROVE  /\ log' \in Seq(Event) /\ sequence' \in Nat /\ sequence' = sequence + 1
         /\ Len(log) \in Nat /\ Len(log') = Len(log) + 1
         /\ \A k \in 1..Len(log) : log'[k] = log[k]
         /\ log'[Len(log) + 1] = [sequence |-> sequence + 1, epoch |-> epoch,
                                  kind |-> kind, id |-> id]
<1> DEFINE event == [sequence |-> sequence', epoch |-> epoch, kind |-> kind, id |-> id]
<1>1. sequence' = sequence + 1 /\ sequence' \in Nat /\ log' = Append(log, event)
  BY DEF Publish, TypeOK
<1>2. event \in Event
  BY <1>1 DEF TypeOK, Event
<1>3. log \in Seq(Event)
  BY DEF TypeOK
<1> HIDE DEF event
<1>4. /\ log' \in Seq(Event) /\ Len(log') = Len(log) + 1
      /\ \A k \in 1..Len(log) : log'[k] = log[k]
      /\ log'[Len(log) + 1] = event
  BY <1>1, <1>2, <1>3, AppendProperties
<1> QED
  BY <1>1, <1>3, <1>4, LenProperties DEF event

\* An event of the history has the type of one.
LEMMA EventTyped ==
  ASSUME TypeOK, NEW k \in 1..Len(log)
  PROVE  /\ log[k] \in Event /\ log[k].sequence \in Nat /\ log[k].epoch \in Nat
         /\ log[k].kind \in Statuses \cup {"trade"} /\ log[k].id \in Nat
<1>1. log[k] \in Event
  BY ElementOfSeq DEF TypeOK
<1> QED
  BY <1>1 DEF Event

\* Initially there is nothing on the channel and nobody reads it.
LEMMA InitInv == Init => IInv
<1> SUFFICES ASSUME Init PROVE IInv
  OBVIOUS
<1> USE DEF Init
<1>1. log \in Seq(Event) /\ Len(log) = 0
  BY EmptySeq
<1>2. NewSubscription(1) \in Subscription
  BY DEF NewSubscription, Subscription
<1>3. TypeOK
  BY <1>1, <1>2 DEF TypeOK
<1>4. LogInv /\ DeliveryInv /\ NoHoleInv
  BY <1>1 DEF LogInv, DeliveryInv, NoHoleInv
<1>5. CursorInv /\ IdleInv /\ NoSilentGap /\ LagIsReportedAsLag
  BY DEF CursorInv, IdleInv, NoSilentGap, LagIsReportedAsLag
<1> QED
  BY <1>3, <1>4, <1>5 DEF IInv

\* The actions of the feed's own task and readers that publish nothing.
Silent ==
  \/ MakeTrade \/ Connect \/ ConnectFails \/ ReadTrade \/ ReadRepeatedTrade \/ Disconnect

\* The actions that publish, each with the event it publishes.
Publishing ==
  \/ StartAttempt \/ GoLive \/ PublishTrade \/ PublishCandle \/ AnnounceReconnect

\* Every step is one of the feed's, silent or publishing, or one of a run's.
LEMMA StepIsOneOf ==
  ASSUME Next
  PROVE  \/ Silent \/ Publishing
         \/ \E r \in Runs : \/ Subscribe(r) \/ EndLagged(r) \/ Refuse(r)
                           \/ AcceptStatus(r) \/ AcceptTrade(r)
BY DEF Next, FeedTask, Receive, Silent, Publishing

\* What a publishing step publishes, and what it leaves alone.
LEMMA PublishingStep ==
  ASSUME TypeOK, Publishing
  PROVE  /\ UNCHANGED <<exchange, epoch, runs>>
         /\ \E kind \in Statuses \cup {"trade"}, id \in Nat :
              /\ Publish(kind, id)
              /\ kind = "trade" => phase = "live" /\ held # 0 /\ id = held /\ held' = 0
              /\ kind # "trade" => held' = held
         /\ phase' = "live" => phase \in {"live", "open"}
         /\ phase' # "open"
BY DEF Publishing, StartAttempt, GoLive, PublishTrade, PublishCandle, AnnounceReconnect,
       TypeOK, Statuses, exchange, runs

\* The state after a run took the next event is of its type.
LEMMA AdvancedTyped ==
  ASSUME TypeOK, NEW r \in Runs, Waiting(r), cursor[r].at \in 1..(Len(log) + 1)
  PROVE  /\ cursor[r].at \in 1..Len(log)
         /\ Advanced(r, Upcoming(r)) \in Subscription
<1>1. Len(log) \in Nat /\ cursor[r] \in Subscription
  BY LenProperties DEF TypeOK
<1>2. cursor[r].at \in 1..Len(log)
  BY <1>1 DEF Waiting, Unread, Subscription
<1>3. Upcoming(r) \in Event
  BY <1>2, EventTyped DEF Upcoming
<1>4. Advanced(r, Upcoming(r)) \in Subscription
  BY <1>1, <1>3 DEF Advanced, Subscription, Event
<1> QED
  BY <1>2, <1>4

\* Every step of the feed and of a run keeps the variables in their types.
LEMMA TypeStays == IInv /\ [Next]_vars => TypeOK'
<1> SUFFICES ASSUME IInv, [Next]_vars PROVE TypeOK'
  OBVIOUS
<1>t. TypeOK /\ Len(log) \in Nat
  BY LenProperties DEF IInv, TypeOK
<1>1. CASE Silent
  <2>1. \A i \in 1..Len(log) : IsTrade(i) => log[i].id \in 1..wire
    BY DEF IInv, LogInv
  <2>2. CASE MakeTrade \/ Connect \/ ConnectFails \/ Disconnect
    BY <1>t, <2>2 DEF TypeOK, MakeTrade, Connect, ConnectFails, Disconnect, exchange, delivery, runs
  <2>3. CASE ReadTrade
    BY <1>t, <2>3 DEF TypeOK, ReadTrade, exchange, delivery, runs
  <2>4. CASE ReadRepeatedTrade
    BY <1>t, <2>1, <2>4 DEF TypeOK, ReadRepeatedTrade, exchange, delivery, runs, IsTrade
  <2> QED
    BY <1>1, <2>2, <2>3, <2>4 DEF Silent
<1>2. CASE Publishing
  <2>1. log' \in Seq(Event) /\ sequence' \in Nat
    BY <1>t, <1>2, PublishingStep, PublishAppends
  <2> QED
    BY <1>t, <1>2, <2>1 DEF TypeOK, Publishing, StartAttempt, GoLive, PublishTrade,
       PublishCandle, AnnounceReconnect, exchange, runs
<1>3. ASSUME NEW r \in Runs, Subscribe(r) PROVE TypeOK'
  <2>1. NewSubscription(Len(log) + 1) \in Subscription
    BY <1>t DEF NewSubscription, Subscription
  <2> QED
    BY <1>t, <1>3, <2>1 DEF TypeOK, Subscribe, exchange, delivery
<1>4. ASSUME NEW r \in Runs, EndLagged(r) \/ Refuse(r) PROVE TypeOK'
  <2>1. Refusal(r, Upcoming(r)) \in EndReason \cup {"none"}
    BY DEF Refusal, EndReason
  <2> QED
    BY <1>t, <1>4, <2>1 DEF TypeOK, EndLagged, Refuse, End, EndReason, exchange, delivery
<1>5. ASSUME NEW r \in Runs, AcceptStatus(r) \/ AcceptTrade(r) PROVE TypeOK'
  <2>1. Waiting(r) /\ cursor' = [cursor EXCEPT ![r] = Advanced(r, Upcoming(r))]
    BY <1>5 DEF AcceptStatus, AcceptTrade, Take
  <2>2. cursor[r].at \in 1..(Len(log) + 1)
    BY <2>1 DEF IInv, CursorInv, Waiting
  <2>3. Advanced(r, Upcoming(r)) \in Subscription /\ Upcoming(r).id \in Nat
    BY <1>t, <2>1, <2>2, AdvancedTyped, EventTyped DEF Upcoming
  <2>4. cursor' \in [Runs -> Subscription]
    BY <1>t, <2>1, <2>3 DEF TypeOK
  <2>5. CASE AcceptStatus(r)
    BY <1>t, <2>4, <2>5 DEF TypeOK, AcceptStatus, EndReason, exchange, delivery
  <2>6. CASE AcceptTrade(r)
    <3>1. accepted' \in [Runs -> SUBSET Nat]
      BY <1>t, <2>3, <2>6 DEF TypeOK, AcceptTrade
    <3> QED
      BY <1>t, <2>4, <2>6, <3>1 DEF TypeOK, AcceptTrade, exchange, delivery
  <2> QED
    BY <1>5, <2>5, <2>6
<1>6. CASE UNCHANGED vars
  BY <1>t, <1>6 DEF TypeOK, vars, exchange, delivery, runs
<1> QED
  BY <1>1, <1>2, <1>3, <1>4, <1>5, <1>6, StepIsOneOf

\* A run's step leaves the feed and its channel alone.
LEMMA RunStepLeavesFeed ==
  ASSUME NEW r \in Runs,
         Subscribe(r) \/ EndLagged(r) \/ Refuse(r) \/ AcceptStatus(r) \/ AcceptTrade(r)
  PROVE  UNCHANGED <<tape, wire, phase, attempts, held, epoch, sequence, log>>
BY DEF Subscribe, EndLagged, Refuse, End, AcceptStatus, AcceptTrade, exchange, delivery

\* The channel's history only grows: what was sent on a connection stays sent.
LEMMA SentStays ==
  ASSUME TypeOK, NEW kind \in Statuses \cup {"trade"}, NEW event \in Nat,
         Publish(kind, event), NEW id, NEW e
  PROVE  /\ Sent(id, e) => Sent(id, e)'
         /\ kind = "trade" /\ id = event /\ e = epoch => Sent(id, e)'
<1>1. /\ Len(log) \in Nat /\ Len(log') = Len(log) + 1
      /\ \A k \in 1..Len(log) : log'[k] = log[k]
      /\ log'[Len(log) + 1] = [sequence |-> sequence + 1, epoch |-> epoch,
                               kind |-> kind, id |-> event]
  BY PublishAppends
<1>2. Sent(id, e) => Sent(id, e)'
  BY <1>1 DEF Sent, SentOn, IsTrade
<1>3. kind = "trade" /\ id = event /\ e = epoch => Sent(id, e)'
  <2>1. Len(log) + 1 \in 1..Len(log')
    BY <1>1
  <2> QED
    BY <1>1, <2>1 DEF Sent, SentOn, IsTrade
<1> QED
  BY <1>2, <1>3

\* Numbering and sending under one lock (publish_realtime) keeps the channel's events
\* numbered from one, and begin_connection_epoch makes the epochs grow.
LEMMA LogStays == IInv /\ [Next]_vars => LogInv'
<1> SUFFICES ASSUME IInv, [Next]_vars PROVE LogInv'
  OBVIOUS
<1>t. TypeOK /\ LogInv /\ Len(log) \in Nat
  BY LenProperties DEF IInv, TypeOK
<1>e. \A k \in 1..Len(log) : log[k].epoch \in Nat /\ log[k].id \in Nat
  BY <1>t, EventTyped
<1>w. wire \in Nat /\ tape \in Nat /\ epoch \in Nat /\ wire <= tape
  BY <1>t DEF TypeOK
<1>1. CASE Silent
  <2>1. UNCHANGED <<log, sequence>> /\ wire' \in Nat /\ wire <= wire'
    BY <1>w, <1>1 DEF Silent, MakeTrade, Connect, ConnectFails, ReadTrade, ReadRepeatedTrade,
       Disconnect, exchange, delivery
  <2>2. epoch' \in Nat /\ epoch <= epoch'
    BY <1>w, <1>1 DEF Silent, MakeTrade, Connect, ConnectFails, ReadTrade, ReadRepeatedTrade,
       Disconnect, exchange, delivery
  <2>3. \A k \in 1..Len(log) : IsTrade(k) => log[k].id \in 1..wire' /\ log[k].epoch > 0
    BY <1>t, <1>e, <1>w, <2>1 DEF LogInv
  <2>4. phase' = "live" => phase = "live" /\ epoch' = epoch
    BY <1>1 DEF Silent, MakeTrade, Connect, ConnectFails, ReadTrade, ReadRepeatedTrade,
       Disconnect, exchange, delivery
  <2>5. phase' = "open" => epoch' = epoch + 1 \/ (phase = "open" /\ epoch' = epoch)
    <3>1. CASE MakeTrade \/ Connect \/ ConnectFails
      BY <3>1 DEF MakeTrade, Connect, ConnectFails, delivery
    <3>2. CASE ReadTrade \/ ReadRepeatedTrade \/ Disconnect
      BY <3>2 DEF ReadTrade, ReadRepeatedTrade, Disconnect
    <3> QED
      BY <1>1, <3>1, <3>2 DEF Silent
  <2>6. phase' = "open" => epoch' > 0 /\ \A k \in 1..Len(log) : log[k].epoch # epoch' \/ ~IsTrade(k)
    BY <1>t, <1>e, <1>w, <2>5 DEF LogInv, SentOn
  <2>7. \A k \in 1..Len(log) : log[k].epoch <= epoch'
    BY <1>t, <1>e, <1>w, <2>2 DEF LogInv
  <2> QED
    BY <1>t, <2>1, <2>3, <2>4, <2>6, <2>7 DEF LogInv, SentOn, IsTrade
<1>2. CASE Publishing
  <2>1. PICK kind \in Statuses \cup {"trade"}, id \in Nat :
          /\ Publish(kind, id)
          /\ kind = "trade" => phase = "live" /\ held # 0 /\ id = held
    BY <1>t, <1>2, PublishingStep
  <2>2. /\ sequence' = sequence + 1 /\ Len(log') = Len(log) + 1
        /\ \A k \in 1..Len(log) : log'[k] = log[k]
        /\ log'[Len(log) + 1] = [sequence |-> sequence + 1, epoch |-> epoch,
                                 kind |-> kind, id |-> id]
    BY <1>t, <2>1, PublishAppends
  <2>3. /\ UNCHANGED <<wire, epoch>> /\ phase' # "open"
        /\ phase' = "live" => phase \in {"live", "open"}
    BY <1>t, <1>2, PublishingStep DEF exchange
  <2>4. ASSUME NEW k \in 1..Len(log')
        PROVE  /\ log'[k].sequence = k /\ log'[k].epoch <= epoch
               /\ log'[k].kind = "trade" => log'[k].id \in 1..wire /\ log'[k].epoch > 0
    <3>1. CASE k \in 1..Len(log)
      BY <1>t, <2>2, <3>1 DEF LogInv, IsTrade
    <3>2. CASE k = Len(log) + 1
      <4>1. kind = "trade" => id \in 1..wire
        BY <1>t, <2>1 DEF TypeOK
      <4> QED
        BY <1>t, <1>w, <2>1, <2>2, <3>2, <4>1 DEF LogInv
    <3> QED
      BY <1>t, <2>2, <3>1, <3>2
  <2> QED
    BY <1>t, <2>2, <2>3, <2>4 DEF LogInv, IsTrade
<1>3. ASSUME NEW r \in Runs,
             Subscribe(r) \/ EndLagged(r) \/ Refuse(r) \/ AcceptStatus(r) \/ AcceptTrade(r)
      PROVE  LogInv'
  BY <1>t, <1>3, RunStepLeavesFeed DEF LogInv, SentOn, IsTrade
<1>4. CASE UNCHANGED vars
  BY <1>t, <1>4 DEF vars, exchange, delivery, LogInv, SentOn, IsTrade
<1> QED
  BY <1>1, <1>2, <1>3, <1>4, StepIsOneOf

\* A reader takes the next trade of its connection or one that was sent, and gives it
\* up only to the channel or when the connection ends (apply_event, abort_all).
LEMMA DeliveryStays == IInv /\ TypeOK' /\ [Next]_vars => DeliveryInv'
<1> SUFFICES ASSUME IInv, TypeOK', [Next]_vars, phase' = "live"
             PROVE  /\ held' # 0 => held' = wire' \/ Sent(held, epoch)'
                    /\ \A k \in 1..Len(log') : SentOn(k, epoch)' =>
                         \A id \in log'[k].id..wire' : id = held' \/ Sent(id, epoch)'
  BY DEF DeliveryInv
<1>t. TypeOK /\ LogInv /\ DeliveryInv /\ Len(log) \in Nat
  BY LenProperties DEF IInv, TypeOK
<1>w. wire \in Nat /\ held \in Nat /\ epoch \in Nat /\ held <= wire
  BY <1>t DEF TypeOK
<1>e. \A k \in 1..Len(log) : log[k].epoch \in Nat /\ log[k].id \in Nat
  BY <1>t, EventTyped
<1>1. CASE MakeTrade \/ ReadTrade \/ ReadRepeatedTrade
  <2>1. /\ phase = "live" /\ UNCHANGED <<log, epoch>>
        /\ \/ UNCHANGED <<wire, held>>
           \/ held = 0 /\ wire' = wire + 1 /\ held' = wire'
           \/ held = 0 /\ wire' = wire /\ Sent(held', epoch)
    BY <1>1 DEF MakeTrade, ReadTrade, ReadRepeatedTrade, exchange, delivery, Sent, SentOn, IsTrade
  <2>2. \A id : Sent(id, epoch)' <=> Sent(id, epoch)
    BY <2>1 DEF Sent, SentOn, IsTrade
  <2>3. /\ held # 0 => held = wire \/ Sent(held, epoch)
        /\ \A k \in 1..Len(log) : SentOn(k, epoch) =>
             \A id \in log[k].id..wire : id = held \/ Sent(id, epoch)
    BY <1>t, <2>1 DEF DeliveryInv
  <2>4. ASSUME NEW k \in 1..Len(log), SentOn(k, epoch), NEW id \in log[k].id..wire'
        PROVE  id = held' \/ Sent(id, epoch)
    <3>1. id # 0
      BY <1>t, <1>w, <2>1, <2>4 DEF LogInv, SentOn
    <3>2. id \in log[k].id..wire \/ (id = wire + 1 /\ wire' = wire + 1)
      BY <1>t, <1>w, <2>1, <2>4 DEF LogInv, SentOn
    <3> QED
      BY <2>1, <2>3, <2>4, <3>1, <3>2
  <2>5. held' # 0 => held' = wire' \/ Sent(held', epoch)
    BY <2>1, <2>3
  <2> QED
    BY <2>1, <2>2, <2>4, <2>5 DEF SentOn, IsTrade, Sent
<1>2. CASE Connect \/ ConnectFails \/ Disconnect
  BY <1>2 DEF Connect, ConnectFails, Disconnect
<1>3. CASE Publishing
  <2>1. PICK kind \in Statuses \cup {"trade"}, event \in Nat :
          /\ Publish(kind, event)
          /\ kind = "trade" => phase = "live" /\ held # 0 /\ event = held /\ held' = 0
          /\ kind # "trade" => held' = held
    BY <1>t, <1>3, PublishingStep
  <2>2. UNCHANGED <<wire, epoch>> /\ phase \in {"live", "open"}
    BY <1>t, <1>3, PublishingStep DEF exchange
  <2>3. /\ Len(log') = Len(log) + 1
        /\ \A k \in 1..Len(log) : log'[k] = log[k]
        /\ log'[Len(log) + 1] = [sequence |-> sequence + 1, epoch |-> epoch,
                                 kind |-> kind, id |-> event]
    BY <1>t, <2>1, PublishAppends
  <2>4. \A id : Sent(id, epoch) => Sent(id, epoch)'
    <3>1. \A id, e : Sent(id, e) => Sent(id, e)'
      BY <1>t, <2>1, SentStays
    <3> QED
      BY <2>2, <3>1 DEF Sent, SentOn, IsTrade
  <2>5. kind = "trade" => Sent(event, epoch)'
    <3>1. Len(log) + 1 \in 1..Len(log')
      BY <1>t, <2>3
    <3> QED
      BY <2>1, <2>2, <2>3, <3>1 DEF Sent, SentOn, IsTrade
  <2>6. CASE phase = "open"
    <3>1. kind # "trade" /\ held = 0 /\ held' = 0
      BY <1>t, <2>1, <2>6 DEF TypeOK
    <3>2. \A k \in 1..Len(log') : ~SentOn(k, epoch)'
      BY <1>t, <2>2, <2>3, <2>6, <3>1 DEF LogInv, SentOn, IsTrade
    <3> QED
      BY <3>1, <3>2
  <2>7. CASE phase = "live"
    <3>1. /\ held # 0 => held = wire \/ Sent(held, epoch)
          /\ \A k \in 1..Len(log) : SentOn(k, epoch) =>
               \A id \in log[k].id..wire : id = held \/ Sent(id, epoch)
      BY <1>t, <2>7 DEF DeliveryInv
    <3>2. \A id \in Nat \ {0} :
            id = held \/ Sent(id, epoch) => id = held' \/ Sent(id, epoch)'
      <4>1. CASE kind = "trade"
        BY <2>1, <2>4, <2>5, <4>1
      <4>2. CASE kind # "trade"
        BY <2>1, <2>4, <4>2
      <4> QED
        BY <4>1, <4>2
    <3>3. ASSUME NEW k \in 1..Len(log'), SentOn(k, epoch)', NEW id \in log'[k].id..wire
          PROVE  id = held' \/ Sent(id, epoch)'
      <4>1. CASE k \in 1..Len(log)
        <5>1. SentOn(k, epoch) /\ log'[k] = log[k]
          BY <2>2, <2>3, <3>3, <4>1 DEF SentOn, IsTrade
        <5>2. id \in Nat \ {0} /\ id \in log[k].id..wire
          BY <1>t, <1>w, <2>2, <3>3, <4>1, <5>1 DEF LogInv, SentOn
        <5> QED
          BY <3>1, <3>2, <4>1, <5>1, <5>2
      <4>2. CASE k = Len(log) + 1
        <5>1. kind = "trade" /\ log'[k].id = held /\ held # 0
          BY <2>1, <2>3, <3>3, <4>2 DEF SentOn, IsTrade
        <5>2. CASE id = held
          BY <2>1, <2>5, <5>1, <5>2
        <5>3. CASE id # held
          <6>1. held # wire
            BY <1>w, <3>3, <5>1, <5>3
          <6>2. Sent(held, epoch)
            BY <3>1, <5>1, <6>1
          <6>3. PICK m \in 1..Len(log) : SentOn(m, epoch) /\ log[m].id = held
            BY <6>2 DEF Sent
          <6>4. id \in log[m].id..wire
            BY <3>3, <5>1, <6>3
          <6>5. Sent(id, epoch)
            BY <3>1, <5>3, <6>3, <6>4
          <6> QED
            BY <2>4, <6>5
        <5> QED
          BY <5>2, <5>3
      <4> QED
        BY <1>t, <2>3, <3>3, <4>1, <4>2
    <3>4. held' # 0 => held' = wire' \/ Sent(held, epoch)'
      <4>1. CASE kind = "trade"
        BY <2>1, <4>1
      <4>2. CASE kind # "trade"
        <5>1. \A id : Sent(id, epoch)' <=> \E k \in 1..Len(log') :
                      (log'[k].kind = "trade" /\ log'[k].epoch = epoch') /\ log'[k].id = id
          BY DEF Sent, SentOn, IsTrade
        <5>2. held' # 0 => held' = wire \/ Sent(held', epoch)
          BY <2>1, <3>1, <4>2
        <5> QED
          BY <2>2, <2>4, <5>1, <5>2 DEF Sent, SentOn, IsTrade
      <4> QED
        BY <4>1, <4>2
    <3> QED
      BY <2>2, <3>3, <3>4
  <2> QED
    BY <2>2, <2>6, <2>7
<1>4. CASE \/ UNCHANGED vars
           \/ \E r \in Runs : \/ Subscribe(r) \/ EndLagged(r) \/ Refuse(r)
                              \/ AcceptStatus(r) \/ AcceptTrade(r)
  <2>1. UNCHANGED <<wire, phase, held, epoch, log>>
    BY <1>4, RunStepLeavesFeed DEF vars, exchange, delivery
  <2> QED
    BY <1>t, <2>1 DEF DeliveryInv, Sent, SentOn, IsTrade
<1> QED
  BY <1>1, <1>2, <1>3, <1>4, StepIsOneOf DEF Silent

\* The trade a reader publishes follows the others of its connection without a hole.
LEMMA NoHoleStays == IInv /\ [Next]_vars => NoHoleInv'
<1> SUFFICES ASSUME IInv, [Next]_vars PROVE NoHoleInv'
  OBVIOUS
<1>t. TypeOK /\ LogInv /\ DeliveryInv /\ NoHoleInv /\ Len(log) \in Nat
  BY LenProperties DEF IInv, TypeOK
<1>1. CASE Publishing
  <2>1. PICK kind \in Statuses \cup {"trade"}, event \in Nat :
          /\ Publish(kind, event)
          /\ kind = "trade" => phase = "live" /\ held # 0 /\ event = held
    BY <1>t, <1>1, PublishingStep
  <2>2. /\ Len(log') = Len(log) + 1
        /\ \A k \in 1..Len(log) : log'[k] = log[k]
        /\ log'[Len(log) + 1] = [sequence |-> sequence + 1, epoch |-> epoch,
                                 kind |-> kind, id |-> event]
    BY <1>t, <2>1, PublishAppends
  <2> SUFFICES ASSUME NEW j \in 1..Len(log'), NEW k \in 1..Len(log'), k < j,
                      log'[j].kind = "trade", log'[k].kind = "trade",
                      log'[k].epoch = log'[j].epoch,
                      NEW id \in (log'[k].id + 1)..(log'[j].id - 1)
               PROVE  \E m \in 1..(j - 1) : log'[m].kind = "trade" /\ log'[m].id = id
    BY DEF NoHoleInv, SentOn, IsTrade
  <2>3. k \in 1..Len(log) /\ log'[k] = log[k]
    BY <1>t, <2>2
  <2>4. CASE j \in 1..Len(log)
    <3>1. SentOn(k, log[j].epoch) /\ IsTrade(j) /\ id \in (log[k].id + 1)..(log[j].id - 1)
      BY <2>2, <2>3, <2>4 DEF SentOn, IsTrade
    <3>2. PICK m \in 1..(j - 1) : IsTrade(m) /\ log[m].id = id
      BY <1>t, <2>3, <2>4, <3>1 DEF NoHoleInv
    <3> QED
      BY <1>t, <2>2, <2>4, <3>2 DEF IsTrade
  <2>5. CASE j = Len(log) + 1
    <3>1. kind = "trade" /\ SentOn(k, epoch) /\ id \in (log[k].id + 1)..(held - 1)
      BY <2>1, <2>2, <2>3, <2>5 DEF SentOn, IsTrade
    <3>2. log[k].id \in Nat /\ held \in Nat /\ wire \in Nat /\ held <= wire
      BY <1>t, <2>3, EventTyped DEF TypeOK
    <3>3. id \in log[k].id..wire /\ id # held
      BY <3>1, <3>2
    <3>4. Sent(id, epoch)
      <4>1. phase = "live" /\ k \in 1..Len(log) /\ SentOn(k, epoch)
        BY <2>1, <2>3, <3>1
      <4> QED
        BY <1>t, <3>3, <4>1, Zenon DEF DeliveryInv
    <3>5. PICK m \in 1..Len(log) : IsTrade(m) /\ log[m].id = id
      BY <3>4 DEF Sent, SentOn
    <3> QED
      BY <1>t, <2>2, <2>5, <3>5 DEF IsTrade
  <2>6. j \in 1..Len(log) \/ j = Len(log) + 1
    BY <1>t, <2>2
  <2> QED
    BY <2>4, <2>5, <2>6
<1>2. CASE Silent
  <2>1. UNCHANGED log
    BY <1>2 DEF Silent, MakeTrade, Connect, ConnectFails, ReadTrade, ReadRepeatedTrade,
       Disconnect, delivery
  <2>2. NoHoleInv
    BY <1>t
  <2> QED
    BY <2>1, <2>2 DEF NoHoleInv, SentOn, IsTrade
<1>3. CASE \/ UNCHANGED vars
           \/ \E r \in Runs : \/ Subscribe(r) \/ EndLagged(r) \/ Refuse(r)
                              \/ AcceptStatus(r) \/ AcceptTrade(r)
  <2>1. UNCHANGED log
    BY <1>3, RunStepLeavesFeed DEF vars, delivery
  <2>2. NoHoleInv
    BY <1>t
  <2> QED
    BY <2>1, <2>2 DEF NoHoleInv, SentOn, IsTrade
<1> QED
  BY <1>1, <1>2, <1>3, StepIsOneOf

\* What the step of one run leaves of the others.
LEMMA RunStepLeavesRuns ==
  ASSUME TypeOK, NEW r \in Runs,
         Subscribe(r) \/ EndLagged(r) \/ Refuse(r) \/ AcceptStatus(r) \/ AcceptTrade(r),
         NEW s \in Runs, s # r
  PROVE  /\ run'[s] = run[s] /\ cursor'[s] = cursor[s]
         /\ accepted'[s] = accepted[s] /\ attached'[s] = attached[s]
<1> USE DEF TypeOK
<1>1. CASE Subscribe(r)
  BY <1>1 DEF Subscribe
<1>2. CASE EndLagged(r) \/ Refuse(r)
  BY <1>2 DEF EndLagged, Refuse, End
<1>3. CASE AcceptStatus(r)
  BY <1>3 DEF AcceptStatus, Take
<1>4. CASE AcceptTrade(r)
  BY <1>4 DEF AcceptTrade, Take
<1> QED
  BY <1>1, <1>2, <1>3, <1>4

\* An event that recv lets through comes after the last one on the same connection, and
\* a trade is no older than the last.
LEMMA TakenEvent ==
  ASSUME IInv, NEW r \in Runs, Take(r), NEW e, e = log[cursor[r].at]
  PROVE  /\ run[r] = "live" /\ cursor[r].at \in 1..Len(log)
         /\ cursor[r] \in Subscription
         /\ e \in Event /\ e.sequence = cursor[r].at
         /\ cursor'[r].at = cursor[r].at + 1 /\ cursor'[r].lastSequence = e.sequence
         /\ cursor'[r].epoch = IF e.epoch > 0 THEN e.epoch ELSE cursor[r].epoch
         /\ cursor'[r].lastTrade = IF e.kind = "trade" THEN e.id ELSE cursor[r].lastTrade
         /\ e.epoch > 0 /\ cursor[r].epoch > 0 => e.epoch = cursor[r].epoch
         /\ e.kind = "trade" => e.id > 0 /\ e.epoch > 0 /\ e.id >= cursor[r].lastTrade
<1>t. TypeOK /\ LogInv /\ CursorInv
  BY DEF IInv
<1>1. run[r] = "live" /\ Waiting(r)
  BY DEF Take, Waiting
<1>2. cursor[r].at \in 1..Len(log)
  BY <1>t, <1>1, AdvancedTyped DEF CursorInv
<1>3. cursor[r] \in Subscription /\ e \in Event /\ e.sequence = cursor[r].at
  BY <1>t, <1>2, EventTyped DEF TypeOK, LogInv
<1>4. /\ cursor[r].lastTrade \in Nat /\ cursor[r].epoch \in Nat
      /\ e.id \in Nat /\ e.epoch \in Nat
  BY <1>3 DEF Subscription, Event
<1>5. cursor'[r] = Advanced(r, e)
  BY <1>t, <1>3 DEF Take, TypeOK, Upcoming
<1>6. /\ e.epoch > 0 /\ cursor[r].epoch > 0 => e.epoch = cursor[r].epoch
      /\ e.kind = "trade" => ~(e.id < cursor[r].lastTrade)
  <2>1. Refusal(r, e) = "none"
    BY DEF Take, Upcoming
  <2>2. ~(cursor[r].lastSequence # 0 /\ e.sequence # cursor[r].lastSequence + 1)
    BY <2>1 DEF Refusal
  <2>3. ~(e.epoch > 0 /\ cursor[r].epoch > 0 /\ e.epoch # cursor[r].epoch)
    BY <2>1, <2>2 DEF Refusal
  <2>4. ~(e.kind = "trade" /\ e.id < cursor[r].lastTrade)
    BY <2>1, <2>2, <2>3 DEF Refusal
  <2> QED
    BY <2>3, <2>4
<1>7. e.kind = "trade" => e.id > 0 /\ e.epoch > 0
  BY <1>t, <1>2, <1>4 DEF LogInv, IsTrade, TypeOK
<1> QED
  BY <1>1, <1>2, <1>3, <1>4, <1>5, <1>6, <1>7 DEF Advanced

\* What CursorInv says of one run.
Stands(r) ==
  /\ cursor[r].at \in 1..(Len(log) + 1)
  /\ cursor[r].lastSequence # 0 => cursor[r].lastSequence = cursor[r].at - 1
  /\ cursor[r].lastTrade # 0 => cursor[r].lastTrade \in accepted[r]
  /\ \A k \in 1..(cursor[r].at - 1) :
       IsTrade(k) /\ log[k].id > attached[r] => log[k].id \in accepted[r]
  /\ \A id \in accepted[r] :
       /\ cursor[r].epoch > 0
       /\ id <= cursor[r].lastTrade
       /\ \E k \in 1..(cursor[r].at - 1) : SentOn(k, cursor[r].epoch) /\ log[k].id = id

\* What a subscription stands for does not change while the channel's history grows.
LEMMA StandsStays ==
  ASSUME TypeOK, NEW r \in Runs, Stands(r),
         Len(log') \in Nat, Len(log) <= Len(log'),
         \A k \in 1..Len(log) : log'[k] = log[k],
         cursor'[r] = cursor[r], accepted'[r] = accepted[r], attached'[r] = attached[r]
  PROVE  Stands(r)'
<1>1. Len(log) \in Nat /\ cursor[r].at \in Nat
  BY LenProperties DEF TypeOK, Subscription
<1>2. \A k \in 1..(cursor[r].at - 1) : k \in 1..Len(log) /\ log'[k] = log[k]
  BY <1>1 DEF Stands
<1>3. ASSUME NEW id \in accepted'[r]
      PROVE  \E k \in 1..(cursor'[r].at - 1) :
               (log'[k].kind = "trade" /\ log'[k].epoch = cursor'[r].epoch) /\ log'[k].id = id
  <2>1. PICK k \in 1..(cursor[r].at - 1) :
          log[k].kind = "trade" /\ log[k].epoch = cursor[r].epoch /\ log[k].id = id
    BY <1>3 DEF Stands, SentOn, IsTrade
  <2>2. log'[k] = log[k]
    BY <1>2
  <2> QED
    BY <2>1, <2>2
<1>4. \A k \in 1..(cursor'[r].at - 1) :
        log'[k].kind = "trade" /\ log'[k].id > attached'[r] => log'[k].id \in accepted'[r]
  BY <1>2 DEF Stands, IsTrade
<1>5. cursor'[r].at \in 1..(Len(log') + 1)
  BY <1>1 DEF Stands
<1> QED
  BY <1>3, <1>4, <1>5 DEF Stands, SentOn, IsTrade

\* A subscription keeps standing for what it returned, whatever the feed and the run do.
LEMMA CursorStays == IInv /\ TypeOK' /\ [Next]_vars => CursorInv'
<1> SUFFICES ASSUME IInv, TypeOK', [Next]_vars, NEW r \in Runs, run'[r] # "idle"
             PROVE  Stands(r)'
  BY DEF CursorInv, Stands
<1>t. /\ TypeOK /\ LogInv /\ Len(log) \in Nat
      /\ run[r] # "idle" => Stands(r)
  BY LenProperties DEF IInv, TypeOK, CursorInv, Stands
<1>f. ASSUME Silent \/ Publishing \/ UNCHANGED vars
      PROVE  /\ Len(log') \in Nat /\ Len(log) <= Len(log')
             /\ \A k \in 1..Len(log) : log'[k] = log[k]
             /\ UNCHANGED <<run, cursor, accepted, attached>>
  <2>1. CASE Silent \/ UNCHANGED vars
    BY <1>t, <2>1 DEF Silent, MakeTrade, Connect, ConnectFails, ReadTrade, ReadRepeatedTrade,
       Disconnect, vars, delivery, runs
  <2>2. CASE Publishing
    <3>1. /\ Len(log') = Len(log) + 1
          /\ \A k \in 1..Len(log) : log'[k] = log[k]
      BY <1>t, <2>2, PublishingStep, PublishAppends
    <3>2. UNCHANGED <<run, cursor, accepted, attached>>
      BY <1>t, <2>2, PublishingStep DEF runs
    <3> QED
      BY <1>t, <3>1, <3>2
  <2> QED
    BY <1>f, <2>1, <2>2
<1>1. CASE Silent \/ Publishing \/ UNCHANGED vars
  <2>1. Stands(r)
    BY <1>t, <1>f, <1>1
  <2> QED
    BY <1>t, <1>f, <1>1, <2>1, StandsStays
<1>2. ASSUME NEW s \in Runs, s # r,
             Subscribe(s) \/ EndLagged(s) \/ Refuse(s) \/ AcceptStatus(s) \/ AcceptTrade(s)
      PROVE  Stands(r)'
  BY <1>t, <1>2, RunStepLeavesFeed, RunStepLeavesRuns, StandsStays
<1>3. CASE Subscribe(r)
  <2>1. /\ cursor'[r] = NewSubscription(Len(log) + 1) /\ attached'[r] = wire
        /\ accepted'[r] = {} /\ log' = log
    BY <1>t, <1>3 DEF Subscribe, TypeOK, IInv, IdleInv, delivery
  <2>2. \A k \in 1..Len(log) : IsTrade(k) => ~(log[k].id > wire)
    <3>1. \A k \in 1..Len(log) : IsTrade(k) => log[k].id \in 1..wire
      BY <1>t DEF LogInv
    <3>2. wire \in Nat
      BY <1>t DEF TypeOK
    <3> QED
      BY <3>1, <3>2
  <2> QED
    BY <1>t, <2>1, <2>2 DEF Stands, NewSubscription, IsTrade
<1>4. CASE EndLagged(r) \/ Refuse(r)
  <2>1. UNCHANGED <<log, cursor, accepted, attached>> /\ run[r] # "idle"
    BY <1>4 DEF EndLagged, Refuse, End, Lagged, Waiting, delivery
  <2> QED
    BY <1>t, <2>1, StandsStays
<1>5. CASE AcceptStatus(r) \/ AcceptTrade(r)
  <2> DEFINE at == cursor[r].at
             e == log[at]
  <2>1. Take(r) /\ UNCHANGED <<log, attached>>
    BY <1>5 DEF AcceptStatus, AcceptTrade, delivery
  <2>2. /\ run[r] = "live" /\ at \in 1..Len(log) /\ cursor[r] \in Subscription
        /\ e \in Event /\ e.sequence = at
        /\ cursor'[r].at = at + 1 /\ cursor'[r].lastSequence = at
        /\ cursor'[r].epoch = IF e.epoch > 0 THEN e.epoch ELSE cursor[r].epoch
        /\ cursor'[r].lastTrade = IF e.kind = "trade" THEN e.id ELSE cursor[r].lastTrade
        /\ e.epoch > 0 /\ cursor[r].epoch > 0 => e.epoch = cursor[r].epoch
        /\ e.kind = "trade" => e.id > 0 /\ e.epoch > 0 /\ e.id >= cursor[r].lastTrade
    BY <2>1, TakenEvent
  <2>3. /\ e.id \in Nat /\ e.epoch \in Nat /\ cursor[r].epoch \in Nat
        /\ cursor[r].lastTrade \in Nat /\ accepted[r] \subseteq Nat
    BY <1>t, <2>2 DEF Event, Subscription, TypeOK
  <2>4. Stands(r)
    BY <1>t, <2>2
  <2>5. accepted'[r] = accepted[r] \cup (IF e.kind = "trade" THEN {e.id} ELSE {})
    <3>1. CASE AcceptStatus(r)
      BY <3>1 DEF AcceptStatus, Upcoming
    <3>2. CASE AcceptTrade(r) /\ e.id = cursor[r].lastTrade
      BY <2>2, <2>3, <2>4, <3>2 DEF AcceptTrade, Upcoming, Stands
    <3>3. CASE AcceptTrade(r) /\ e.id # cursor[r].lastTrade
      BY <1>t, <3>3 DEF AcceptTrade, Upcoming, TypeOK
    <3> QED
      BY <1>5, <3>1, <3>2, <3>3
  <2> HIDE DEF e, at
  <2>6. /\ cursor'[r].at \in 1..(Len(log') + 1)
        /\ cursor'[r].lastSequence = cursor'[r].at - 1
    BY <1>t, <2>1, <2>2
  <2>7. cursor'[r].lastTrade # 0 => cursor'[r].lastTrade \in accepted'[r]
    BY <2>2, <2>4, <2>5 DEF Stands
  <2>8. ASSUME NEW k \in 1..(cursor'[r].at - 1), log[k].kind = "trade", log[k].id > attached[r]
        PROVE  log[k].id \in accepted'[r]
    <3>1. CASE k = at
      BY <2>5, <2>8, <3>1 DEF e, at
    <3>2. CASE k # at
      BY <2>2, <2>4, <2>5, <2>8, <3>2 DEF Stands, IsTrade, at
    <3> QED
      BY <3>1, <3>2
  <2>9. ASSUME NEW id \in accepted'[r]
        PROVE  /\ cursor'[r].epoch > 0 /\ id <= cursor'[r].lastTrade
               /\ \E k \in 1..(cursor'[r].at - 1) :
                    (log[k].kind = "trade" /\ log[k].epoch = cursor'[r].epoch) /\ log[k].id = id
    <3>1. CASE e.kind = "trade" /\ id = e.id
      <4>1. at \in 1..(cursor'[r].at - 1) /\ log[at] = e
        BY <2>2 DEF e, at
      <4> QED
        BY <2>2, <2>3, <3>1, <4>1
    <3>2. CASE id \in accepted[r]
      <4>1. /\ cursor[r].epoch > 0 /\ id <= cursor[r].lastTrade
            /\ \E k \in 1..(at - 1) : SentOn(k, cursor[r].epoch) /\ log[k].id = id
        BY <2>4, <3>2 DEF Stands, at
      <4>2. cursor'[r].epoch = cursor[r].epoch /\ id <= cursor'[r].lastTrade
        BY <2>2, <2>3, <3>2, <4>1
      <4> QED
        BY <2>2, <4>1, <4>2 DEF SentOn, IsTrade
    <3> QED
      BY <2>5, <2>9, <3>1, <3>2
  <2> QED
    BY <2>1, <2>6, <2>7, <2>8, <2>9 DEF Stands, SentOn, IsTrade
<1> QED
  BY <1>1, <1>2, <1>3, <1>4, <1>5, StepIsOneOf

\* Nothing is returned to a run before it subscribes.
LEMMA IdleStays == IInv /\ [Next]_vars => IdleInv'
<1> SUFFICES ASSUME IInv, [Next]_vars, NEW r \in Runs, run'[r] = "idle"
             PROVE  accepted'[r] = {}
  BY DEF IdleInv
<1>t. TypeOK /\ (run[r] = "idle" => accepted[r] = {})
  BY DEF IInv, IdleInv
<1>1. CASE Silent \/ UNCHANGED vars
  BY <1>t, <1>1 DEF Silent, MakeTrade, Connect, ConnectFails, ReadTrade, ReadRepeatedTrade,
     Disconnect, vars, runs
<1>2. CASE Publishing
  BY <1>t, <1>2, PublishingStep DEF runs
<1>3. ASSUME NEW s \in Runs,
             Subscribe(s) \/ EndLagged(s) \/ Refuse(s) \/ AcceptStatus(s) \/ AcceptTrade(s)
      PROVE  accepted'[r] = {}
  <2>1. CASE s # r
    BY <1>t, <1>3, <2>1, RunStepLeavesRuns
  <2>2. CASE s = r
    <3>1. CASE Subscribe(r)
      BY <1>t, <3>1 DEF Subscribe, TypeOK
    <3>2. CASE EndLagged(r) \/ Refuse(r)
      <4>1. Refusal(r, Upcoming(r)) # "idle"
        BY DEF Refusal
      <4> QED
        BY <1>t, <3>2, <4>1 DEF EndLagged, Refuse, End, TypeOK
    <3>3. CASE AcceptStatus(r) \/ AcceptTrade(r)
      BY <1>t, <3>3 DEF AcceptStatus, AcceptTrade, Take, Waiting, TypeOK
    <3> QED
      BY <1>3, <2>2, <3>1, <3>2, <3>3
  <2> QED
    BY <2>1, <2>2
<1> QED
  BY <1>1, <1>2, <1>3, StepIsOneOf

\* A trade is returned together with every trade since the last one returned.
LEMMA GapStays == IInv /\ TypeOK' /\ [Next]_vars => NoSilentGap'
<1> SUFFICES ASSUME IInv, TypeOK', [Next]_vars, NEW r \in Runs,
                    NEW a \in accepted'[r], NEW b \in accepted'[r],
                    NEW id \in (a + 1)..(b - 1), id > attached'[r]
             PROVE  id \in accepted'[r]
  BY DEF NoSilentGap
<1>t. TypeOK /\ LogInv /\ Len(log) \in Nat
  BY LenProperties DEF IInv, TypeOK
<1>1. CASE accepted'[r] = accepted[r] /\ attached'[r] = attached[r]
  BY <1>1 DEF IInv, NoSilentGap
<1>2. CASE Subscribe(r)
  BY <1>t, <1>2 DEF Subscribe, IInv, IdleInv
<1>3. CASE AcceptTrade(r)
  <2> DEFINE at == cursor[r].at
             e == log[at]
  <2>1. Take(r) /\ attached' = attached /\ e.kind = "trade"
        /\ accepted'[r] \in {accepted[r], accepted[r] \cup {e.id}}
    BY <1>t, <1>3 DEF AcceptTrade, Upcoming, TypeOK
  <2>2. /\ run[r] = "live" /\ at \in 1..Len(log) /\ cursor[r] \in Subscription
        /\ e.epoch > 0 /\ e.id >= cursor[r].lastTrade /\ e \in Event
        /\ cursor[r].epoch > 0 => e.epoch = cursor[r].epoch
    BY <2>1, TakenEvent
  <2>3. /\ e.id \in Nat /\ cursor[r].lastTrade \in Nat /\ accepted[r] \subseteq Nat
    BY <1>t, <2>2 DEF Event, Subscription, TypeOK
  <2>4. \A x \in accepted[r] : /\ x <= e.id
                             /\ \E k \in 1..(at - 1) : SentOn(k, e.epoch) /\ log[k].id = x
    <3>1. ASSUME NEW x \in accepted[r]
          PROVE  /\ cursor[r].epoch > 0 /\ x <= cursor[r].lastTrade
                 /\ \E k \in 1..(at - 1) : SentOn(k, cursor[r].epoch) /\ log[k].id = x
      BY <2>2, <3>1 DEF IInv, CursorInv
    <3>2. \A x \in accepted[r] : x \in Nat
      BY <2>3
    <3>3. \A x \in accepted[r] : x <= cursor[r].lastTrade => x <= e.id
      BY <2>2, <2>3, <3>2
    <3> QED
      BY <2>2, <3>1, <3>3
  <2>5. a \in accepted[r] /\ a \in Nat
    BY <2>1, <2>3, <2>4
  <2>6. CASE b \in accepted[r]
    BY <2>1, <2>5, <2>6 DEF IInv, NoSilentGap
  <2>7. CASE b = e.id
    <3>1. PICK k \in 1..(at - 1) : SentOn(k, e.epoch) /\ log[k].id = a
      BY <2>4, <2>5
    <3>2. k \in 1..Len(log) /\ k < at
      BY <1>t, <2>2
    <3>3. PICK m \in 1..(at - 1) : IsTrade(m) /\ log[m].id = id
      BY <2>1, <2>2, <2>7, <3>1, <3>2 DEF IInv, NoHoleInv, IsTrade
    <3>4. id \in accepted[r]
      BY <2>1, <2>2, <3>3 DEF IInv, CursorInv
    <3> QED
      BY <2>1, <3>4
  <2> QED
    BY <2>1, <2>6, <2>7
<1>4. CASE Silent \/ UNCHANGED vars
  BY <1>1, <1>4 DEF Silent, MakeTrade, Connect, ConnectFails, ReadTrade, ReadRepeatedTrade,
     Disconnect, vars, runs
<1>5. CASE Publishing
  BY <1>t, <1>1, <1>5, PublishingStep DEF runs
<1>6. ASSUME NEW s \in Runs, s # r,
             Subscribe(s) \/ EndLagged(s) \/ Refuse(s) \/ AcceptStatus(s) \/ AcceptTrade(s)
      PROVE  id \in accepted'[r]
  BY <1>t, <1>1, <1>6, RunStepLeavesRuns
<1>7. CASE EndLagged(r) \/ Refuse(r) \/ AcceptStatus(r)
  BY <1>1, <1>7 DEF EndLagged, Refuse, End, AcceptStatus
<1> QED
  BY <1>2, <1>3, <1>4, <1>5, <1>6, <1>7, StepIsOneOf

\* recv finds the event it reads next in sequence: what it missed is lag.
LEMMA LagStays == IInv /\ TypeOK' /\ [Next]_vars => LagIsReportedAsLag'
<1> SUFFICES ASSUME IInv, TypeOK', [Next]_vars, NEW r \in Runs, run'[r] = "sequence_gap"
             PROVE  FALSE
  BY DEF LagIsReportedAsLag
<1>t. TypeOK /\ run[r] # "sequence_gap"
  BY DEF IInv, LagIsReportedAsLag
<1>1. CASE Silent \/ UNCHANGED vars
  BY <1>t, <1>1 DEF Silent, MakeTrade, Connect, ConnectFails, ReadTrade, ReadRepeatedTrade,
     Disconnect, vars, runs
<1>2. CASE Publishing
  BY <1>t, <1>2, PublishingStep DEF runs
<1>3. ASSUME NEW s \in Runs, s # r,
             Subscribe(s) \/ EndLagged(s) \/ Refuse(s) \/ AcceptStatus(s) \/ AcceptTrade(s)
      PROVE  FALSE
  BY <1>t, <1>3, RunStepLeavesRuns
<1>4. CASE Subscribe(r) \/ EndLagged(r) \/ AcceptStatus(r) \/ AcceptTrade(r)
  BY <1>t, <1>4 DEF Subscribe, EndLagged, End, AcceptStatus, AcceptTrade, TypeOK
<1>5. CASE Refuse(r)
  <2>1. Waiting(r) /\ Refusal(r, Upcoming(r)) = "sequence_gap"
    BY <1>t, <1>5 DEF Refuse, End, TypeOK
  <2>2. run[r] = "live" /\ cursor[r].at \in 1..Len(log)
    BY <1>t, <2>1, AdvancedTyped DEF Waiting, IInv, CursorInv
  <2>3. cursor[r].lastSequence # 0 => cursor[r].lastSequence + 1 = log[cursor[r].at].sequence
    BY <2>2 DEF IInv, CursorInv, LogInv
  <2>4. cursor[r].lastSequence # 0 /\ Upcoming(r).sequence # cursor[r].lastSequence + 1
    BY <2>1 DEF Refusal
  <2> QED
    BY <2>3, <2>4 DEF Upcoming
<1> QED
  BY <1>1, <1>2, <1>3, <1>4, <1>5, StepIsOneOf

\* Every step of the feed and its runs keeps the invariant.
LEMMA Inductive == IInv /\ [Next]_vars => IInv'
BY TypeStays, LogStays, DeliveryStays, NoHoleStays, CursorStays, IdleStays, GapStays, LagStays
   DEF IInv

\* The invariant of the feed and its subscriptions (src/market/service.rs).
THEOREM FeedIsInvariant == Spec => []IInv
<1> QED
  BY InitInv, Inductive, PTL DEF Spec

\* Every variable of the feed, its channel and its subscriptions keeps its type, and no
\* reader outlives its connection.
THEOREM FeedTypeCorrect == Spec => []TypeOK
<1>1. IInv => TypeOK
  BY DEF IInv
<1> QED
  BY <1>1, FeedIsInvariant, PTL

\* However a subscription lags, is disconnected or is handed a trade twice, what recv
\* returned to a run has no hole (RunMarketSubscription::recv).
THEOREM FeedNoSilentGap == Spec => []NoSilentGap
<1>1. IInv => NoSilentGap
  BY DEF IInv
<1> QED
  BY <1>1, FeedIsInvariant, PTL

\* publish_realtime numbers and sends under one lock, so the sequence check of recv
\* never fires: a run that missed events is told that it lagged.
THEOREM FeedLagIsReportedAsLag == Spec => []LagIsReportedAsLag
<1>1. IInv => LagIsReportedAsLag
  BY DEF IInv
<1> QED
  BY <1>1, FeedIsInvariant, PTL
=============================================================================
