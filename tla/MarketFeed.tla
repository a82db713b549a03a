----------------------------- MODULE MarketFeed -----------------------------
(***************************************************************************)
(* One MarketFeed and the Live-Paper runs subscribed to it                 *)
(* (src/market/service.rs).  The feed's task connects to Binance, reads    *)
(* trades and publishes them with statuses on a bounded broadcast channel; *)
(* each run has a cursor into that channel, RunMarketSubscription, and a   *)
(* loop that ends at the first event it cannot trust (src/paper.rs).       *)
(*                                                                         *)
(* log is the whole history of the channel; a receiver can still read its  *)
(* last Capacity events.  A trade is its id: the exchange numbers its      *)
(* trades without gaps, and sends those made while a connection is open.   *)
(* Quotes and depth are not published and are left out; candles travel     *)
(* like trades without an identity and are the status "candle" here.       *)
(***************************************************************************)
EXTENDS Integers, Sequences

CONSTANTS
  Runs,        \* run ids that may subscribe, each once
  Capacity,    \* REALTIME_EVENT_CHANNEL_CAPACITY
  MaxTape,     \* bound: trades the exchange makes
  MaxAttempts, \* bound: connection attempts
  MaxLog       \* bound: events published while the feed is live

ASSUME FeedAssumption ==
  /\ Capacity \in Nat \ {0}
  /\ MaxTape \in Nat /\ MaxAttempts \in Nat /\ MaxLog \in Nat

VARIABLES
  tape,      \* id of the exchange's last trade
  phase,     \* where MarketFeed.run is
  attempts,  \* connection attempts so far
  wire,      \* last trade the open connection handed over
  held,      \* trade a reader is applying, 0 for none
  epoch,     \* MarketDeliveryState.connection_epoch
  sequence,  \* MarketDeliveryState.sequence
  log,       \* every event sent on realtime_tx
  run,       \* run -> "idle", "live" or the reason its loop ended
  cursor,    \* run -> its RunMarketSubscription
  accepted,  \* run -> the trades its subscription returned
  attached   \* run -> the feed's last trade when it subscribed

exchange == <<tape, wire>>
delivery == <<epoch, sequence, log>>
runs == <<run, cursor, accepted, attached>>
vars == <<exchange, phase, attempts, held, delivery, runs>>

-----------------------------------------------------------------------------
Statuses == {"loading", "live", "reconnecting", "candle"}
Event == [sequence : Nat, epoch : Nat, kind : Statuses \cup {"trade"}, id : Nat]
EndReason == {"lagged", "sequence_gap", "epoch_changed", "out_of_order", "interrupted"}

\* RunMarketSubscription: the position in the channel, and its three checks, 0
\* for None.
Subscription == [at : Nat, lastSequence : Nat, epoch : Nat, lastTrade : Nat]
NewSubscription(position) ==
  [at |-> position, lastSequence |-> 0, epoch |-> 0, lastTrade |-> 0]

TypeOK ==
  /\ tape \in Nat /\ wire \in 0..tape /\ held \in 0..wire
  /\ phase \in {"loading", "connecting", "open", "live", "closed", "sleeping"}
  /\ attempts \in Nat /\ epoch \in Nat
  /\ sequence \in Nat
  /\ log \in Seq(Event)
  /\ run \in [Runs -> {"idle", "live"} \cup EndReason]
  /\ cursor \in [Runs -> Subscription]
  /\ accepted \in [Runs -> SUBSET Nat]
  /\ attached \in [Runs -> Nat]
  /\ held # 0 => phase = "live"   \* no reader outlives its connection

Init ==
  /\ tape = 0 /\ wire = 0 /\ held = 0
  /\ phase = "loading" /\ attempts = 0
  /\ epoch = 0 /\ sequence = 0 /\ log = <<>>
  /\ run = [r \in Runs |-> "idle"]
  /\ cursor = [r \in Runs |-> NewSubscription(1)]
  /\ accepted = [r \in Runs |-> {}]
  /\ attached = [r \in Runs |-> 0]

\* publish_realtime: number and send under the delivery lock.
Publish(kind, id) ==
  /\ sequence' = sequence + 1
  /\ log' = Append(log, [sequence |-> sequence', epoch |-> epoch, kind |-> kind, id |-> id])

-----------------------------------------------------------------------------
(* The exchange *)

MakeTrade ==
  /\ tape < MaxTape
  /\ tape' = tape + 1
  /\ UNCHANGED <<wire, phase, attempts, held, delivery, runs>>

-----------------------------------------------------------------------------
(* MarketFeed.run *)

StartAttempt ==
  /\ phase \in {"loading", "sleeping"}
  /\ attempts < MaxAttempts
  /\ attempts' = attempts + 1
  /\ Publish("loading", 0)
  /\ phase' = "connecting"
  /\ UNCHANGED <<exchange, held, epoch, runs>>

\* Defect: a new connection numbers its events from one again.
ConnectResetsSequence ==
  /\ phase = "connecting"
  /\ wire' = tape
  /\ epoch' = epoch + 1
  /\ sequence' = 0
  /\ phase' = "open"
  /\ UNCHANGED <<tape, attempts, held, log, runs>>

\* All streams connect, and begin_connection_epoch.
Connect ==
  /\ phase = "connecting"
  /\ wire' = tape
  /\ epoch' = epoch + 1
  /\ phase' = "open"
  /\ UNCHANGED <<tape, attempts, held, sequence, log, runs>>

ConnectFails ==
  /\ phase = "connecting"
  /\ phase' = "closed"
  /\ UNCHANGED <<exchange, attempts, held, delivery, runs>>

GoLive ==
  /\ phase = "open"
  /\ Publish("live", 0)
  /\ phase' = "live"
  /\ UNCHANGED <<exchange, attempts, held, epoch, runs>>

\* A reader takes the next message: the next trade, or a redelivered one.
\* apply_event first awaits the state lock (add_trade), then publishes.
ReadTrade ==
  /\ phase = "live" /\ held = 0
  /\ wire < tape
  /\ wire' = wire + 1
  /\ held' = wire'
  /\ UNCHANGED <<tape, phase, attempts, delivery, runs>>

ReadRepeatedTrade ==
  /\ phase = "live" /\ held = 0
  /\ \E i \in 1..Len(log) :
       log[i].kind = "trade" /\ log[i].epoch = epoch /\ held' = log[i].id
  /\ UNCHANGED <<exchange, phase, attempts, delivery, runs>>

PublishTrade ==
  /\ phase = "live" /\ held # 0
  /\ Len(log) < MaxLog
  /\ Publish("trade", held)
  /\ held' = 0
  /\ UNCHANGED <<exchange, phase, attempts, epoch, runs>>

PublishCandle ==
  /\ phase = "live" /\ held = 0
  /\ Len(log) < MaxLog
  /\ Publish("candle", 0)
  /\ UNCHANGED <<exchange, phase, attempts, held, epoch, runs>>

\* Defect: the readers of the other streams are not aborted.
DisconnectLeavesReaders ==
  /\ phase = "live"
  /\ phase' = "closed"
  /\ UNCHANGED <<exchange, attempts, held, delivery, runs>>

\* One stream ended: every reader is aborted, whatever it was applying.
Disconnect ==
  /\ phase = "live"
  /\ phase' = "closed"
  /\ held' = 0
  /\ UNCHANGED <<exchange, attempts, delivery, runs>>

AnnounceReconnect ==
  /\ phase = "closed"
  /\ Publish("reconnecting", 0)
  /\ phase' = "sleeping"
  /\ UNCHANGED <<exchange, attempts, held, epoch, runs>>

-----------------------------------------------------------------------------
(* A run's subscription *)

\* subscribe_for_run: the receiver sees what is sent from now on.
Subscribe(r) ==
  /\ run[r] = "idle"
  /\ run' = [run EXCEPT ![r] = "live"]
  /\ cursor' = [cursor EXCEPT ![r] = NewSubscription(Len(log) + 1)]
  /\ attached' = [attached EXCEPT ![r] = wire]
  /\ UNCHANGED <<exchange, phase, attempts, held, delivery, accepted>>

Unread(r) == Len(log) + 1 - cursor[r].at
Waiting(r) == run[r] = "live" /\ Unread(r) > 0
Lagged(r) == Waiting(r) /\ Unread(r) > Capacity
Upcoming(r) == log[cursor[r].at]

End(r, reason) ==
  /\ run' = [run EXCEPT ![r] = reason]
  /\ UNCHANGED <<exchange, phase, attempts, held, delivery, cursor, accepted, attached>>

\* Defect: a lagging run carries on with the oldest event still in the channel.
ResumeAfterLag(r) ==
  /\ Lagged(r)
  /\ cursor' = [cursor EXCEPT ![r].at = Len(log) + 1 - Capacity, ![r].lastSequence = 0]
  /\ UNCHANGED <<exchange, phase, attempts, held, delivery, run, accepted, attached>>

\* The channel overwrote events this run had not read.
EndLagged(r) == Lagged(r) /\ End(r, "lagged")

\* Why recv refuses event e: out of sequence, of another connection, or older
\* than the last trade.
Refusal(r, e) ==
  IF cursor[r].lastSequence # 0 /\ e.sequence # cursor[r].lastSequence + 1 THEN "sequence_gap"
  ELSE IF e.epoch > 0 /\ cursor[r].epoch > 0 /\ e.epoch # cursor[r].epoch THEN "epoch_changed"
  ELSE IF e.kind = "trade" /\ e.id < cursor[r].lastTrade THEN "out_of_order"
  ELSE "none"

Refuse(r) ==
  /\ Waiting(r) /\ ~Lagged(r)
  /\ Refusal(r, Upcoming(r)) # "none"
  /\ End(r, Refusal(r, Upcoming(r)))

\* The cursor after an event that passed the checks.
Advanced(r, e) ==
  [at |-> cursor[r].at + 1,
   lastSequence |-> e.sequence,
   epoch |-> IF e.epoch > 0 THEN e.epoch ELSE cursor[r].epoch,
   lastTrade |-> IF e.kind = "trade" THEN e.id ELSE cursor[r].lastTrade]

Take(r) ==
  /\ Waiting(r) /\ ~Lagged(r)
  /\ Refusal(r, Upcoming(r)) = "none"
  /\ cursor' = [cursor EXCEPT ![r] = Advanced(r, Upcoming(r))]

\* Defect: the run loop only shows the feed status.
AcceptAnyStatus(r) ==
  /\ Take(r)
  /\ Upcoming(r).kind # "trade"
  /\ UNCHANGED <<exchange, phase, attempts, held, delivery, run, accepted, attached>>

\* A status or candle; the run loop carries on unless the feed is reconnecting.
AcceptStatus(r) ==
  /\ Take(r)
  /\ Upcoming(r).kind # "trade"
  /\ run' = [run EXCEPT ![r] = IF Upcoming(r).kind = "reconnecting" THEN "interrupted" ELSE @]
  /\ UNCHANGED <<exchange, phase, attempts, held, delivery, accepted, attached>>

\* A trade later than the last one is returned, the same one again is skipped.
AcceptTrade(r) ==
  /\ Take(r)
  /\ Upcoming(r).kind = "trade"
  /\ accepted' = IF Upcoming(r).id = cursor[r].lastTrade THEN accepted
                 ELSE [accepted EXCEPT ![r] = @ \cup {Upcoming(r).id}]
  /\ UNCHANGED <<exchange, phase, attempts, held, delivery, run, attached>>

-----------------------------------------------------------------------------
Receive(r) == EndLagged(r) \/ Refuse(r) \/ AcceptStatus(r) \/ AcceptTrade(r)

FeedTask ==
  \/ StartAttempt \/ Connect \/ ConnectFails \/ GoLive
  \/ PublishTrade \/ AnnounceReconnect

Next ==
  \/ MakeTrade \/ FeedTask \/ Disconnect
  \/ ReadTrade \/ ReadRepeatedTrade \/ PublishCandle
  \/ \E r \in Runs : Subscribe(r) \/ Receive(r)

Spec == Init /\ [][Next]_vars

\* The executor polls every run's task, and the feed's; nothing obliges the exchange
\* to trade, to accept a connection or to keep one.
FairSpec == Spec /\ WF_vars(AnnounceReconnect) /\ \A r \in Runs : WF_vars(Receive(r))

-----------------------------------------------------------------------------
(* Properties *)

\* However a run's subscription ends, by lag, reconnect or redelivery, what it
\* returned before has no hole: every trade made between two returned trades, and
\* not already past when the run subscribed, was returned too.
NoSilentGap ==
  \A r \in Runs : \A a, b \in accepted[r] : \A i \in (a + 1)..(b - 1) :
    i > attached[r] => i \in accepted[r]

\* Numbering and sending under one lock leaves a receiver no gap to find: events a
\* run missed are always reported as lag.
LagIsReportedAsLag == \A r \in Runs : run[r] # "sequence_gap"

\* A run that was live when the connection was lost ends, whether or not the feed
\* ever connects again.
DisconnectEndsRuns ==
  \A r \in Runs : (phase = "closed" /\ run[r] = "live") ~> run[r] # "live"
=============================================================================
