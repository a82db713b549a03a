----------------------------- MODULE RunStream -----------------------------
(***************************************************************************)
(* The live view of one run: the snapshot its actor publishes (src/paper.rs*)
(* update_snapshot), the WebSocket tasks that follow it                    *)
(* (src/api/trading.rs stream_runtime) and the console that shows it       *)
(* (src/web/trading.js).                                                   *)
(*                                                                         *)
(* A snapshot is its stream_revision and whether the run is active in it;  *)
(* what else it holds is a matter of PaperRun and RunRecords.  The actor   *)
(* publishes whenever it likes.  The process may crash once: the handle    *)
(* and the sessions are lost, the rows remain and tell of a run that ended.*)
(*                                                                         *)
(* The console keeps one variable for its connection and opens a new one   *)
(* before the old one's close event has come, so a page may have several   *)
(* connections to the run at once.  Of other runs' connections only their  *)
(* late close events are followed: they clear the same variable.           *)
(* The start button, which does with its answer what selecting a bot does  *)
(* with the snapshot it fetches, and other runs' messages are left out.    *)
(***************************************************************************)
EXTENDS Integers, Sequences

CONSTANTS
  AuthEnabled,   \* requests need a session
  Capacity,      \* broadcast::channel(64)
  SocketBuffer,  \* messages between the server's send and the client's handler
  MaxSockets,    \* bound on connections of the page that have not ended yet
  MaxRevision,   \* bound on snapshots published
  MaxFaults,     \* bound on connections lost, sessions ended, and other runs' late closes
  MaxClicks      \* bound on clicks on a bot's card, its stop button and New Bot

Sockets == 1..MaxSockets
NoSocket == 0

ASSUME StreamAssumption ==
  /\ AuthEnabled \in BOOLEAN
  /\ Capacity \in Nat \ {0}
  /\ SocketBuffer \in Nat \ {0}
  /\ MaxSockets \in Nat \ {0}
  /\ MaxRevision \in Nat \ {0}
  /\ MaxFaults \in Nat
  /\ MaxClicks \in Nat

VARIABLES
  revision,  \* stream_revision of the snapshot under the handle's lock
  sent,      \* revision of the last snapshot sent on the broadcast channel
  endedAt,   \* revision of the snapshot in which the run has ended, 0 before
  handle,    \* PaperManager has a runtime handle for the run
  session,   \* the browser's requests pass require_auth
  sockets,   \* connection -> where it is, its receiver's next broadcast message, its
             \* last_revision and the messages on their way to the client
  stream,    \* the console's variable of that name
  timer,     \* reconnectTimer is running for the run
  selected,  \* the page: the run's "bot", an "other" one, or the "draft" of a new one
  loading,   \* selectBot's request for the snapshot
  fetched,   \* its answer
  shown,     \* the run is shown active, and the revision shown last
  listed,    \* the bot's summary says the run is active
  stopping,  \* the stop button's request, and whether its answer says the run is active
  forgot,    \* history: a live connection is, or was since the page was last without
             \* one, known to no variable
  faults,    \* faults so far
  clicks     \* clicks so far

publisherVars == <<revision, sent, endedAt, handle>>
socketVars == <<sockets, stream, timer, forgot>>
viewVars == <<selected, loading, fetched, shown, listed, stopping, clicks>>
streamVars == <<publisherVars, session, socketVars, viewVars, faults>>

\* A message: Snapshot and Update are treated alike by the client.
Message(r) == [revision |-> r, active |-> r < endedAt \/ endedAt = 0]
Persisted == [revision |-> 0, active |-> FALSE]
NoMessage == [revision |-> -1, active |-> FALSE]

Messages == [revision : -1..MaxRevision, active : BOOLEAN]

\* Between them a connection has a server's task, is drained after the task has returned
\* ("served"), or is closed and its close event has yet to come ("closing").
SocketStates ==
  {"free", "connecting", "subscribed", "streaming", "resync", "served", "closing"}
SocketRecords ==
  [at : SocketStates, next : 0..(MaxRevision + 1), last : 0..MaxRevision, wire : Seq(Messages)]
Idle(state) == [at |-> state, next |-> 0, last |-> 0, wire |-> <<>>]

Live(s) == sockets[s].at \notin {"free", "closing"}

\* Every variable in its range, and the channel never ahead of the snapshot.
StreamTypeOK ==
  /\ revision \in 1..MaxRevision
  /\ sent \in 1..revision
  /\ endedAt \in 0..revision
  /\ handle \in BOOLEAN /\ session \in BOOLEAN
  /\ sockets \in [Sockets -> SocketRecords]
  /\ \A s \in Sockets : sockets[s].last <= revision /\ Len(sockets[s].wire) <= SocketBuffer
  /\ stream \in Sockets \cup {NoSocket}
  /\ timer \in BOOLEAN /\ forgot \in BOOLEAN
  /\ faults \in 0..MaxFaults /\ clicks \in 0..MaxClicks
  /\ selected \in {"bot", "other", "draft"}
  /\ loading \in {"no", "asked", "answered"}
  /\ fetched \in Messages
  /\ shown \in [active : BOOLEAN, revision : 0..MaxRevision]
  /\ listed \in BOOLEAN /\ stopping \in {"no", "asked", "active", "over"}

-----------------------------------------------------------------------------
(* The actor and the process *)

\* Defect: the snapshot of a run that ends is written without a new revision.
NextRevisionWhileActive(final) == IF final THEN revision ELSE revision + 1

NextRevision(final) == revision + 1

Fault == faults < MaxFaults /\ faults' = faults + 1
Click == clicks < MaxClicks /\ clicks' = clicks + 1

\* update_snapshot, under the write lock: run_loop's updates, and the one that ends it.
WriteSnapshot(final) ==
  /\ handle /\ endedAt = 0
  /\ sent = revision
  /\ revision < MaxRevision
  /\ revision' = NextRevision(final)
  /\ endedAt' = IF final THEN NextRevision(final) ELSE 0
  /\ UNCHANGED <<sent, handle, session, socketVars, viewVars, faults>>

\* The lock is dropped, and then the clone goes to the channel.
SendSnapshot ==
  /\ handle
  /\ sent < revision
  /\ sent' = revision
  /\ UNCHANGED <<revision, endedAt, handle, session, socketVars, viewVars, faults>>

\* The process dies and comes back.  Startup fails the run if it had not ended; what was
\* written to a connection still arrives, then it ends.
Restart ==
  /\ handle
  /\ handle' = FALSE
  /\ session' = (session /\ ~AuthEnabled)
  /\ sockets' = [s \in Sockets |->
       IF sockets[s].at \in {"subscribed", "streaming", "resync"}
       THEN [sockets[s] EXCEPT !.at = "served"]
       ELSE IF sockets[s].at = "connecting" THEN Idle("closing") ELSE sockets[s]]
  /\ loading' = IF loading = "asked" THEN "no" ELSE loading
  /\ stopping' = IF stopping = "asked" THEN "no" ELSE stopping
  /\ UNCHANGED <<revision, sent, endedAt, stream, timer, forgot>>
  /\ UNCHANGED <<selected, fetched, shown, listed, clicks, faults>>

\* The session is twelve hours old, or its user signs out.
SessionEnds ==
  /\ AuthEnabled /\ session
  /\ session' = FALSE
  /\ Fault
  /\ UNCHANGED <<publisherVars, socketVars, viewVars>>

\* In another tab: the cookie is the browser's.
SignIn ==
  /\ ~session
  /\ session' = TRUE
  /\ UNCHANGED <<publisherVars, socketVars, viewVars, faults>>

-----------------------------------------------------------------------------
(* The WebSocket task of connection s *)

\* The answer of PaperManager::snapshot, and the first half of stream_bootstrap.
Current == IF handle THEN Message(revision) ELSE Persisted

SocketStep(s, socket) ==
  /\ sockets' = [sockets EXCEPT ![s] = socket]
  /\ UNCHANGED <<publisherVars, session, stream, timer, forgot, viewVars, faults>>

\* The upgrade: refused without a session.  run_stream and stream_bootstrap subscribe the
\* receiver before the snapshot is read.  A run with no handle has no receiver: its rows
\* are sent, and the connection closes.
Subscribe(s) ==
  /\ sockets[s].at = "connecting"
  /\ SocketStep(s,
       IF ~session THEN Idle("closing")
       ELSE IF handle
       THEN [Idle("subscribed") EXCEPT !.next = sent + 1]
       ELSE [Idle("served") EXCEPT !.wire = <<Persisted>>])

ReadBootstrap(s) ==
  /\ sockets[s].at = "subscribed"
  /\ SocketStep(s, [sockets[s] EXCEPT
       !.at = "streaming", !.last = revision, !.wire = <<Message(revision)>>])

Oldest == IF sent > Capacity THEN sent - Capacity + 1 ELSE 1
Room(s) == Len(sockets[s].wire) < SocketBuffer

\* Defect: an update is sent whatever its revision.
IsNewerOrNot(lastRevision, candidate) == TRUE

IsNewerRevision(lastRevision, candidate) == candidate > lastRevision

\* The connection's record after its task sends revision r.
Sending(s, r) == [sockets[s] EXCEPT !.last = r, !.wire = Append(@, Message(r))]

\* updates.recv() with a message of the channel: sent to the client unless the bootstrap
\* snapshot, or one read since, already told it.
ForwardUpdate(s) ==
  LET next == sockets[s].next
      newer == IsNewerRevision(sockets[s].last, next)
  IN  /\ sockets[s].at = "streaming"
      /\ next >= Oldest /\ next <= sent
      /\ newer => Room(s)
      /\ SocketStep(s,
           [IF newer THEN Sending(s, next) ELSE sockets[s] EXCEPT !.next = next + 1])

\* RecvError::Lagged: the receiver goes on from the oldest message kept, and the task asks
\* the manager for the snapshot.
Lagged(s) ==
  /\ sockets[s].at = "streaming"
  /\ sockets[s].next < Oldest
  /\ SocketStep(s, [sockets[s] EXCEPT !.at = "resync", !.next = Oldest])

Resync(s) ==
  LET newer == IsNewerRevision(sockets[s].last, revision)
  IN  /\ sockets[s].at = "resync"
      /\ newer => Room(s)
      /\ SocketStep(s,
           [IF newer THEN Sending(s, revision) ELSE sockets[s] EXCEPT !.at = "streaming"])

\* The task has returned and all it sent was received.
ServerCloses(s) ==
  /\ sockets[s].at = "served" /\ sockets[s].wire = <<>>
  /\ SocketStep(s, Idle("closing"))

\* The connection is lost in either direction, with what is on the wire.
LoseConnection(s) ==
  /\ Live(s)
  /\ Fault
  /\ sockets' = [sockets EXCEPT ![s] = Idle("closing")]
  /\ UNCHANGED <<publisherVars, session, stream, timer, forgot, viewVars>>

-----------------------------------------------------------------------------
(* The console *)

\* closeStream: no message of a closed socket is handled any more, but its close event,
\* whose handler was added with addEventListener, is still to come.
Closed(connections) ==
  IF stream = NoSocket THEN connections
  ELSE [connections EXCEPT ![stream] = Idle("closing")]
CloseStream == sockets' = Closed(sockets) /\ stream' = NoSocket

\* connectStream, while the run is shown active: in the first place that is free.
ConnectStream ==
  \E s \in Sockets :
    /\ sockets[s].at = "free" /\ \A free \in 1..(s - 1) : sockets[free].at # "free"
    /\ sockets' = [Closed(sockets) EXCEPT ![s] = Idle("connecting")]
    /\ stream' = s

\* renderNoRun.
Blank == CloseStream /\ shown' = [shown EXCEPT !.active = FALSE]

\* A page that begins anew has forgotten nothing unless a live connection is left.
BeginAnew ==
  /\ Blank
  /\ fetched' = NoMessage
  /\ forgot' = \E s \in Sockets : s # stream /\ Live(s)

\* selectBot, and its request if the summary says that a run is active.  reconnectTimer
\* goes on; an answer to an earlier request will be dropped.
SelectBot ==
  /\ Click
  /\ BeginAnew
  /\ selected' = "bot"
  /\ loading' = IF listed THEN "asked" ELSE "no"
  /\ UNCHANGED <<publisherVars, session, timer, listed, stopping, faults>>

\* selectBot for another bot, or openNewBotDraft.
LeaveRun ==
  /\ Click
  /\ BeginAnew
  /\ selected' \in {"other", "draft"}
  /\ loading' = "no"
  /\ UNCHANGED <<publisherVars, session, timer, listed, stopping, faults>>

\* The request's error leaves the page as it is.
ReadSnapshot ==
  /\ loading = "asked"
  /\ IF session
     THEN loading' = "answered" /\ fetched' = Current
     ELSE loading' = "no" /\ UNCHANGED fetched
  /\ UNCHANGED <<publisherVars, session, socketVars, faults>>
  /\ UNCHANGED <<selected, shown, listed, stopping, clicks>>

\* renderSnapshot does not compare revisions.
Render(message) ==
  /\ listed' = message.active
  /\ shown' = [active |-> message.active,
               revision |-> IF message.active THEN message.revision ELSE shown.revision]

\* The snapshot asked for: the stream is opened if the run is active in it.
RenderFetched ==
  /\ loading = "answered"
  /\ Render(fetched)
  /\ IF fetched.active THEN ConnectStream ELSE CloseStream
  /\ loading' = "no" /\ fetched' = NoMessage
  /\ UNCHANGED <<publisherVars, session, timer, forgot, selected, stopping, clicks, faults>>

\* The message handler, of whichever connection.  Another bot's page drops the snapshot; one
\* of a run that is not active leaves the page idle and closes the stream.
Receive(s) ==
  /\ sockets[s].wire # <<>>
  /\ LET message == Head(sockets[s].wire)
         received == [sockets EXCEPT ![s].wire = Tail(@)]
     IN  IF selected = "other"
         THEN sockets' = received /\ UNCHANGED <<stream, shown, listed>>
         ELSE /\ Render(message)
              /\ IF message.active
                 THEN sockets' = received /\ UNCHANGED stream
                 ELSE sockets' = Closed(received) /\ stream' = NoSocket
  /\ UNCHANGED <<publisherVars, session, timer, forgot, faults>>
  /\ UNCHANGED <<selected, loading, fetched, stopping, clicks>>

\* The close event's handler: stream is cleared, whichever connection it names by now, and
\* a reconnect is scheduled while the run is shown active.
CloseEvent(s) ==
  /\ sockets[s].at = "closing"
  /\ sockets' = [sockets EXCEPT ![s] = Idle("free")]
  /\ stream' = NoSocket
  /\ timer' = (timer \/ shown.active)
  /\ forgot' = (forgot \/ (stream \notin {NoSocket, s} /\ Live(stream)))
  /\ UNCHANGED <<publisherVars, session, viewVars, faults>>

\* The same handler, of a connection to a run that is not the one shown.
ForeignClose ==
  /\ stream # NoSocket
  /\ Fault
  /\ stream' = NoSocket
  /\ forgot' = (forgot \/ Live(stream))
  /\ UNCHANGED <<publisherVars, session, sockets, timer, viewVars>>

\* scheduleReconnect's timer looks only at whether the run is shown active.
TimerFires ==
  /\ timer
  /\ timer' = FALSE
  /\ IF shown.active THEN ConnectStream ELSE UNCHANGED <<sockets, stream>>
  /\ UNCHANGED <<publisherVars, session, forgot, viewVars, faults>>

\* The stop button of a run shown active; one answer is awaited at a time.
AskStop ==
  /\ shown.active
  /\ stopping = "no"
  /\ Click
  /\ stopping' = "asked"
  /\ UNCHANGED <<publisherVars, session, socketVars, faults>>
  /\ UNCHANGED <<selected, loading, fetched, shown, listed>>

\* The service answers after two seconds at the latest, whether the run has ended or not;
\* a run with no handle is an error unless it is recorded stopped.
ReadStopped ==
  /\ stopping = "asked"
  /\ stopping' \in
       IF ~session THEN {"no"}
       ELSE IF handle THEN {IF Current.active THEN "active" ELSE "over"}
       ELSE {"no", "over"}
  /\ UNCHANGED <<publisherVars, session, socketVars, faults>>
  /\ UNCHANGED <<selected, loading, fetched, shown, listed, clicks>>

\* The answer makes the page idle, whatever the page is by now.
StopAnswered ==
  /\ stopping \in {"active", "over"}
  /\ stopping' = "no"
  /\ Blank
  /\ listed' = (stopping = "active")
  /\ UNCHANGED <<publisherVars, session, timer, forgot, faults>>
  /\ UNCHANGED <<selected, loading, fetched, clicks>>

-----------------------------------------------------------------------------
StreamInit ==
  /\ revision = 1 /\ sent = 1
  /\ endedAt = 0
  /\ handle = TRUE /\ session = TRUE
  /\ sockets = [s \in Sockets |-> Idle("free")]
  /\ stream = NoSocket
  /\ timer = FALSE /\ forgot = FALSE
  /\ faults = 0 /\ clicks = 0
  /\ selected = "other"
  /\ loading = "no" /\ fetched = NoMessage
  /\ shown = [active |-> FALSE, revision |-> 0]
  /\ listed = TRUE /\ stopping = "no"

PublisherStep ==
  \/ \E final \in BOOLEAN : WriteSnapshot(final)
  \/ SendSnapshot
  \/ Restart
  \/ SessionEnds
  \/ SignIn
ServerStep(s) ==
  \/ Subscribe(s)
  \/ ReadBootstrap(s)
  \/ ForwardUpdate(s)
  \/ Lagged(s)
  \/ Resync(s)
  \/ ServerCloses(s)
BrowserStep(s) == Receive(s) \/ CloseEvent(s)
PageStep == ReadSnapshot \/ RenderFetched \/ ReadStopped \/ StopAnswered
UserStep == SelectBot \/ LeaveRun \/ AskStop
StreamNext ==
  \/ PublisherStep
  \/ \E s \in Sockets : ServerStep(s) \/ BrowserStep(s) \/ LoseConnection(s)
  \/ PageStep
  \/ UserStep
  \/ TimerFires
  \/ ForeignClose

-----------------------------------------------------------------------------
\* The view goes forward (api/trading.rs:573, paper.rs:606) while the page knows its live
\* connection: whatever the bootstrap snapshot, queued updates, resynchronisations, late
\* close events and reconnects bring, an active view has a revision no lower than any shown
\* before, and a run the bot's card shows over becomes active again only by a snapshot that
\* was fetched before.  After a close event has made the page forget a live connection,
\* neither holds.
ViewMovesForward ==
  ~forgot' =>
    /\ shown'.active => shown'.revision >= shown.revision
    /\ listed' => listed \/ loading = "answered" \/ stopping = "active"

\* The view catches up (paper.rs:1029, api/trading.rs:540): a console that shows the run
\* comes to show every revision, or a later one, and the end of the run, through a lagging
\* receiver, dropped and forgotten connections and a restart, unless its user leaves the
\* page.
CatchesUp(r) ==
  (shown.active /\ revision >= r) ~> (~shown.active \/ shown.revision >= r)
LearnsTheEnd == (endedAt # 0 \/ ~handle) ~> []~shown.active
=============================================================================
