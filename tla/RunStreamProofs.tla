-------------------------- MODULE RunStreamProofs ---------------------------
(***************************************************************************)
(* What a run records, and what a console is shown of it, for every        *)
(* configuration, amount, sequence of trades and minutes, and for every    *)
(* channel, socket buffer and number of connections, revisions, faults and *)
(* clicks (RunRecords, RunStream and RunPages, composed in MCRunStream;    *)
(* src/paper.rs, src/api/trading.rs, src/web/trading.js).                  *)
(***************************************************************************)
EXTENDS
  MCRunStream, RunRecordsProofs, FiniteSetTheorems, SequenceTheorems, NaturalsInduction,
  WellFoundedInduction, TLAPS

\* A wire is in the order of revisions, up to the last one its task sent.
Rising(w, last) ==
  /\ \A i \in DOMAIN w : 0 <= w[i].revision /\ w[i].revision <= last
  /\ \A i, j \in DOMAIN w : i < j => w[i].revision < w[j].revision

\* A connection carries something only between its bootstrap snapshot and its end.
InOrder(k) ==
  /\ k.at \in {"free", "connecting", "subscribed", "closing"} => k.wire = <<>>
  /\ Rising(k.wire, k.last)

\* A connection as it can be while revision r is the latest.
Fits(k, r) ==
  /\ k \in SocketRecords
  /\ k.last <= r /\ Len(k.wire) <= SocketBuffer
  /\ InOrder(k)

\* Nothing on a wire is older than revision v, but the rows of a run that is over.
NoneBefore(w, v) == \A i \in DOMAIN w : w[i] = Persisted \/ v <= w[i].revision

\* Nor is anything a connection has still to carry.
NotBefore(k, v) ==
  /\ k.at \in {"streaming", "resync"} => v <= k.last
  /\ NoneBefore(k.wire, v)

SocketInv == \A s \in Sockets : InOrder(sockets[s])

\* What the page shows, or was sent, the actor has published.
ViewInv ==
  /\ shown.revision <= revision /\ fetched.revision <= revision
  /\ loading = "answered" => fetched.revision >= 0
  /\ shown.active => listed

\* While the page has forgotten nothing, the connection it knows is the only live one, none
\* is live while a snapshot is asked for or the run is listed as over, and nothing older
\* than the view is on its way to it.
KnownInv ==
  ~forgot =>
    /\ \A s \in Sockets : Live(s) => s = stream /\ listed /\ loading = "no"
    /\ loading # "no" => ~shown.active
    /\ \A s \in Sockets : NotBefore(sockets[s], shown.revision)
    /\ loading = "answered" => fetched = Persisted \/ shown.revision <= fetched.revision

StreamInv == StreamTypeOK /\ SocketInv /\ ViewInv /\ KnownInv

-----------------------------------------------------------------------------
\* A wire of messages stays one when a message joins it or the first one leaves.
LEMMA WireFacts ==
  ASSUME NEW w, w \in Seq(Messages)
  PROVE  /\ Len(w) \in Nat /\ DOMAIN w = 1..Len(w)
         /\ \A m \in Messages :
              /\ Append(w, m) \in Seq(Messages) /\ Len(Append(w, m)) = Len(w) + 1
              /\ Append(w, m)[Len(w) + 1] = m
              /\ \A i \in 1..Len(w) : Append(w, m)[i] = w[i]
         /\ w # <<>> =>
              /\ Head(w) = w[1] /\ 1 \in DOMAIN w
              /\ Tail(w) \in Seq(Messages) /\ Len(Tail(w)) = Len(w) - 1
              /\ \A i \in 1..Len(Tail(w)) : i + 1 \in 1..Len(w) /\ Tail(w)[i] = w[i + 1]
<1>1. Len(w) \in Nat /\ DOMAIN w = 1..Len(w)
  BY LenProperties
<1>2. \A m \in Messages :
        /\ Append(w, m) \in Seq(Messages) /\ Len(Append(w, m)) = Len(w) + 1
        /\ Append(w, m)[Len(w) + 1] = m
        /\ \A i \in 1..Len(w) : Append(w, m)[i] = w[i]
  BY AppendProperties
<1>3. ASSUME w # <<>>
      PROVE  /\ Head(w) = w[1] /\ 1 \in DOMAIN w
             /\ Tail(w) \in Seq(Messages) /\ Len(Tail(w)) = Len(w) - 1
             /\ \A i \in 1..Len(Tail(w)) : i + 1 \in 1..Len(w) /\ Tail(w)[i] = w[i + 1]
  BY <1>1, <1>3, HeadTailProperties, EmptySeq
<1> QED
  BY <1>1, <1>2, <1>3

\* Messages made of a revision are messages.
LEMMA MessageFacts ==
  ASSUME StreamTypeOK
  PROVE  /\ \A r \in 0..revision : Message(r) \in Messages /\ Message(r).revision = r
         /\ Persisted \in Messages /\ ~Persisted.active /\ Persisted.revision = 0
         /\ NoMessage \in Messages /\ NoMessage.revision = -1
         /\ Current \in Messages
         /\ Current = Persisted \/ Current.revision = revision
<1> USE StreamAssumption DEF StreamTypeOK, Messages, Message, Persisted, NoMessage
<1>1. \A r \in 0..revision : Message(r) \in Messages /\ Message(r).revision = r
  OBVIOUS
<1>2. /\ Persisted \in Messages /\ ~Persisted.active /\ Persisted.revision = 0
      /\ NoMessage \in Messages /\ NoMessage.revision = -1
  OBVIOUS
<1> QED
  BY <1>1, <1>2 DEF Current

\* A connection without a wire fits any revision, and is behind no view.
LEMMA IdleFacts ==
  ASSUME NEW state \in {"free", "connecting", "subscribed", "closing"}, NEW r \in Nat, NEW v
  PROVE  Fits(Idle(state), r) /\ NotBefore(Idle(state), v) /\ Idle(state).at = state
<1>1. <<>> \in Seq(Messages) /\ Len(<<>>) = 0 /\ DOMAIN <<>> = {}
  BY EmptySeq
<1> QED
  BY <1>1, StreamAssumption
  DEF Idle, Fits, InOrder, Rising, NotBefore, NoneBefore, SocketRecords, SocketStates

\* The connections' part of the invariant, connection by connection.
LEMMA SocketsFit ==
  ASSUME StreamInv
  PROVE  \A s \in Sockets : Fits(sockets[s], revision)
BY DEF StreamInv, StreamTypeOK, SocketInv, Fits

\* closeStream: a connection stays as it is, or is closed.
LEMMA ClosedFacts ==
  ASSUME NEW c \in [Sockets -> SocketRecords], stream \in Sockets \cup {NoSocket}
  PROVE  /\ Closed(c) \in [Sockets -> SocketRecords]
         /\ \A s \in Sockets : Closed(c)[s] = IF s = stream THEN Idle("closing") ELSE c[s]
<1>1. Idle("closing") \in SocketRecords
  BY IdleFacts, 0 \in Nat DEF Fits
<1>2. NoSocket \notin Sockets
  BY DEF NoSocket, Sockets
<1> QED
  BY <1>1, <1>2 DEF Closed

\* A step of the page or of connections, the actor's snapshot being what it was.
LEMMA TypesStay ==
  ASSUME StreamInv, UNCHANGED publisherVars,
         sockets' \in [Sockets -> SocketRecords],
         \A s \in Sockets : Fits(sockets'[s], revision),
         session' \in BOOLEAN, stream' \in Sockets \cup {NoSocket},
         timer' \in BOOLEAN, forgot' \in BOOLEAN,
         faults' \in 0..MaxFaults, clicks' \in 0..MaxClicks,
         selected' \in {"bot", "other", "draft"}, loading' \in {"no", "asked", "answered"},
         fetched' \in Messages,
         shown' \in [active : BOOLEAN, revision : 0..MaxRevision],
         listed' \in BOOLEAN, stopping' \in {"no", "asked", "active", "over"}
  PROVE  StreamTypeOK' /\ SocketInv'
<1>1. /\ SocketRecords' = SocketRecords /\ Sockets' = Sockets
      /\ Messages' = Messages
  BY DEF SocketRecords, Sockets, Messages, SocketStates
<1>2. StreamTypeOK'
  BY <1>1 DEF StreamInv, StreamTypeOK, publisherVars, Fits
<1>3. SocketInv'
  BY <1>1 DEF SocketInv, Fits
<1> QED
  BY <1>2, <1>3

\* One connection becomes another that fits, is not behind the view, and is live only if it
\* was; the page does not change.
LEMMA SocketStays ==
  ASSUME StreamInv, NEW s \in Sockets, NEW k, Fits(k, revision),
         ~forgot => NotBefore(k, shown.revision),
         k.at \notin {"free", "closing"} => Live(s),
         sockets' = [sockets EXCEPT ![s] = k],
         UNCHANGED <<publisherVars, session, stream, timer, forgot, viewVars>>,
         faults' \in 0..MaxFaults
  PROVE  StreamInv'
<1>1. /\ sockets' \in [Sockets -> SocketRecords]
      /\ \A t \in Sockets : sockets'[t] = IF t = s THEN k ELSE sockets[t]
  BY DEF StreamInv, StreamTypeOK, Fits
<1>2. \A t \in Sockets : Fits(sockets'[t], revision)
  BY <1>1, SocketsFit
<1>3. StreamTypeOK' /\ SocketInv'
  BY <1>1, <1>2, TypesStay DEF StreamInv, StreamTypeOK, viewVars
<1>4. ViewInv'
  BY DEF StreamInv, ViewInv, viewVars, publisherVars
<1>5. KnownInv'
  <2>1. Persisted' = Persisted /\ Sockets' = Sockets
    BY DEF Persisted, Sockets
  <2>2. \A t \in Sockets : Live(t)' => Live(t)
    BY <1>1 DEF Live
  <2>3. ~forgot => \A t \in Sockets : NotBefore(sockets'[t], shown.revision)
    BY <1>1 DEF StreamInv, KnownInv
  <2> QED
    BY <2>1, <2>2, <2>3 DEF StreamInv, KnownInv, viewVars
<1> QED
  BY <1>3, <1>4, <1>5 DEF StreamInv

\* A wire in the order of revisions stays so when a message newer than all of it joins.
LEMMA SentInOrder ==
  ASSUME NEW w \in Seq(Messages), NEW last \in Int, Rising(w, last),
         NEW m \in Messages, 0 <= m.revision, last < m.revision
  PROVE  Rising(Append(w, m), m.revision)
<1> DEFINE l == Len(w)
           x == Append(w, m)
<1>1. l \in Nat /\ DOMAIN w = 1..l
  BY WireFacts
<1>2. /\ x \in Seq(Messages) /\ Len(x) = l + 1 /\ x[l + 1] = m
      /\ \A i \in 1..l : x[i] = w[i]
  BY WireFacts
<1>3. DOMAIN x = 1..(l + 1)
  BY <1>2, WireFacts
<1>4. \A message \in Messages : message.revision \in Int
  BY DEF Messages
<1>5. \A i \in 1..l : w[i] \in Messages
  BY <1>1
<1> HIDE DEF l, x
<1>6. \A i \in DOMAIN x : i = l + 1 \/ i \in 1..l
  BY <1>1, <1>3
<1>7. \A i \in 1..l : x[i].revision \in Int /\ 0 <= x[i].revision /\ x[i].revision < m.revision
  BY <1>1, <1>2, <1>4, <1>5 DEF Rising
<1>8. \A i \in DOMAIN x : 0 <= x[i].revision /\ x[i].revision <= m.revision
  BY <1>2, <1>4, <1>6, <1>7
<1>9. ASSUME NEW i \in DOMAIN x, NEW j \in DOMAIN x, i < j
      PROVE  x[i].revision < x[j].revision
  <2>1. i \in 1..l
    BY <1>1, <1>3, <1>9
  <2>2. CASE j \in 1..l
    BY <1>1, <1>2, <1>9, <2>1, <2>2 DEF Rising
  <2>3. CASE j = l + 1
    BY <1>2, <1>7, <2>1, <2>3
  <2> QED
    BY <1>6, <2>2, <2>3
<1> QED
  BY <1>8, <1>9 DEF Rising, x

\* Nor does a message that is not older than a view make anything older on the wire.
LEMMA SentNotBefore ==
  ASSUME NEW w \in Seq(Messages), NEW m \in Messages,
         NEW v, v <= m.revision, NoneBefore(w, v)
  PROVE  NoneBefore(Append(w, m), v)
<1> DEFINE l == Len(w)
           x == Append(w, m)
<1>1. l \in Nat /\ DOMAIN w = 1..l
  BY WireFacts
<1>2. x \in Seq(Messages) /\ Len(x) = l + 1 /\ x[l + 1] = m /\ \A i \in 1..l : x[i] = w[i]
  BY WireFacts
<1>3. DOMAIN x = 1..(l + 1)
  BY <1>2, WireFacts
<1> HIDE DEF l, x
<1>4. \A i \in DOMAIN x : i = l + 1 \/ i \in 1..l
  BY <1>1, <1>3
<1>5. NoneBefore(x, v)
  BY <1>1, <1>2, <1>4 DEF NoneBefore
<1> QED
  BY <1>5 DEF x

\* A connection whose task sends a newer message still fits, and is behind no view it was
\* not behind before.
LEMMA SentFits ==
  ASSUME NEW r \in Nat, NEW v \in Int, NEW k, Fits(k, r),
         k.at \in {"streaming", "resync"}, Len(k.wire) < SocketBuffer,
         NEW n \in 0..r, k.last < n, NEW m \in Messages, m.revision = n,
         NEW socket \in SocketRecords, socket.at \in {"streaming", "resync"},
         socket.last = n, socket.wire = Append(k.wire, m)
  PROVE  Fits(socket, r) /\ (NotBefore(k, v) => NotBefore(socket, v))
<1>1. k.wire \in Seq(Messages) /\ k.last \in Int /\ Rising(k.wire, k.last)
  BY DEF Fits, InOrder, SocketRecords
<1>2. Len(k.wire) \in Nat /\ Len(socket.wire) = Len(k.wire) + 1
  BY <1>1, WireFacts
<1>3. Rising(Append(k.wire, m), m.revision)
  BY <1>1, SentInOrder
<1>4. Fits(socket, r)
  BY <1>2, <1>3, StreamAssumption DEF Fits, InOrder
<1>5. ASSUME NotBefore(k, v) PROVE NotBefore(socket, v)
  <2>1. v <= n /\ NoneBefore(k.wire, v)
    BY <1>1, <1>5 DEF NotBefore
  <2>2. NoneBefore(Append(k.wire, m), v)
    BY <1>1, <2>1, SentNotBefore
  <2> QED
    BY <2>1, <2>2 DEF NotBefore
<1> QED
  BY <1>4, <1>5

\* So does one whose wire and last revision stay.
LEMMA KeptFits ==
  ASSUME NEW r, NEW v, NEW k, Fits(k, r), k.at \in {"streaming", "resync"},
         NEW socket \in SocketRecords, socket.at \in {"streaming", "resync"},
         socket.last = k.last, socket.wire = k.wire
  PROVE  Fits(socket, r) /\ (NotBefore(k, v) => NotBefore(socket, v))
BY DEF Fits, InOrder, Rising, NotBefore, NoneBefore

\* One whose wire holds one message, the last its task sent.
LEMMA SingleFits ==
  ASSUME NEW r \in Nat, NEW n \in 0..r, NEW m \in Messages, m.revision = n,
         NEW v, m = Persisted \/ v <= n,
         NEW socket \in SocketRecords, socket.last = n, socket.wire = <<m>>,
         socket.at = "served" \/ (socket.at = "streaming" /\ v <= n)
  PROVE  Fits(socket, r) /\ NotBefore(socket, v)
<1>1. /\ <<m>> \in Seq(Messages) /\ Len(<<m>>) = 1
      /\ DOMAIN <<m>> = {1} /\ <<m>>[1] = m
  OBVIOUS
<1> QED
  BY <1>1, StreamAssumption DEF Fits, InOrder, Rising, NotBefore, NoneBefore

\* What a task knows of its connection.
LEMMA SocketFacts ==
  ASSUME StreamInv, NEW s \in Sockets
  PROVE  /\ Fits(sockets[s], revision)
         /\ ~forgot => NotBefore(sockets[s], shown.revision)
         /\ sockets[s] \in SocketRecords
         /\ sockets[s].last \in Nat /\ sockets[s].next \in 0..(MaxRevision + 1)
         /\ sockets[s].wire \in Seq(Messages)
         /\ revision \in Nat /\ revision \in 1..MaxRevision /\ sent \in 1..revision
         /\ shown.revision \in Int /\ shown.revision <= revision
<1>1. sockets[s] \in SocketRecords
  BY DEF StreamInv, StreamTypeOK
<1> QED
  BY <1>1, SocketsFit, StreamAssumption
  DEF StreamInv, StreamTypeOK, KnownInv, ViewInv, SocketRecords

\* A task's step replaces its connection by one that fits.
LEMMA StepStays ==
  ASSUME StreamInv, NEW s \in Sockets, NEW socket, SocketStep(s, socket), Live(s),
         Fits(socket, revision), ~forgot => NotBefore(socket, shown.revision)
  PROVE  StreamInv'
<1>1. faults' \in 0..MaxFaults
  BY DEF SocketStep, StreamInv, StreamTypeOK
<1> QED
  BY <1>1, SocketStays DEF SocketStep

\* The upgrade.
LEMMA SubscribeStays ==
  ASSUME StreamInv, NEW s \in Sockets, Subscribe(s)
  PROVE  StreamInv'
<1>1. sockets[s].at = "connecting" /\ Live(s)
  BY DEF Subscribe, Live
<1>2. /\ revision \in Nat /\ shown.revision \in Int
      /\ revision \in 1..MaxRevision /\ sent \in 1..revision
  BY SocketFacts
<1>3. CASE ~session
  <2>1. SocketStep(s, Idle("closing"))
    BY <1>3 DEF Subscribe
  <2>2. Fits(Idle("closing"), revision) /\ NotBefore(Idle("closing"), shown.revision)
    BY <1>2, IdleFacts
  <2> QED
    BY <1>1, <2>1, <2>2, StepStays
<1>4. CASE session /\ handle
  <2> DEFINE socket == [Idle("subscribed") EXCEPT !.next = sent + 1]
  <2>1. SocketStep(s, socket)
    BY <1>4 DEF Subscribe
  <2>2. sent + 1 \in 0..(MaxRevision + 1)
    BY <1>2, StreamAssumption
  <2>3. <<>> \in Seq(Messages) /\ Len(<<>>) = 0 /\ DOMAIN <<>> = {}
    BY EmptySeq
  <2>4. /\ socket \in SocketRecords
        /\ socket.at = "subscribed" /\ socket.last = 0 /\ socket.wire = <<>>
    <3> DEFINE idle == Idle("subscribed")
               next == sent + 1
    <3>1. idle \in SocketRecords /\ idle.at = "subscribed" /\ idle.last = 0 /\ idle.wire = <<>>
      BY <2>3, StreamAssumption DEF Idle, SocketRecords, SocketStates
    <3>2. next \in 0..(MaxRevision + 1)
      BY <2>2
    <3> HIDE DEF idle, next
    <3>3. socket = [idle EXCEPT !.next = next]
      BY DEF idle, next
    <3> QED
      BY <3>1, <3>2, <3>3 DEF SocketRecords
  <2> HIDE DEF socket
  <2>5. Fits(socket, revision) /\ NotBefore(socket, shown.revision)
    BY <1>2, <2>3, <2>4, StreamAssumption DEF Fits, InOrder, Rising, NotBefore, NoneBefore
  <2> QED
    BY <1>1, <2>1, <2>5, StepStays
<1>5. CASE session /\ ~handle
  <2> DEFINE socket == [Idle("served") EXCEPT !.wire = <<Persisted>>]
  <2>1. SocketStep(s, socket)
    BY <1>5 DEF Subscribe
  <2>2. Persisted \in Messages /\ Persisted.revision = 0
    BY MessageFacts DEF StreamInv
  <2>3. /\ socket.at = "served" /\ socket.wire = <<Persisted>> /\ socket.last = 0
        /\ socket \in SocketRecords
    <3> DEFINE idle == Idle("served")
               wire == <<Persisted>>
    <3>1. idle \in SocketRecords /\ idle.at = "served" /\ idle.last = 0
      BY EmptySeq, StreamAssumption DEF Idle, SocketRecords, SocketStates
    <3>2. wire \in Seq(Messages)
      BY <2>2
    <3> HIDE DEF idle, wire
    <3>3. socket = [idle EXCEPT !.wire = wire]
      BY DEF idle, wire
    <3>4. socket.at = "served" /\ socket.wire = wire /\ socket.last = 0
          /\ socket \in SocketRecords
      BY <3>1, <3>2, <3>3 DEF SocketRecords
    <3> QED
      BY <3>4 DEF wire
  <2> HIDE DEF socket
  <2>4. Fits(socket, revision) /\ NotBefore(socket, shown.revision)
    BY <1>2, <2>2, <2>3, SingleFits, 0 \in 0..revision
  <2> QED
    BY <1>1, <2>1, <2>4, StepStays
<1> QED
  BY <1>3, <1>4, <1>5

\* The bootstrap snapshot.
LEMMA BootstrapStays ==
  ASSUME StreamInv, NEW s \in Sockets, ReadBootstrap(s)
  PROVE  StreamInv'
<1> DEFINE m == Message(revision)
           socket == [sockets[s] EXCEPT !.at = "streaming", !.last = revision, !.wire = <<m>>]
<1>1. SocketStep(s, socket) /\ Live(s)
  BY DEF ReadBootstrap, Live
<1>2. /\ revision \in 1..MaxRevision /\ revision \in Nat /\ shown.revision \in Int
      /\ shown.revision <= revision /\ sockets[s] \in SocketRecords
  BY SocketFacts
<1>3. m \in Messages /\ m.revision = revision
  BY <1>2, MessageFacts DEF StreamInv
<1> HIDE DEF m
<1>4. /\ socket.at = "streaming" /\ socket.wire = <<m>>
      /\ socket.last = revision /\ socket \in SocketRecords
  <2> DEFINE wire == <<m>>
  <2>1. wire \in Seq(Messages)
    BY <1>3
  <2>2. socket = [sockets[s] EXCEPT !.at = "streaming", !.last = revision, !.wire = wire]
    BY DEF wire
  <2> HIDE DEF wire, socket
  <2>3. revision \in 0..MaxRevision
    BY <1>2
  <2>4. socket.at = "streaming" /\ socket.wire = wire /\ socket.last = revision
        /\ socket \in SocketRecords
    BY <1>2, <2>1, <2>2, <2>3 DEF SocketRecords, SocketStates
  <2> QED
    BY <2>4 DEF wire
<1> HIDE DEF socket
<1>5. Fits(socket, revision) /\ NotBefore(socket, shown.revision)
  BY <1>2, <1>3, <1>4, SingleFits, revision \in 0..revision
<1> QED
  BY <1>1, <1>5, StepStays

\* A message of the channel.
LEMMA ForwardStays ==
  ASSUME StreamInv, NEW s \in Sockets, ForwardUpdate(s)
  PROVE  StreamInv'
<1> DEFINE n == sockets[s].next
           m == Message(n)
<1>1. sockets[s].at = "streaming" /\ Live(s) /\ n <= sent
  BY DEF ForwardUpdate, Live
<1>2. /\ Fits(sockets[s], revision) /\ (~forgot => NotBefore(sockets[s], shown.revision))
      /\ sockets[s] \in SocketRecords /\ sockets[s].last \in Nat
      /\ n \in 0..(MaxRevision + 1) /\ sockets[s].wire \in Seq(Messages)
      /\ revision \in Nat /\ shown.revision \in Int
      /\ revision \in 1..MaxRevision /\ sent \in 1..revision
  BY SocketFacts
<1>3. n \in 0..revision /\ n + 1 \in 0..(MaxRevision + 1) /\ n \in 0..MaxRevision
  BY <1>1, <1>2, StreamAssumption
<1>4. m \in Messages /\ m.revision = n
  BY <1>3, MessageFacts DEF StreamInv
<1>5. CASE IsNewerRevision(sockets[s].last, n)
  <2> DEFINE socket == [Sending(s, n) EXCEPT !.next = n + 1]
  <2>1. SocketStep(s, socket) /\ Len(sockets[s].wire) < SocketBuffer /\ sockets[s].last < n
    BY <1>2, <1>3, <1>5 DEF ForwardUpdate, IsNewerRevision, Room
  <2>2. Append(sockets[s].wire, m) \in Seq(Messages)
    BY <1>2, <1>4, WireFacts
  <2>3. /\ socket.at = "streaming" /\ socket.wire = Append(sockets[s].wire, m)
        /\ socket.last = n /\ socket \in SocketRecords
    BY <1>1, <1>2, <1>3, <2>2 DEF Sending, SocketRecords, SocketStates
  <2> HIDE DEF socket, n, m
  <2>4. Fits(socket, revision) /\ (~forgot => NotBefore(socket, shown.revision))
    BY <1>1, <1>2, <1>3, <1>4, <2>1, <2>3, SentFits
  <2> QED
    BY <1>1, <2>1, <2>4, StepStays
<1>6. CASE ~IsNewerRevision(sockets[s].last, n)
  <2> DEFINE socket == [sockets[s] EXCEPT !.next = n + 1]
  <2>1. SocketStep(s, socket)
    BY <1>6 DEF ForwardUpdate
  <2>2. /\ socket.at = "streaming" /\ socket.wire = sockets[s].wire
        /\ socket.last = sockets[s].last /\ socket \in SocketRecords
    BY <1>1, <1>2, <1>3 DEF SocketRecords, SocketStates
  <2> HIDE DEF socket
  <2>3. Fits(socket, revision) /\ (~forgot => NotBefore(socket, shown.revision))
    BY <1>1, <1>2, <2>2, KeptFits
  <2> QED
    BY <1>1, <2>1, <2>3, StepStays
<1> QED
  BY <1>5, <1>6

\* A receiver that has missed messages.
LEMMA LaggedStays ==
  ASSUME StreamInv, NEW s \in Sockets, Lagged(s)
  PROVE  StreamInv'
<1> DEFINE socket == [sockets[s] EXCEPT !.at = "resync", !.next = Oldest]
<1>1. SocketStep(s, socket) /\ sockets[s].at = "streaming" /\ Live(s)
  BY DEF Lagged, Live
<1>2. /\ Fits(sockets[s], revision) /\ (~forgot => NotBefore(sockets[s], shown.revision))
      /\ sockets[s] \in SocketRecords
      /\ revision \in 1..MaxRevision /\ sent \in 1..revision
  BY SocketFacts
<1>3. Oldest \in 0..(MaxRevision + 1)
  BY <1>2, StreamAssumption DEF Oldest
<1>4. /\ socket.at = "resync" /\ socket.wire = sockets[s].wire
      /\ socket.last = sockets[s].last /\ socket \in SocketRecords
  BY <1>2, <1>3 DEF SocketRecords, SocketStates
<1> HIDE DEF socket
<1>5. Fits(socket, revision) /\ (~forgot => NotBefore(socket, shown.revision))
  BY <1>1, <1>2, <1>4, KeptFits
<1> QED
  BY <1>1, <1>5, StepStays

\* The snapshot read after that.
LEMMA ResyncStays ==
  ASSUME StreamInv, NEW s \in Sockets, Resync(s)
  PROVE  StreamInv'
<1> DEFINE m == Message(revision)
<1>1. sockets[s].at = "resync" /\ Live(s)
  BY DEF Resync, Live
<1>2. /\ Fits(sockets[s], revision) /\ (~forgot => NotBefore(sockets[s], shown.revision))
      /\ sockets[s] \in SocketRecords /\ sockets[s].last \in Nat
      /\ sockets[s].wire \in Seq(Messages) /\ shown.revision \in Int
      /\ revision \in Nat /\ revision \in 1..MaxRevision
  BY SocketFacts
<1>3. revision \in 0..revision /\ revision \in 0..MaxRevision
  BY <1>2, StreamAssumption
<1>4. m \in Messages /\ m.revision = revision
  BY <1>3, MessageFacts DEF StreamInv
<1>5. CASE IsNewerRevision(sockets[s].last, revision)
  <2> DEFINE socket == [Sending(s, revision) EXCEPT !.at = "streaming"]
  <2>1. /\ SocketStep(s, socket) /\ Len(sockets[s].wire) < SocketBuffer
        /\ sockets[s].last < revision
    BY <1>2, <1>5 DEF Resync, IsNewerRevision, Room
  <2>2. Append(sockets[s].wire, m) \in Seq(Messages)
    BY <1>2, <1>4, WireFacts
  <2>3. /\ socket.at = "streaming" /\ socket.wire = Append(sockets[s].wire, m)
        /\ socket.last = revision /\ socket \in SocketRecords
    BY <1>2, <1>3, <2>2 DEF Sending, SocketRecords, SocketStates
  <2> HIDE DEF socket, m
  <2>4. Fits(socket, revision) /\ (~forgot => NotBefore(socket, shown.revision))
    BY <1>1, <1>2, <1>3, <1>4, <2>1, <2>3, SentFits
  <2> QED
    BY <1>1, <2>1, <2>4, StepStays
<1>6. CASE ~IsNewerRevision(sockets[s].last, revision)
  <2> DEFINE socket == [sockets[s] EXCEPT !.at = "streaming"]
  <2>1. SocketStep(s, socket)
    BY <1>6 DEF Resync
  <2>2. /\ socket.at = "streaming" /\ socket.wire = sockets[s].wire
        /\ socket.last = sockets[s].last /\ socket \in SocketRecords
    BY <1>2 DEF SocketRecords, SocketStates
  <2> HIDE DEF socket
  <2>3. Fits(socket, revision) /\ (~forgot => NotBefore(socket, shown.revision))
    BY <1>1, <1>2, <2>2, KeptFits
  <2> QED
    BY <1>1, <2>1, <2>3, StepStays
<1> QED
  BY <1>5, <1>6

\* The server's side of a connection, and its end.
LEMMA ServerStays ==
  ASSUME StreamInv, NEW s \in Sockets, ServerStep(s) \/ LoseConnection(s)
  PROVE  StreamInv'
<1>1. Fits(Idle("closing"), revision) /\ NotBefore(Idle("closing"), shown.revision)
      /\ Idle("closing").at = "closing"
  BY SocketFacts, IdleFacts
<1>2. CASE ServerCloses(s)
  <2>1. SocketStep(s, Idle("closing")) /\ Live(s)
    BY <1>2 DEF ServerCloses, Live
  <2> QED
    BY <1>1, <2>1, StepStays
<1>3. CASE LoseConnection(s)
  <2>1. /\ sockets' = [sockets EXCEPT ![s] = Idle("closing")] /\ faults' = faults + 1
        /\ faults < MaxFaults
        /\ UNCHANGED <<publisherVars, session, stream, timer, forgot, viewVars>>
    BY <1>3 DEF LoseConnection, Fault
  <2>2. faults' \in 0..MaxFaults
    BY <2>1, StreamAssumption DEF StreamInv, StreamTypeOK
  <2> QED
    BY <1>1, <2>1, <2>2, SocketStays
<1> QED
  BY <1>2, <1>3, SubscribeStays, BootstrapStays, ForwardStays, LaggedStays, ResyncStays
  DEF ServerStep

\* A connection that is not live carries nothing, so is behind no view.
LEMMA NotLiveFacts ==
  ASSUME StreamInv, NEW s \in Sockets, ~Live(s), NEW v
  PROVE  NotBefore(sockets[s], v)
<1>1. sockets[s].at \in {"free", "closing"} /\ sockets[s].wire = <<>>
  BY DEF Live, StreamInv, SocketInv, InOrder
<1>2. DOMAIN <<>> = {}
  BY EmptySeq
<1> QED
  BY <1>1, <1>2 DEF NotBefore, NoneBefore

\* The first message leaves a wire in order, and what stays is newer than it.
LEMMA TailInOrder ==
  ASSUME NEW w \in Seq(Messages), w # <<>>, NEW last, Rising(w, last)
  PROVE  /\ Head(w) \in Messages /\ 0 <= Head(w).revision /\ Head(w).revision <= last
         /\ Rising(Tail(w), last)
         /\ NoneBefore(Tail(w), Head(w).revision)
         /\ \A v : NoneBefore(w, v) =>
              NoneBefore(Tail(w), v) /\ (Head(w) = Persisted \/ v <= Head(w).revision)
<1> DEFINE x == Tail(w)
           l == Len(x)
<1>1. /\ Len(w) \in Nat /\ DOMAIN w = 1..Len(w)
      /\ Head(w) = w[1] /\ 1 \in DOMAIN w
      /\ x \in Seq(Messages) /\ l = Len(w) - 1
      /\ \A i \in 1..l : i + 1 \in 1..Len(w) /\ x[i] = w[i + 1]
  BY WireFacts
<1>2. l \in Nat /\ DOMAIN x = 1..l
  BY <1>1, WireFacts
<1>3. Head(w) \in Messages
  BY <1>1
<1>4. \A message \in Messages : message.revision \in Int
  BY DEF Messages
<1>5. \A i \in 1..l : x[i] \in Messages
  BY <1>1, <1>2
<1> HIDE DEF x, l
<1>6. 0 <= Head(w).revision /\ Head(w).revision <= last
  BY <1>1 DEF Rising
<1>7. Rising(x, last)
  <2>1. \A i \in DOMAIN x : 0 <= x[i].revision /\ x[i].revision <= last
    BY <1>1, <1>2 DEF Rising
  <2>2. ASSUME NEW i \in DOMAIN x, NEW j \in DOMAIN x, i < j
        PROVE  x[i].revision < x[j].revision
    <3>1. i + 1 \in DOMAIN w /\ j + 1 \in DOMAIN w /\ i + 1 < j + 1
      BY <1>1, <1>2, <2>2
    <3>2. w[i + 1].revision < w[j + 1].revision
      BY <3>1 DEF Rising
    <3> QED
      BY <1>1, <1>2, <3>2
  <2> QED
    BY <2>1, <2>2 DEF Rising
<1>8. NoneBefore(x, Head(w).revision)
  <2> SUFFICES ASSUME NEW i \in DOMAIN x PROVE Head(w).revision <= x[i].revision
    BY DEF NoneBefore
  <2>1. i + 1 \in DOMAIN w /\ 1 < i + 1
    BY <1>1, <1>2
  <2>2. w[1].revision < w[i + 1].revision
    BY <1>1, <2>1 DEF Rising
  <2>3. x[i] = w[i + 1] /\ x[i].revision \in Int
    BY <1>1, <1>2, <1>4, <1>5
  <2> QED
    BY <1>1, <1>3, <1>4, <2>2, <2>3
<1>9. ASSUME NEW v, NoneBefore(w, v)
      PROVE  NoneBefore(x, v) /\ (Head(w) = Persisted \/ v <= Head(w).revision)
  BY <1>1, <1>2, <1>9 DEF NoneBefore
<1> QED
  BY <1>3, <1>6, <1>7, <1>8, <1>9 DEF x

\* A connection whose first message is received.
LEMMA ReceivedFacts ==
  ASSUME NEW r, NEW k, Fits(k, r), k.wire # <<>>,
         NEW socket, socket = [k EXCEPT !.wire = Tail(@)]
  PROVE  /\ Fits(socket, r) /\ socket.at = k.at
         /\ Head(k.wire) \in Messages /\ 0 <= Head(k.wire).revision
         /\ Head(k.wire).revision <= k.last
         /\ NotBefore(socket, Head(k.wire).revision)
         /\ \A v : NotBefore(k, v) =>
              NotBefore(socket, v) /\ (Head(k.wire) = Persisted \/ v <= Head(k.wire).revision)
<1> DEFINE w == k.wire
<1>1. /\ k \in SocketRecords /\ w \in Seq(Messages) /\ Rising(w, k.last)
      /\ k.last <= r /\ Len(w) <= SocketBuffer
      /\ k.at \notin {"free", "connecting", "subscribed", "closing"}
  BY DEF Fits, InOrder, SocketRecords
<1>2. /\ Tail(w) \in Seq(Messages) /\ Len(Tail(w)) = Len(w) - 1 /\ Len(w) \in Nat
  BY <1>1, WireFacts
<1>3. /\ socket \in SocketRecords /\ socket.at = k.at /\ socket.last = k.last
      /\ socket.wire = Tail(w)
  BY <1>1, <1>2 DEF SocketRecords
<1>4. /\ Head(w) \in Messages /\ 0 <= Head(w).revision /\ Head(w).revision <= k.last
      /\ Rising(Tail(w), k.last)
      /\ NoneBefore(Tail(w), Head(w).revision)
  BY <1>1, TailInOrder
<1>5. ASSUME NEW v, NotBefore(k, v)
      PROVE  NotBefore(socket, v) /\ (Head(w) = Persisted \/ v <= Head(w).revision)
  <2>1. NoneBefore(Tail(w), v) /\ (Head(w) = Persisted \/ v <= Head(w).revision)
    BY <1>1, <1>5, TailInOrder DEF NotBefore
  <2> QED
    BY <1>3, <1>5, <2>1 DEF NotBefore
<1>6. Len(socket.wire) <= SocketBuffer
  BY <1>1, <1>2, <1>3, StreamAssumption
<1>7. Fits(socket, r)
  BY <1>1, <1>3, <1>4, <1>6 DEF Fits, InOrder
<1>8. NotBefore(socket, Head(w).revision)
  BY <1>3, <1>4 DEF NotBefore
<1> QED
  BY <1>3, <1>4, <1>5, <1>7, <1>8

\* The actor, the process and the session: connections end at most.
LEMMA PublisherStays ==
  ASSUME StreamInv, PublisherStep
  PROVE  StreamInv'
<1> USE StreamAssumption
<1>c. /\ SocketRecords' = SocketRecords /\ Sockets' = Sockets /\ Messages' = Messages
      /\ Persisted' = Persisted
  BY DEF SocketRecords, Sockets, Messages, SocketStates, Persisted
<1>r. revision \in Nat /\ sent \in Nat /\ endedAt \in Nat
  BY DEF StreamInv, StreamTypeOK
<1>k. ASSUME UNCHANGED <<socketVars, viewVars>> PROVE KnownInv' /\ SocketInv'
  BY <1>c, <1>k DEF StreamInv, KnownInv, SocketInv, socketVars, viewVars, Live
<1>1. ASSUME NEW final \in BOOLEAN, WriteSnapshot(final) PROVE StreamInv'
  <2>1. /\ revision' = revision + 1 /\ revision' \in 1..MaxRevision
        /\ sent' = sent /\ sent \in 1..revision' /\ endedAt' \in 0..revision'
        /\ UNCHANGED <<handle, session, socketVars, viewVars, faults>>
    BY <1>r, <1>1 DEF WriteSnapshot, NextRevision, StreamInv, StreamTypeOK
  <2>2. \A s \in Sockets : sockets[s].last <= revision'
    <3> SUFFICES ASSUME NEW s \in Sockets PROVE sockets[s].last <= revision'
      OBVIOUS
    <3>1. sockets[s].last \in Nat /\ sockets[s].last <= revision
      BY SocketFacts DEF StreamInv, StreamTypeOK
    <3> QED
      BY <1>r, <2>1, <3>1
  <2>3. StreamTypeOK'
    BY <1>c, <2>1, <2>2 DEF StreamInv, StreamTypeOK, socketVars, viewVars
  <2>4. ViewInv'
    <3>1. shown.revision \in Int /\ fetched.revision \in Int
      BY DEF StreamInv, StreamTypeOK, Messages
    <3> QED
      BY <1>r, <2>1, <3>1 DEF StreamInv, ViewInv, viewVars
  <2> QED
    BY <1>k, <2>1, <2>3, <2>4 DEF StreamInv
<1>2. ASSUME SendSnapshot PROVE StreamInv'
  <2>1. /\ sent' = revision /\ sent' \in 1..revision
        /\ UNCHANGED <<revision, endedAt, handle, session, socketVars, viewVars, faults>>
    BY <1>r, <1>2 DEF SendSnapshot, StreamInv, StreamTypeOK
  <2>2. StreamTypeOK'
    BY <1>c, <2>1 DEF StreamInv, StreamTypeOK, socketVars, viewVars
  <2>3. ViewInv'
    BY <2>1 DEF StreamInv, ViewInv, viewVars
  <2> QED
    BY <1>k, <2>1, <2>2, <2>3 DEF StreamInv
<1>3. ASSUME SessionEnds \/ SignIn PROVE StreamInv'
  <2>1. /\ session' \in BOOLEAN /\ faults' \in 0..MaxFaults
        /\ UNCHANGED <<publisherVars, socketVars, viewVars>>
    <3>1. /\ session' \in BOOLEAN /\ UNCHANGED <<publisherVars, socketVars, viewVars>>
          /\ faults' = faults \/ (faults < MaxFaults /\ faults' = faults + 1)
      BY <1>3 DEF SessionEnds, SignIn, Fault
    <3>2. faults' \in 0..MaxFaults
      BY <3>1 DEF StreamInv, StreamTypeOK
    <3> QED
      BY <3>1, <3>2
  <2>2. StreamTypeOK'
    BY <1>c, <2>1 DEF StreamInv, StreamTypeOK, publisherVars, socketVars, viewVars
  <2>3. ViewInv'
    BY <2>1 DEF StreamInv, ViewInv, viewVars, publisherVars
  <2> QED
    BY <1>k, <2>1, <2>2, <2>3 DEF StreamInv
<1>4. ASSUME Restart PROVE StreamInv'
  <2> DEFINE k(s) ==
        IF sockets[s].at \in {"subscribed", "streaming", "resync"}
        THEN [sockets[s] EXCEPT !.at = "served"]
        ELSE IF sockets[s].at = "connecting" THEN Idle("closing") ELSE sockets[s]
  <2>1. /\ sockets' = [s \in Sockets |-> k(s)]
        /\ handle' \in BOOLEAN /\ session' \in BOOLEAN
        /\ loading' = IF loading = "asked" THEN "no" ELSE loading
        /\ stopping' \in {"no", "asked", "active", "over"}
        /\ UNCHANGED <<revision, sent, endedAt, stream, timer, forgot>>
        /\ UNCHANGED <<selected, fetched, shown, listed, clicks, faults>>
    BY <1>4 DEF Restart, StreamInv, StreamTypeOK
  <2> HIDE DEF k
  <2>2. ASSUME NEW s \in Sockets
        PROVE  /\ Fits(k(s), revision)
               /\ \A v : NotBefore(sockets[s], v) => NotBefore(k(s), v)
               /\ k(s).at \notin {"free", "closing"} => Live(s)
    <3>1. Fits(sockets[s], revision) /\ sockets[s] \in SocketRecords
      BY SocketFacts
    <3>2. CASE sockets[s].at \in {"subscribed", "streaming", "resync"}
      <4>1. k(s) = [sockets[s] EXCEPT !.at = "served"]
        BY <3>2 DEF k
      <4>2. /\ k(s) \in SocketRecords /\ k(s).at = "served"
            /\ k(s).wire = sockets[s].wire /\ k(s).last = sockets[s].last
        BY <3>1, <4>1 DEF SocketRecords, SocketStates
      <4>3. Fits(k(s), revision)
        BY <3>1, <4>2 DEF Fits, InOrder
      <4>4. \A v : NotBefore(sockets[s], v) => NotBefore(k(s), v)
        BY <4>2 DEF NotBefore
      <4>5. Live(s)
        BY <3>2 DEF Live
      <4> QED
        BY <4>3, <4>4, <4>5
    <3>3. CASE sockets[s].at = "connecting"
      <4>1. k(s) = Idle("closing")
        BY <3>3 DEF k
      <4>2. \A v : NotBefore(Idle("closing"), v)
        BY <1>r, IdleFacts
      <4> QED
        BY <1>r, <4>1, <4>2, IdleFacts
    <3>4. CASE sockets[s].at \notin {"subscribed", "streaming", "resync", "connecting"}
      <4>1. k(s) = sockets[s]
        BY <3>4 DEF k
      <4> QED
        BY <3>1, <4>1 DEF Live
    <3> QED
      BY <3>2, <3>3, <3>4
  <2>3. /\ sockets' \in [Sockets -> SocketRecords]
        /\ \A s \in Sockets : sockets'[s] = k(s)
    BY <2>1, <2>2 DEF Fits
  <2>4. \A s \in Sockets : /\ sockets'[s].last <= revision
                           /\ Len(sockets'[s].wire) <= SocketBuffer
                           /\ InOrder(sockets'[s])
    BY <2>2, <2>3 DEF Fits
  <2>5. loading' \in {"no", "asked", "answered"}
    BY <2>1 DEF StreamInv, StreamTypeOK
  <2>6. StreamTypeOK'
    BY <1>c, <2>1, <2>3, <2>4, <2>5 DEF StreamInv, StreamTypeOK
  <2>7. SocketInv'
    BY <1>c, <2>4 DEF SocketInv
  <2>8. ViewInv'
    BY <2>1 DEF StreamInv, ViewInv
  <2>9. KnownInv'
    <3> SUFFICES ASSUME ~forgot
                 PROVE  /\ \A s \in Sockets : Live(s)' => s = stream /\ listed /\ loading' = "no"
                        /\ loading' # "no" => ~shown.active
                        /\ \A s \in Sockets : NotBefore(sockets'[s], shown.revision)
                        /\ loading' = "answered" =>
                             fetched = Persisted \/ shown.revision <= fetched.revision
      BY <1>c, <2>1 DEF KnownInv
    <3>1. \A s \in Sockets : Live(s)' => Live(s)
      BY <2>2, <2>3 DEF Live
    <3>2. \A s \in Sockets : NotBefore(sockets'[s], shown.revision)
      BY <2>2, <2>3 DEF StreamInv, KnownInv
    <3> QED
      BY <2>1, <3>1, <3>2 DEF StreamInv, KnownInv
  <2> QED
    BY <2>6, <2>7, <2>8, <2>9 DEF StreamInv
<1> QED
  BY <1>1, <1>2, <1>3, <1>4 DEF PublisherStep

\* closeStream: the connection the page knows is not live any more.
LEMMA CloseStreamFacts ==
  ASSUME StreamInv, CloseStream
  PROVE  /\ sockets' \in [Sockets -> SocketRecords] /\ stream' \in Sockets \cup {NoSocket}
         /\ \A s \in Sockets :
              /\ Fits(sockets'[s], revision)
              /\ \A v : NotBefore(sockets[s], v) => NotBefore(sockets'[s], v)
              /\ Live(s)' => s # stream /\ Live(s)
<1>1. /\ sockets' = Closed(sockets) /\ stream' = NoSocket
      /\ sockets \in [Sockets -> SocketRecords] /\ stream \in Sockets \cup {NoSocket}
      /\ revision \in Nat
  BY DEF CloseStream, StreamInv, StreamTypeOK
<1>2. /\ sockets' \in [Sockets -> SocketRecords]
      /\ \A s \in Sockets : sockets'[s] = IF s = stream THEN Idle("closing") ELSE sockets[s]
  BY <1>1, ClosedFacts
<1>3. /\ Fits(Idle("closing"), revision) /\ Idle("closing").at = "closing"
      /\ \A v : NotBefore(Idle("closing"), v)
  BY <1>1, IdleFacts
<1>4. ASSUME NEW s \in Sockets
      PROVE  /\ Fits(sockets'[s], revision)
             /\ \A v : NotBefore(sockets[s], v) => NotBefore(sockets'[s], v)
             /\ Live(s)' => s # stream /\ Live(s)
  <2>1. Fits(sockets[s], revision)
    BY SocketFacts
  <2>2. CASE s = stream
    BY <1>2, <1>3, <2>2 DEF Live
  <2>3. CASE s # stream
    BY <1>2, <2>1, <2>3 DEF Live
  <2> QED
    BY <2>2, <2>3
<1> QED
  BY <1>1, <1>2, <1>4

\* connectStream: the one it opens is, instead.
LEMMA ConnectStreamFacts ==
  ASSUME StreamInv, ConnectStream
  PROVE  /\ sockets' \in [Sockets -> SocketRecords] /\ stream' \in Sockets \cup {NoSocket}
         /\ \A s \in Sockets :
              /\ Fits(sockets'[s], revision)
              /\ \A v : NotBefore(sockets[s], v) => NotBefore(sockets'[s], v)
              /\ Live(s)' => s = stream' \/ (s # stream /\ Live(s))
<1>1. /\ sockets \in [Sockets -> SocketRecords] /\ stream \in Sockets \cup {NoSocket}
      /\ revision \in Nat
  BY DEF StreamInv, StreamTypeOK
<1>2. PICK k \in Sockets : sockets' = [Closed(sockets) EXCEPT ![k] = Idle("connecting")]
                           /\ stream' = k
  BY DEF ConnectStream
<1>3. /\ Closed(sockets) \in [Sockets -> SocketRecords]
      /\ \A s \in Sockets :
           Closed(sockets)[s] = IF s = stream THEN Idle("closing") ELSE sockets[s]
  BY <1>1, ClosedFacts
<1>4. /\ Fits(Idle("closing"), revision) /\ Idle("closing").at = "closing"
      /\ \A v : NotBefore(Idle("closing"), v)
      /\ Fits(Idle("connecting"), revision)
      /\ \A v : NotBefore(Idle("connecting"), v)
  BY <1>1, IdleFacts
<1>5. /\ sockets' \in [Sockets -> SocketRecords]
      /\ \A s \in Sockets : sockets'[s] = IF s = k THEN Idle("connecting")
                                          ELSE IF s = stream THEN Idle("closing") ELSE sockets[s]
  BY <1>2, <1>3, <1>4 DEF Fits
<1>6. ASSUME NEW s \in Sockets
      PROVE  /\ Fits(sockets'[s], revision)
             /\ \A v : NotBefore(sockets[s], v) => NotBefore(sockets'[s], v)
             /\ Live(s)' => s = stream' \/ (s # stream /\ Live(s))
  <2>1. Fits(sockets[s], revision)
    BY SocketFacts
  <2>2. CASE s = k
    BY <1>2, <1>4, <1>5, <2>2
  <2>3. CASE s # k /\ s = stream
    BY <1>4, <1>5, <2>3 DEF Live
  <2>4. CASE s # k /\ s # stream
    BY <1>5, <2>1, <2>4 DEF Live
  <2> QED
    BY <2>2, <2>3, <2>4
<1> QED
  BY <1>2, <1>5, <1>6

\* A page that begins anew and has forgotten nothing has no live connection.
LEMMA AnewStays ==
  ASSUME StreamInv, SelectBot \/ LeaveRun
  PROVE  StreamInv' /\ ViewMovesForward
<1>1. /\ CloseStream /\ shown' = [shown EXCEPT !.active = FALSE] /\ fetched' = NoMessage
      /\ forgot' = \E s \in Sockets : s # stream /\ Live(s)
      /\ UNCHANGED <<publisherVars, session, timer, listed, stopping, faults>>
  BY DEF SelectBot, LeaveRun, BeginAnew, Blank
<1>2. clicks < MaxClicks /\ clicks' = clicks + 1
  BY DEF SelectBot, LeaveRun, Click
<1>3. selected' \in {"bot", "other", "draft"} /\ loading' \in {"no", "asked"}
  BY DEF SelectBot, LeaveRun
<1>4. /\ sockets' \in [Sockets -> SocketRecords] /\ stream' \in Sockets \cup {NoSocket}
      /\ \A s \in Sockets :
           Fits(sockets'[s], revision) /\ (Live(s)' => s # stream /\ Live(s))
      /\ \A s \in Sockets : \A v : NotBefore(sockets[s], v) => NotBefore(sockets'[s], v)
  BY <1>1, CloseStreamFacts
<1>5. NoMessage \in Messages /\ NoMessage.revision = -1 /\ revision \in Nat
  BY MessageFacts DEF StreamInv, StreamTypeOK
<1>6. clicks' \in 0..MaxClicks /\ forgot' \in BOOLEAN
  BY <1>1, <1>2, StreamAssumption DEF StreamInv, StreamTypeOK
<1>7. /\ shown' \in [active : BOOLEAN, revision : 0..MaxRevision]
      /\ ~shown'.active /\ shown'.revision = shown.revision
  BY <1>1 DEF StreamInv, StreamTypeOK
<1>8. StreamTypeOK' /\ SocketInv'
  BY <1>1, <1>3, <1>4, <1>5, <1>6, <1>7, TypesStay DEF StreamInv, StreamTypeOK
<1>9. ViewInv'
  BY <1>1, <1>3, <1>5, <1>7 DEF StreamInv, ViewInv, publisherVars
<1>10. ASSUME ~forgot', NEW s \in Sockets
       PROVE  ~Live(s)' /\ NotBefore(sockets'[s], shown.revision)
  <2>1. ~Live(s) \/ s = stream
    BY <1>1, <1>10
  <2>2. ~Live(s)'
    BY <1>4, <2>1
  <2>3. CASE ~Live(s)
    BY <1>4, <2>3, NotLiveFacts
  <2>4. CASE s = stream
    <3>1. sockets'[s] = Idle("closing")
      BY <1>1, <2>4, ClosedFacts DEF CloseStream, StreamInv, StreamTypeOK
    <3>2. NotBefore(Idle("closing"), shown.revision)
      BY <1>5, IdleFacts
    <3> QED
      BY <2>2, <3>1, <3>2
  <2> QED
    BY <2>1, <2>2, <2>3, <2>4
<1>11. KnownInv'
  <2>1. Sockets' = Sockets
    BY DEF Sockets
  <2> QED
    BY <1>3, <1>7, <1>10, <2>1 DEF KnownInv
<1> QED
  BY <1>1, <1>7, <1>8, <1>9, <1>11 DEF StreamInv, ViewMovesForward

\* The close event: the connection in the page's variable is forgotten if it is live.
LEMMA CloseEventStays ==
  ASSUME StreamInv, NEW s \in Sockets, CloseEvent(s)
  PROVE  StreamInv'
<1>1. /\ sockets' = [sockets EXCEPT ![s] = Idle("free")] /\ stream' = NoSocket
      /\ timer' = (timer \/ shown.active)
      /\ forgot' = (forgot \/ (stream \notin {NoSocket, s} /\ Live(stream)))
      /\ UNCHANGED <<publisherVars, session, viewVars, faults>>
  BY DEF CloseEvent
<1>2. /\ revision \in Nat /\ sockets \in [Sockets -> SocketRecords] /\ NoSocket \notin Sockets
      /\ Persisted' = Persisted /\ Sockets' = Sockets
  BY DEF StreamInv, StreamTypeOK, NoSocket, Sockets, Persisted
<1>3. /\ Fits(Idle("free"), revision) /\ Idle("free").at = "free"
      /\ \A v : NotBefore(Idle("free"), v)
  BY <1>2, IdleFacts
<1>4. /\ sockets' \in [Sockets -> SocketRecords]
      /\ \A t \in Sockets : sockets'[t] = IF t = s THEN Idle("free") ELSE sockets[t]
  BY <1>1, <1>2, <1>3 DEF Fits
<1>5. \A t \in Sockets : Fits(sockets'[t], revision)
  BY <1>3, <1>4, SocketsFit
<1>6. timer' \in BOOLEAN /\ forgot' \in BOOLEAN
  BY <1>1 DEF StreamInv, StreamTypeOK, Live
<1>7. StreamTypeOK' /\ SocketInv'
  BY <1>1, <1>4, <1>5, <1>6, TypesStay DEF StreamInv, StreamTypeOK, viewVars
<1>8. ViewInv'
  BY <1>1 DEF StreamInv, ViewInv, publisherVars, viewVars
<1>9. ASSUME ~forgot', NEW t \in Sockets
      PROVE  ~Live(t)' /\ NotBefore(sockets'[t], shown.revision)
  <2>1. ~forgot /\ (Live(t) => t = stream) /\ NotBefore(sockets[t], shown.revision)
    BY <1>1, <1>9 DEF StreamInv, KnownInv
  <2>2. CASE t = s
    BY <1>3, <1>4, <2>2 DEF Live
  <2>3. CASE t # s
    BY <1>1, <1>2, <1>4, <1>9, <2>1, <2>3 DEF Live
  <2> QED
    BY <2>2, <2>3
<1>10. KnownInv'
  BY <1>1, <1>2, <1>9 DEF StreamInv, KnownInv, viewVars
<1> QED
  BY <1>7, <1>8, <1>10 DEF StreamInv

\* So it is when another run's connection closes.
LEMMA ForeignCloseStays ==
  ASSUME StreamInv, ForeignClose
  PROVE  StreamInv'
<1>1. /\ faults < MaxFaults /\ faults' = faults + 1 /\ stream' = NoSocket
      /\ forgot' = (forgot \/ Live(stream))
      /\ UNCHANGED <<publisherVars, session, sockets, timer, viewVars>>
  BY DEF ForeignClose, Fault
<1>2. faults' \in 0..MaxFaults /\ forgot' \in BOOLEAN
  BY <1>1, StreamAssumption DEF StreamInv, StreamTypeOK, Live
<1>3. /\ Persisted' = Persisted /\ Sockets' = Sockets
  BY DEF Sockets, Persisted
<1>4. StreamTypeOK' /\ SocketInv'
  BY <1>1, <1>2, SocketsFit, TypesStay DEF StreamInv, StreamTypeOK, viewVars
<1>5. ViewInv'
  BY <1>1 DEF StreamInv, ViewInv, publisherVars, viewVars
<1>6. ASSUME ~forgot', NEW t \in Sockets
      PROVE  ~Live(t)' /\ NotBefore(sockets'[t], shown.revision)
  BY <1>1, <1>6 DEF StreamInv, KnownInv, Live
<1>7. KnownInv'
  BY <1>1, <1>3, <1>6 DEF StreamInv, KnownInv, viewVars
<1> QED
  BY <1>4, <1>5, <1>7 DEF StreamInv

\* The reconnect timer.
LEMMA TimerStays ==
  ASSUME StreamInv, TimerFires
  PROVE  StreamInv'
<1>1. /\ timer' = FALSE /\ UNCHANGED <<publisherVars, session, forgot, viewVars, faults>>
      /\ IF shown.active THEN ConnectStream ELSE UNCHANGED <<sockets, stream>>
  BY DEF TimerFires
<1>2. /\ sockets' \in [Sockets -> SocketRecords] /\ stream' \in Sockets \cup {NoSocket}
      /\ \A s \in Sockets :
           /\ Fits(sockets'[s], revision)
           /\ \A v : NotBefore(sockets[s], v) => NotBefore(sockets'[s], v)
  <2>1. CASE shown.active
    BY <1>1, <2>1, ConnectStreamFacts
  <2>2. CASE ~shown.active
    BY <1>1, <2>2, SocketsFit DEF StreamInv, StreamTypeOK
  <2> QED
    BY <2>1, <2>2
<1>3. ASSUME ~forgot, NEW s \in Sockets, Live(s)'
      PROVE  s = stream' /\ listed /\ loading = "no"
  <2>1. Live(s) => s = stream /\ listed /\ loading = "no"
    BY <1>3 DEF StreamInv, KnownInv
  <2>2. CASE shown.active
    <3>1. listed /\ loading = "no"
      BY <1>3, <2>2 DEF StreamInv, KnownInv, ViewInv
    <3>2. s = stream' \/ (s # stream /\ Live(s))
      BY <1>1, <1>3, <2>2, ConnectStreamFacts
    <3> QED
      BY <2>1, <3>1, <3>2
  <2>3. CASE ~shown.active
    BY <1>1, <1>3, <2>1, <2>3 DEF Live
  <2> QED
    BY <2>2, <2>3
<1>4. StreamTypeOK' /\ SocketInv'
  BY <1>1, <1>2, TypesStay DEF StreamInv, StreamTypeOK, viewVars
<1>5. ViewInv'
  BY <1>1 DEF StreamInv, ViewInv, publisherVars, viewVars
<1>6. KnownInv'
  <2>1. Persisted' = Persisted /\ Sockets' = Sockets
    BY DEF Sockets, Persisted
  <2>2. ~forgot => \A s \in Sockets : NotBefore(sockets'[s], shown.revision)
    BY <1>2 DEF StreamInv, KnownInv
  <2> QED
    BY <1>1, <1>3, <2>1, <2>2 DEF StreamInv, KnownInv, viewVars
<1> QED
  BY <1>4, <1>5, <1>6 DEF StreamInv

\* The answer to the page's request for a snapshot.
LEMMA ReadSnapshotStays ==
  ASSUME StreamInv, ReadSnapshot
  PROVE  StreamInv'
<1>1. /\ loading = "asked"
      /\ \/ loading' = "answered" /\ fetched' = Current
         \/ loading' = "no" /\ fetched' = fetched
      /\ UNCHANGED <<publisherVars, session, socketVars, faults>>
      /\ UNCHANGED <<selected, shown, listed, stopping, clicks>>
  BY DEF ReadSnapshot
<1>2. /\ Current \in Messages /\ (Current = Persisted \/ Current.revision = revision)
      /\ Persisted.revision = 0
      /\ revision \in Nat /\ shown.revision \in Int /\ shown.revision <= revision
  BY MessageFacts, SocketFacts DEF StreamInv, StreamTypeOK, ViewInv
<1>3. StreamTypeOK' /\ SocketInv'
  BY <1>1, <1>2, SocketsFit, TypesStay DEF StreamInv, StreamTypeOK, socketVars
<1>4. ViewInv'
  BY <1>1, <1>2 DEF StreamInv, ViewInv, publisherVars
<1>5. KnownInv'
  <2>1. Persisted' = Persisted /\ Sockets' = Sockets
    BY DEF Sockets, Persisted
  <2>2. ~forgot => /\ ~shown.active
                   /\ \A s \in Sockets : ~Live(s) /\ NotBefore(sockets[s], shown.revision)
    BY <1>1 DEF StreamInv, KnownInv
  <2> QED
    BY <1>1, <1>2, <2>1, <2>2 DEF KnownInv, socketVars, Live
<1> QED
  BY <1>3, <1>4, <1>5 DEF StreamInv

\* Showing it: the stream is opened when none is live.
LEMMA RenderFetchedStays ==
  ASSUME StreamInv, RenderFetched
  PROVE  StreamInv' /\ ViewMovesForward
<1>1. /\ loading = "answered" /\ loading' = "no" /\ fetched' = NoMessage
      /\ listed' = fetched.active
      /\ shown' = [active |-> fetched.active,
                   revision |-> IF fetched.active THEN fetched.revision ELSE shown.revision]
      /\ IF fetched.active THEN ConnectStream ELSE CloseStream
      /\ UNCHANGED <<publisherVars, session, timer, forgot, selected, stopping, clicks, faults>>
  BY DEF RenderFetched, Render
<1>2. /\ fetched \in Messages /\ fetched.active \in BOOLEAN /\ fetched.revision \in Int
      /\ fetched.revision <= revision /\ 0 <= fetched.revision
      /\ revision \in Nat /\ revision <= MaxRevision
      /\ shown.revision \in 0..MaxRevision /\ shown.revision <= revision
  BY <1>1, StreamAssumption DEF StreamInv, StreamTypeOK, ViewInv, Messages
<1>3. /\ NoMessage \in Messages /\ NoMessage.revision = -1 /\ ~Persisted.active
  BY MessageFacts DEF StreamInv
<1>4. /\ sockets' \in [Sockets -> SocketRecords] /\ stream' \in Sockets \cup {NoSocket}
      /\ \A s \in Sockets :
           /\ Fits(sockets'[s], revision)
           /\ \A v : NotBefore(sockets[s], v) => NotBefore(sockets'[s], v)
           /\ Live(s)' => (fetched.active /\ s = stream') \/ Live(s)
  <2>1. CASE fetched.active
    BY <1>1, <2>1, ConnectStreamFacts
  <2>2. CASE ~fetched.active
    BY <1>1, <2>2, CloseStreamFacts
  <2> QED
    BY <2>1, <2>2
<1>5. shown' \in [active : BOOLEAN, revision : 0..MaxRevision] /\ listed' \in BOOLEAN
  <2>1. shown'.revision \in 0..MaxRevision
    BY <1>1, <1>2, StreamAssumption
  <2> QED
    BY <1>1, <1>2, <2>1
<1>6. StreamTypeOK' /\ SocketInv'
  BY <1>1, <1>3, <1>4, <1>5, TypesStay DEF StreamInv, StreamTypeOK
<1>7. ViewInv'
  BY <1>1, <1>2, <1>3 DEF ViewInv, publisherVars
<1>8. ASSUME ~forgot
      PROVE  /\ \A s \in Sockets : ~Live(s)
             /\ fetched.active => shown.revision <= fetched.revision
  BY <1>1, <1>3, <1>8 DEF StreamInv, KnownInv
<1>9. KnownInv'
  <2>1. Sockets' = Sockets
    BY DEF Sockets
  <2>2. ASSUME ~forgot, NEW s \in Sockets
        PROVE  /\ Live(s)' => s = stream' /\ listed'
               /\ NotBefore(sockets'[s], shown'.revision)
    <3>1. NotBefore(sockets[s], shown'.revision)
      BY <1>8, <2>2, NotLiveFacts
    <3> QED
      BY <1>1, <1>4, <1>8, <2>2, <3>1
  <2> QED
    BY <1>1, <2>1, <2>2 DEF KnownInv
<1>10. ViewMovesForward
  BY <1>1, <1>2, <1>8 DEF ViewMovesForward
<1> QED
  BY <1>6, <1>7, <1>9, <1>10 DEF StreamInv

\* A message of a connection: it is no older than the view, and what stays no older than it.
LEMMA ReceiveStays ==
  ASSUME StreamInv, NEW s \in Sockets, Receive(s)
  PROVE  StreamInv' /\ ViewMovesForward
<1> DEFINE message == Head(sockets[s].wire)
           socket == [sockets[s] EXCEPT !.wire = Tail(@)]
           received == [sockets EXCEPT ![s] = socket]
<1>1. /\ sockets[s].wire # <<>>
      /\ \/ selected = "other" /\ sockets' = received /\ UNCHANGED <<stream, shown, listed>>
         \/ /\ selected # "other" /\ message.active
            /\ listed' = message.active
            /\ shown' = [active |-> message.active, revision |-> message.revision]
            /\ sockets' = received /\ UNCHANGED stream
         \/ /\ selected # "other" /\ ~message.active
            /\ listed' = message.active
            /\ shown' = [active |-> message.active, revision |-> shown.revision]
            /\ sockets' = Closed(received) /\ stream' = NoSocket
      /\ UNCHANGED <<publisherVars, session, timer, forgot, faults>>
      /\ UNCHANGED <<selected, loading, fetched, stopping, clicks>>
  BY DEF Receive, Render
<1>2. /\ Fits(sockets[s], revision) /\ (~forgot => NotBefore(sockets[s], shown.revision))
      /\ sockets[s].last <= revision /\ sockets[s].last \in Nat
      /\ revision \in Nat /\ revision \in 1..MaxRevision
      /\ shown.revision \in Int /\ shown.revision <= revision
  BY SocketFacts DEF Fits
<1>3. Live(s)
  BY <1>1, <1>2 DEF Live, Fits, InOrder
<1>4. /\ Fits(socket, revision) /\ socket.at = sockets[s].at
      /\ message \in Messages /\ 0 <= message.revision /\ message.revision <= sockets[s].last
      /\ NotBefore(socket, message.revision)
      /\ \A v : NotBefore(sockets[s], v) =>
           NotBefore(socket, v) /\ (message = Persisted \/ v <= message.revision)
  BY <1>1, <1>2, ReceivedFacts
<1>5. /\ message.active \in BOOLEAN /\ message.revision \in 0..MaxRevision
      /\ message.revision <= revision
  BY <1>2, <1>4, StreamAssumption DEF Messages
<1> HIDE DEF message, socket
<1>6. /\ received \in [Sockets -> SocketRecords]
      /\ \A t \in Sockets : received[t] = IF t = s THEN socket ELSE sockets[t]
  BY <1>4 DEF StreamInv, StreamTypeOK, Fits
<1>7. stream \in Sockets \cup {NoSocket}
  BY DEF StreamInv, StreamTypeOK
<1>8. /\ Closed(received) \in [Sockets -> SocketRecords]
      /\ \A t \in Sockets : Closed(received)[t] = IF t = stream THEN Idle("closing") ELSE received[t]
  BY <1>6, <1>7, ClosedFacts
<1>9. /\ Fits(Idle("closing"), revision) /\ Idle("closing").at = "closing"
      /\ \A v : NotBefore(Idle("closing"), v)
  BY <1>2, IdleFacts
<1>10. /\ ~Persisted.active /\ Persisted' = Persisted /\ Sockets' = Sockets
  BY MessageFacts DEF Sockets, Persisted, StreamInv
<1> HIDE DEF received
<1>11. ASSUME NEW t \in Sockets PROVE Fits(received[t], revision)
  BY <1>4, <1>6, SocketsFit
<1>12. /\ sockets' \in [Sockets -> SocketRecords] /\ stream' \in Sockets \cup {NoSocket}
       /\ \A t \in Sockets : Fits(sockets'[t], revision)
  BY <1>1, <1>6, <1>7, <1>8, <1>9, <1>11
<1>13. shown' \in [active : BOOLEAN, revision : 0..MaxRevision] /\ listed' \in BOOLEAN
  BY <1>1, <1>5 DEF StreamInv, StreamTypeOK
<1>14. StreamTypeOK' /\ SocketInv'
  BY <1>1, <1>12, <1>13, TypesStay DEF StreamInv, StreamTypeOK
<1>15. ViewInv'
  BY <1>1, <1>2, <1>5 DEF StreamInv, ViewInv, publisherVars
<1>16. ASSUME ~forgot
       PROVE  /\ \A t \in Sockets : t # s => ~Live(t)
              /\ s = stream /\ listed /\ loading = "no"
              /\ message.active => shown.revision <= message.revision
              /\ \A t \in Sockets : NotBefore(sockets[t], shown.revision)
  BY <1>2, <1>3, <1>4, <1>10, <1>16 DEF StreamInv, KnownInv
<1>17. ASSUME ~forgot, NEW t \in Sockets
       PROVE  /\ received[t].at \notin {"free", "closing"} => t = s
              /\ NotBefore(received[t], shown.revision)
              /\ NotBefore(received[t], message.revision)
  <2>1. CASE t = s
    BY <1>4, <1>6, <1>16, <1>17, <2>1
  <2>2. CASE t # s
    <3>1. ~Live(t) /\ received[t] = sockets[t]
      BY <1>6, <1>16, <1>17, <2>2
    <3>2. \A v : NotBefore(sockets[t], v)
      BY <3>1, NotLiveFacts
    <3> QED
      BY <3>1, <3>2 DEF Live
  <2> QED
    BY <2>1, <2>2
<1>18. KnownInv'
  <2> SUFFICES ASSUME ~forgot, NEW t \in Sockets
               PROVE  /\ Live(t)' => t = stream' /\ listed'
                      /\ NotBefore(sockets'[t], shown'.revision)
    BY <1>1, <1>10, <1>16 DEF KnownInv
  <2>1. CASE selected = "other"
    BY <1>1, <1>16, <1>17, <2>1 DEF Live
  <2>2. CASE selected # "other" /\ message.active
    <3>1. /\ sockets' = received /\ UNCHANGED stream
          /\ shown' = [active |-> message.active, revision |-> message.revision]
      BY <1>1, <2>2
    <3>2. shown'.revision = message.revision
      BY <3>1
    <3>3. listed'
      BY <1>1, <1>5, <2>2
    <3> QED
      BY <1>16, <1>17, <3>1, <3>2, <3>3 DEF Live
  <2>3. CASE selected # "other" /\ ~message.active
    <3>1. sockets' = Closed(received) /\ shown'.revision = shown.revision
      BY <1>1, <2>3
    <3>2. CASE t = stream
      BY <1>8, <1>9, <3>1, <3>2 DEF Live
    <3>3. CASE t # stream
      BY <1>8, <1>16, <1>17, <3>1, <3>3 DEF Live
    <3> QED
      BY <3>2, <3>3
  <2> QED
    BY <2>1, <2>2, <2>3
<1>19. ViewMovesForward
  <2> SUFFICES ASSUME ~forgot, shown'.active PROVE shown'.revision >= shown.revision
    BY <1>1, <1>16 DEF ViewMovesForward
  <2>1. CASE selected = "other"
    BY <1>1, <1>2, <2>1
  <2>2. CASE selected # "other"
    <3>1. message.active /\ shown'.revision = message.revision
      BY <1>1, <2>2
    <3> QED
      BY <1>2, <1>5, <1>16, <3>1
  <2> QED
    BY <2>1, <2>2
<1> QED
  BY <1>14, <1>15, <1>18, <1>19 DEF StreamInv

\* The stop button and its answer.
LEMMA StopStays ==
  ASSUME StreamInv, AskStop \/ ReadStopped \/ StopAnswered
  PROVE  StreamInv' /\ ViewMovesForward
<1>0. /\ shown.revision \in Int /\ clicks \in 0..MaxClicks
      /\ Persisted' = Persisted /\ Sockets' = Sockets
  BY DEF StreamInv, StreamTypeOK, Persisted, Sockets
<1>1. CASE AskStop \/ ReadStopped
  <2>1. /\ stopping' \in {"no", "asked", "active", "over"}
        /\ clicks' = clicks \/ (clicks < MaxClicks /\ clicks' = clicks + 1)
        /\ UNCHANGED <<publisherVars, session, socketVars, faults>>
        /\ UNCHANGED <<selected, loading, fetched, shown, listed>>
    BY <1>1 DEF AskStop, ReadStopped, Click
  <2>2. clicks' \in 0..MaxClicks
    BY <1>0, <2>1, StreamAssumption
  <2>3. StreamTypeOK' /\ SocketInv'
    BY <2>1, <2>2, SocketsFit, TypesStay DEF StreamInv, StreamTypeOK, socketVars
  <2>4. ViewInv' /\ KnownInv'
    BY <1>0, <2>1 DEF StreamInv, ViewInv, KnownInv, publisherVars, socketVars, Live
  <2>5. ViewMovesForward
    BY <1>0, <2>1 DEF ViewMovesForward
  <2> QED
    BY <2>3, <2>4, <2>5 DEF StreamInv
<1>2. CASE StopAnswered
  <2>1. /\ stopping' = "no" /\ CloseStream /\ shown' = [shown EXCEPT !.active = FALSE]
        /\ listed' = (stopping = "active")
        /\ UNCHANGED <<publisherVars, session, timer, forgot, faults>>
        /\ UNCHANGED <<selected, loading, fetched, clicks>>
    BY <1>2 DEF StopAnswered, Blank
  <2>2. /\ shown' \in [active : BOOLEAN, revision : 0..MaxRevision]
        /\ ~shown'.active /\ shown'.revision = shown.revision
    BY <2>1 DEF StreamInv, StreamTypeOK
  <2>3. /\ sockets' \in [Sockets -> SocketRecords] /\ stream' \in Sockets \cup {NoSocket}
        /\ \A s \in Sockets :
             /\ Fits(sockets'[s], revision)
             /\ NotBefore(sockets[s], shown.revision) => NotBefore(sockets'[s], shown.revision)
             /\ Live(s)' => s # stream /\ Live(s)
    BY <2>1, CloseStreamFacts
  <2>4. StreamTypeOK' /\ SocketInv'
    BY <2>1, <2>2, <2>3, TypesStay DEF StreamInv, StreamTypeOK
  <2>5. ViewInv'
    BY <2>1, <2>2 DEF StreamInv, ViewInv, publisherVars
  <2>6. KnownInv'
    BY <1>0, <2>1, <2>2, <2>3 DEF StreamInv, KnownInv
  <2>7. ViewMovesForward
    BY <1>2, <2>2 DEF ViewMovesForward, StopAnswered
  <2> QED
    BY <2>4, <2>5, <2>6, <2>7 DEF StreamInv
<1> QED
  BY <1>1, <1>2

\* A step of any part, or a stutter, preserves the invariant and moves the view forward.
LEMMA StreamStep ==
  ASSUME StreamInv, [StreamNext]_streamVars
  PROVE  StreamInv' /\ [ViewMovesForward]_streamVars
<1>1. ASSUME UNCHANGED <<shown, listed>> PROVE ViewMovesForward
  BY <1>1, SocketFacts DEF ViewMovesForward, StreamInv, StreamTypeOK
<1>2. CASE PublisherStep
  <2>1. UNCHANGED <<shown, listed>>
    BY <1>2 DEF PublisherStep, WriteSnapshot, SendSnapshot, Restart, SessionEnds, SignIn, viewVars
  <2> QED
    BY <1>1, <1>2, <2>1, PublisherStays
<1>3. ASSUME NEW s \in Sockets, ServerStep(s) \/ LoseConnection(s)
      PROVE  StreamInv' /\ ViewMovesForward
  <2>1. UNCHANGED <<shown, listed>>
    BY <1>3
    DEF ServerStep, Subscribe, ReadBootstrap, ForwardUpdate, Lagged, Resync, ServerCloses,
        SocketStep, LoseConnection, viewVars
  <2> QED
    BY <1>1, <1>3, <2>1, ServerStays
<1>4. ASSUME NEW s \in Sockets, BrowserStep(s)
      PROVE  StreamInv' /\ ViewMovesForward
  <2>1. CASE Receive(s)
    BY <2>1, ReceiveStays
  <2>2. CASE CloseEvent(s)
    <3>1. UNCHANGED <<shown, listed>>
      BY <2>2 DEF CloseEvent, viewVars
    <3> QED
      BY <1>1, <2>2, <3>1, CloseEventStays
  <2> QED
    BY <1>4, <2>1, <2>2 DEF BrowserStep
<1>5. CASE PageStep
  <2>1. CASE ReadSnapshot
    <3>1. UNCHANGED <<shown, listed>>
      BY <2>1 DEF ReadSnapshot
    <3> QED
      BY <1>1, <2>1, <3>1, ReadSnapshotStays
  <2>2. CASE RenderFetched
    BY <2>2, RenderFetchedStays
  <2>3. CASE ReadStopped \/ StopAnswered
    BY <2>3, StopStays
  <2> QED
    BY <1>5, <2>1, <2>2, <2>3 DEF PageStep
<1>6. CASE UserStep
  BY <1>6, AnewStays, StopStays DEF UserStep
<1>7. CASE TimerFires
  <2>1. UNCHANGED <<shown, listed>>
    BY <1>7 DEF TimerFires, viewVars
  <2> QED
    BY <1>1, <1>7, <2>1, TimerStays
<1>8. CASE ForeignClose
  <2>1. UNCHANGED <<shown, listed>>
    BY <1>8 DEF ForeignClose, viewVars
  <2> QED
    BY <1>1, <1>8, <2>1, ForeignCloseStays
<1>9. CASE UNCHANGED streamVars
  <2>1. UNCHANGED <<publisherVars, session, sockets, stream, timer, forgot, viewVars, faults>>
    BY <1>9 DEF streamVars, socketVars
  <2>2. StreamTypeOK' /\ SocketInv'
    BY <2>1, SocketsFit, TypesStay DEF StreamInv, StreamTypeOK, viewVars
  <2>3. Persisted' = Persisted /\ Sockets' = Sockets
    BY DEF Persisted, Sockets
  <2>4. ViewInv' /\ KnownInv'
    BY <2>1, <2>3 DEF StreamInv, ViewInv, KnownInv, Live, viewVars, publisherVars
  <2> QED
    BY <1>9, <2>2, <2>4 DEF StreamInv
<1> QED
  BY <1>2, <1>3, <1>4, <1>5, <1>6, <1>7, <1>8, <1>9 DEF StreamNext

\* The first state: one snapshot published, and a page that shows another bot.
LEMMA StreamStarts ==
  ASSUME StreamInit
  PROVE  StreamInv
<1> USE StreamAssumption
<1>1. /\ revision = 1 /\ sent = 1 /\ endedAt = 0 /\ handle = TRUE /\ session = TRUE
      /\ sockets = [s \in Sockets |-> Idle("free")] /\ stream = NoSocket
      /\ timer = FALSE /\ forgot = FALSE /\ faults = 0 /\ clicks = 0 /\ selected = "other"
      /\ loading = "no" /\ fetched = NoMessage /\ listed = TRUE /\ stopping = "no"
      /\ shown = [active |-> FALSE, revision |-> 0]
  BY DEF StreamInit
<1>2. /\ Fits(Idle("free"), 1) /\ Idle("free").at = "free"
      /\ \A v : NotBefore(Idle("free"), v)
  BY IdleFacts
<1>3. \A s \in Sockets : sockets[s] = Idle("free")
  BY <1>1
<1>4. NoMessage \in Messages /\ NoMessage.revision = -1
  BY DEF NoMessage, Messages
<1>5. StreamTypeOK
  <2>1. sockets \in [Sockets -> SocketRecords]
    BY <1>1, <1>2 DEF Fits
  <2>2. \A s \in Sockets : sockets[s].last <= revision /\ Len(sockets[s].wire) <= SocketBuffer
    BY <1>1, <1>2, <1>3 DEF Fits
  <2>3. /\ revision \in 1..MaxRevision /\ sent \in 1..revision /\ endedAt \in 0..revision
        /\ faults \in 0..MaxFaults /\ clicks \in 0..MaxClicks
    BY <1>1
  <2>4. shown \in [active : BOOLEAN, revision : 0..MaxRevision]
    BY <1>1
  <2> QED
    BY <1>1, <1>4, <2>1, <2>2, <2>3, <2>4 DEF StreamTypeOK
<1>6. SocketInv
  BY <1>2, <1>3 DEF SocketInv, Fits
<1>7. ViewInv
  BY <1>1, <1>4 DEF ViewInv
<1>8. KnownInv
  BY <1>1, <1>2, <1>3 DEF KnownInv, Live
<1> QED
  BY <1>5, <1>6, <1>7, <1>8 DEF StreamInv

\* StreamInv is an invariant of a run seen from its three sides (paper.rs update_snapshot
\* and stream_bootstrap, api/trading.rs stream_runtime, web/trading.js connectStream and
\* renderSnapshot).
THEOREM StreamIsInvariant == Spec => []StreamInv
<1>1. Init => StreamInv
  BY StreamStarts DEF Init
<1>2. StreamInv /\ [Next]_vars => StreamInv'
  <2> SUFFICES ASSUME StreamInv, [Next]_vars PROVE StreamInv'
    OBVIOUS
  <2>1. [StreamNext]_streamVars
    BY DEF Next, Recording, Streaming, Paging, vars
  <2> QED
    BY <2>1, StreamStep
<1> QED
  BY <1>1, <1>2, PTL DEF Spec

\* While the page has forgotten no live connection, an active view never has a revision
\* lower than any shown before, and a run listed as over is active again only by a snapshot
\* or a stop's answer asked for before, through bootstraps, queued updates, lags, late close
\* events, reconnects and restarts (api/trading.rs:573, web/trading.js:2471).
THEOREM StreamViewGoesForward == Spec => ViewGoesForward
<1>1. StreamInv /\ [Next]_vars => [ViewMovesForward]_vars
  <2> SUFFICES ASSUME StreamInv, [Next]_vars PROVE ViewMovesForward \/ UNCHANGED vars
    OBVIOUS
  <2>1. [StreamNext]_streamVars
    BY DEF Next, Recording, Streaming, Paging, vars
  <2>2. [ViewMovesForward]_streamVars
    BY <2>1, StreamStep
  <2>3. CASE UNCHANGED streamVars
    <3>1. UNCHANGED <<shown, listed>> /\ shown.revision \in Int
      BY <2>3, SocketFacts DEF streamVars, viewVars, StreamInv, StreamTypeOK
    <3> QED
      BY <3>1 DEF ViewMovesForward
  <2> QED
    BY <2>2, <2>3
<1> QED
  BY <1>1, StreamIsInvariant, PTL DEF Spec, ViewGoesForward

-----------------------------------------------------------------------------
(* Rows in pages *)

\* A run has its first row before anyone reads it, and it is no equity row
\* (create_trading_run).
RowsInv ==
  /\ rows \in Seq({"equity", "activity"}) /\ Len(rows) \in 1..MaxRows
  /\ rows[1] = "activity"

\* The equity rows of the run.
Suppressed == Len(rows) - Cardinality(Activities)

\* The audit is a stretch of the run's sequences, as PagesAreWhole has it.
AuditInv ==
  /\ audit \in [events : Seq(Nat), total : Nat, full : BOOLEAN, hasMore : BOOLEAN]
  /\ audit.events # <<>> =>
       /\ 1 <= Head(audit.events) /\ Head(audit.events) <= Last(audit.events)
       /\ Last(audit.events) <= Len(rows)
       /\ audit.events = Stretch(Head(audit.events), Last(audit.events))
       /\ audit.full => Head(audit.events) = 1
       /\ audit.hasMore \/ Last(audit.events) >= audit.total

\* The activity list is a stretch of the run's activities, and offers an older page unless
\* it has the first row.
ActivityInv ==
  /\ activity \in [items : SUBSET Nat, suppressed : Int, oldest : Nat, hasMore : BOOLEAN]
  /\ activity.items \subseteq Activities
  /\ activity.items # {} =>
       /\ activity.oldest \in activity.items
       /\ activity.items =
            {n \in Activities : n >= activity.oldest /\ n <= Max(activity.items)}
       /\ ~activity.hasMore => activity.oldest = 1
       /\ activity.suppressed <= Suppressed
  /\ activity.hasMore => activity.items # {} /\ activity.oldest > 1

Kinds == {"tail", "complete", "next", "append", "newest", "older"}
AuditKinds == {"tail", "complete", "append"}

\* What a request counted was true of an earlier moment; what it asks for follows what the
\* console has, which changes with its answer only.
RequestInv ==
  /\ request.kind # "none" =>
       request = [kind |-> request.kind, asked |-> request.asked,
                  counts |-> request.counts, got |-> request.got]
  /\ request.kind \in {"none"} \cup Kinds
  /\ request.kind \in AuditKinds =>
       /\ request.counts.min = 1 /\ request.counts.max = request.counts.total
       /\ request.counts.total \in 1..Len(rows)
  /\ request.kind \in {"newest", "older"} =>
       /\ request.counts.min = 1
       /\ request.counts.canonical \in Nat /\ request.counts.total \in Nat
       /\ request.counts.canonical - request.counts.total <= Suppressed
  /\ request.kind = "append" =>
       /\ audit.full
       /\ request.asked = IF audit.events = <<>> THEN 0 ELSE Last(audit.events)
  /\ request.kind \in {"complete", "next"} =>
       request.asked \in 0..Len(rows) /\ request.got = Stretch(1, request.asked)
  /\ request.kind = "newest" => request.asked = None
  /\ request.kind = "older" =>
       activity.items # {} /\ activity.oldest > 1 /\ request.asked = activity.oldest

PagesInv == RowsInv /\ AuditInv /\ ActivityInv /\ RequestInv

\* A stretch of sequences, as a sequence.
LEMMA StretchFacts ==
  ASSUME NEW a \in Nat, NEW b \in Nat, a <= b
  PROVE  /\ Stretch(a, b) \in Seq(Nat) /\ Len(Stretch(a, b)) = b - a + 1
         /\ Stretch(a, b) # <<>>
         /\ Head(Stretch(a, b)) = a /\ Last(Stretch(a, b)) = b
         /\ Range(Stretch(a, b)) = a..b
         /\ \A i \in 1..(b - a + 1) : Stretch(a, b)[i] = a + i - 1
<1> DEFINE s == Stretch(a, b)
<1>1. /\ s = [i \in 1..(b - a + 1) |-> a + i - 1] /\ DOMAIN s = 1..(b - a + 1)
      /\ \A i \in 1..(b - a + 1) : s[i] = a + i - 1 /\ s[i] \in Nat
      /\ b - a + 1 \in Nat /\ b - a + 1 >= 1
  BY DEF Stretch
<1>2. s \in [1..(b - a + 1) -> Nat]
  BY <1>1
<1>3. s \in Seq(Nat)
  BY <1>1, <1>2, IsASeq
<1> HIDE DEF s
<1>4. Len(s) = b - a + 1 /\ s # <<>>
  BY <1>1, <1>3, LenProperties, EmptySeq
<1>5. Head(s) = a
  <2>1. Head(s) = s[1] /\ 1 \in 1..(b - a + 1)
    BY <1>1, <1>3, <1>4, HeadTailProperties
  <2> QED
    BY <1>1, <2>1
<1>6. Last(s) = b
  <2>1. Last(s) = s[Len(s)] /\ Len(s) \in 1..(b - a + 1)
    BY <1>1, <1>4 DEF Last
  <2> QED
    BY <1>1, <1>4, <2>1
<1>7. Range(s) = a..b
  <2>1. \A n \in a..b : n - a + 1 \in DOMAIN s /\ s[n - a + 1] = n
    BY <1>1
  <2>2. \A i \in DOMAIN s : s[i] \in a..b
    BY <1>1
  <2> QED
    BY <2>1, <2>2 DEF Range
<1> QED
  BY <1>1, <1>3, <1>4, <1>5, <1>6, <1>7 DEF s

\* Sorting a stretch of sequences gives the stretch, and sorting nothing gives nothing.
LEMMA SortedFacts ==
  /\ \A a, b \in Nat : a <= b => Sorted(a..b) = Stretch(a, b)
  /\ Sorted({}) = <<>>
<1>1. ASSUME NEW a \in Nat, NEW b \in Nat, a <= b
      PROVE  Sorted(a..b) = Stretch(a, b)
  <2>1. Cardinality(a..b) = b - a + 1
    BY <1>1, FS_Interval
  <2>2. ASSUME NEW n \in a..b
        PROVE  Cardinality({m \in a..b : m < n}) = n - a
    <3>1. {m \in a..b : m < n} = a..(n - 1)
      OBVIOUS
    <3>2. Cardinality(a..(n - 1)) = IF a > n - 1 THEN 0 ELSE n - 1 - a + 1
      BY FS_Interval
    <3>3. (IF a > n - 1 THEN 0 ELSE n - 1 - a + 1) = n - a
      OBVIOUS
    <3> QED
      BY <3>1, <3>2, <3>3, Zenon
  <2>3. ASSUME NEW i \in 1..(b - a + 1)
        PROVE  (CHOOSE n \in a..b : Cardinality({m \in a..b : m < n}) = i - 1) = a + i - 1
    <3>1. a + i - 1 \in a..b /\ (a + i - 1) - a = i - 1
      OBVIOUS
    <3>2. \A n \in a..b : Cardinality({m \in a..b : m < n}) = i - 1 <=> n = a + i - 1
      BY <2>2, <3>1
    <3> QED
      BY <3>1, <3>2
  <2> QED
    BY <2>1, <2>3 DEF Sorted, Stretch
<1>2. Sorted({}) = <<>>
  <2>1. Cardinality({}) = 0 /\ 1..0 = {}
    BY FS_EmptySet
  <2>2. DOMAIN Sorted({}) = {} /\ Sorted({}) = [i \in {} |-> CHOOSE n \in {} : Cardinality({m \in {} : m < n}) = i - 1]
    BY <2>1 DEF Sorted
  <2>3. Sorted({}) \in [1..0 -> Nat]
    BY <2>1, <2>2
  <2>4. Sorted({}) \in Seq(Nat) /\ Len(Sorted({})) = 0
    BY <2>1, <2>2, <2>3, IsASeq, LenProperties
  <2> QED
    BY <2>4, EmptySeq
<1> QED
  BY <1>1, <1>2

\* A finite set of sequences that is not empty has a greatest one, which Max returns, and
\* a least one, which Min returns.
LEMMA FiniteHasGreatest ==
  ASSUME NEW L \in Nat, NEW S \in SUBSET (1..L), S # {}
  PROVE  /\ \E n \in S : \A m \in S : m <= n
         /\ Max(S) \in S /\ \A m \in S : m <= Max(S)
         /\ Min(S) \in S /\ \A m \in S : Min(S) <= m
<1> DEFINE Bounds == {n \in Nat : \A m \in S : m <= n}
           Lower == {n \in Nat : \A m \in S : n <= m}
<1>0. \A n \in S : n \in Int /\ 1 <= n /\ n <= L
  OBVIOUS
<1>1. \E n \in S : \A m \in S : m <= n
  <2> SUFFICES ASSUME \A n \in S : \E m \in S : ~(m <= n) PROVE FALSE
    OBVIOUS
  <2> DEFINE T == {n \in Nat : \E m \in S : m > n}
  <2>0. PICK k \in S : TRUE
    OBVIOUS
  <2>1. 0 \in T
    BY <2>0
  <2>2. ASSUME NEW n \in Nat, n \in T
        PROVE  n + 1 \in T
    <3>1. PICK m \in S : m > n
      BY <2>2
    <3>2. PICK o \in S : ~(o <= m)
      BY <3>1
    <3>i. o \in Int /\ m \in Int
      BY <1>0
    <3>3. o > n + 1 /\ n + 1 \in Nat
      BY <3>1, <3>2, <3>i
    <3> QED
      BY <3>3
  <2> HIDE DEF T
  <2>3. L \in T
    BY <2>1, <2>2, EveryNatural
  <2> QED
    BY <2>3 DEF T
<1>2. \E n \in S : \A m \in S : n <= m
  <2> SUFFICES ASSUME \A n \in S : \E m \in S : ~(n <= m) PROVE FALSE
    OBVIOUS
  <2> DEFINE T == {n \in Nat : \E m \in S : m <= L - n}
  <2>0. PICK k \in S : TRUE
    OBVIOUS
  <2>1. 0 \in T
    BY <2>0
  <2>2. ASSUME NEW n \in Nat, n \in T
        PROVE  n + 1 \in T
    <3>1. PICK m \in S : m <= L - n
      BY <2>2
    <3>2. PICK o \in S : ~(m <= o)
      BY <3>1
    <3>i. o \in Int /\ m \in Int
      BY <1>0
    <3>3. o <= L - (n + 1) /\ n + 1 \in Nat
      BY <3>1, <3>2, <3>i
    <3> QED
      BY <3>3
  <2> HIDE DEF T
  <2>3. L \in T
    BY <2>1, <2>2, EveryNatural
  <2> QED
    BY <2>3 DEF T
<1> QED
  BY <1>1, <1>2 DEF Max, Min

\* The rows of a run are its sequences; its first row is an activity, and each row that
\* joins is the next one.
LEMMA PageRowFacts ==
  ASSUME RowsInv
  PROVE  /\ Len(rows) \in Nat /\ Len(rows) >= 1 /\ 1 \in Activities
         /\ Activities \subseteq 1..Len(rows) /\ Activities \subseteq Nat
         /\ IsFiniteSet(Activities) /\ Cardinality(Activities) \in Nat
         /\ Min(Activities) = 1
<1>1. Len(rows) \in Nat /\ Len(rows) >= 1 /\ 1 \in Activities
  BY LenProperties DEF RowsInv, Activities, RowSequences
<1>2. Activities \subseteq 1..Len(rows) /\ Activities \subseteq Nat
  BY <1>1 DEF Activities, RowSequences
<1>3. IsFiniteSet(Activities) /\ Cardinality(Activities) \in Nat
  <2>1. IsFiniteSet(1..Len(rows))
    BY <1>1, FS_Interval
  <2>2. IsFiniteSet(Activities)
    BY <1>2, <2>1, FS_Subset
  <2> QED
    BY <2>2, FS_CardinalityType
<1>4. \A n \in Activities : 1 <= n
  BY <1>1, <1>2
<1>5. \A n \in Activities : (\A m \in Activities : n <= m) <=> n = 1
  BY <1>1, <1>2, <1>4
<1>6. Min(Activities) = 1
  BY <1>1, <1>5 DEF Min
<1> QED
  BY <1>1, <1>2, <1>3, <1>6

\* The newest of some sequences of a run are none only if there are none, and leave out
\* no sequence between two of them or after one of them.
LEMMA LastRowsFacts ==
  ASSUME NEW L \in Nat, NEW S \in SUBSET (1..L), NEW limit \in Nat \ {0}
  PROVE  /\ LastRows(S, limit) \subseteq S
         /\ S # {} => LastRows(S, limit) # {}
         /\ \A n \in LastRows(S, limit) : \A m \in S : m >= n => m \in LastRows(S, limit)
<1>1. IsFiniteSet(S) /\ \A n \in S : /\ IsFiniteSet({m \in S : m > n})
                                     /\ Cardinality({m \in S : m > n}) \in Nat
  <2>1. IsFiniteSet(1..L)
    BY FS_Interval
  <2>2. ASSUME NEW T \in SUBSET S
        PROVE  IsFiniteSet(T) /\ Cardinality(T) \in Nat
    <3>1. IsFiniteSet(T)
      BY <2>1, FS_Subset
    <3> QED
      BY <3>1, FS_CardinalityType
  <2>3. \A n \in S : {m \in S : m > n} \in SUBSET S
    OBVIOUS
  <2> QED
    BY <2>2, <2>3
<1>2. S # {} => LastRows(S, limit) # {}
  <2> SUFFICES ASSUME S # {} PROVE LastRows(S, limit) # {}
    OBVIOUS
  <2>1. PICK n \in S : \A m \in S : m <= n
    BY FiniteHasGreatest
  <2>2. {m \in S : m > n} = {}
    <3>1. \A m \in S : ~(m > n)
      BY <2>1
    <3> QED
      BY <3>1
  <2>3. Cardinality({m \in S : m > n}) = 0
    BY <2>2, FS_EmptySet
  <2> QED
    BY <2>3 DEF LastRows
<1>3. ASSUME NEW n \in LastRows(S, limit), NEW m \in S, m >= n
      PROVE  m \in LastRows(S, limit)
  <2>1. n \in S /\ Cardinality({o \in S : o > n}) < limit
    BY DEF LastRows
  <2>2. {o \in S : o > m} \subseteq {o \in S : o > n}
    <3>1. \A o \in S : o > m => o > n
      BY <1>3, <2>1
    <3> QED
      BY <3>1
  <2>3. Cardinality({o \in S : o > m}) <= Cardinality({o \in S : o > n})
    BY <1>1, <2>1, <2>2, FS_Subset
  <2>4. Cardinality({o \in S : o > m}) < limit
    BY <1>1, <2>1, <2>3
  <2> QED
    BY <2>4 DEF LastRows
<1> QED
  BY <1>2, <1>3 DEF LastRows

\* The second query of an audit page answers a stretch: of the rows after a sequence the
\* first ones, or of all rows the newest (trading_run_audit_page).
LEMMA AuditRowsFacts ==
  ASSUME RowsInv
  PROVE  /\ \A after \in 0..(Len(rows) - 1) : \E c \in (after + 1)..Len(rows) :
              AuditRowsAfter(after) = Stretch(after + 1, c)
         /\ AuditRowsAfter(Len(rows)) = <<>>
         /\ \E a \in 1..Len(rows) : AuditTail = Stretch(a, Len(rows))
<1> DEFINE L == Len(rows)
<1>1. L \in Nat /\ L >= 1 /\ AuditLimit \in Nat /\ AuditLimit >= 1
  BY PageRowFacts, PagesAssumption
<1> HIDE DEF L
<1>2. ASSUME NEW after \in 0..(L - 1)
      PROVE  \E c \in (after + 1)..L : AuditRowsAfter(after) = Stretch(after + 1, c)
  <2> DEFINE c == IF L < after + AuditLimit THEN L ELSE after + AuditLimit
  <2>1. c \in (after + 1)..L
    BY <1>1
  <2>2. {n \in RowSequences : n > after} = (after + 1)..L
    BY <1>1 DEF RowSequences, L
  <2>3. ASSUME NEW n \in (after + 1)..L
        PROVE  Cardinality({m \in (after + 1)..L : m < n}) < AuditLimit <=> n <= c
    <3>1. {m \in (after + 1)..L : m < n} = (after + 1)..(n - 1)
      BY <1>1
    <3>2. Cardinality((after + 1)..(n - 1)) = IF after + 1 > n - 1 THEN 0 ELSE n - 1 - (after + 1) + 1
      BY FS_Interval
    <3>3. (IF after + 1 > n - 1 THEN 0 ELSE n - 1 - (after + 1) + 1) = n - 1 - after
      OBVIOUS
    <3>4. Cardinality({m \in (after + 1)..L : m < n}) = n - 1 - after
      BY <3>1, <3>2, <3>3, Zenon
    <3> QED
      BY <3>4, <1>1
  <2>4. FirstRows((after + 1)..L, AuditLimit) = (after + 1)..c
    BY <1>1, <2>1, <2>3 DEF FirstRows
  <2>5. Sorted((after + 1)..c) = Stretch(after + 1, c)
    <3>1. after + 1 \in Nat /\ c \in Nat /\ after + 1 <= c
      BY <1>1, <2>1
    <3> QED
      BY <3>1, SortedFacts
  <2> QED
    BY <2>1, <2>2, <2>4, <2>5 DEF AuditRowsAfter
<1>3. AuditRowsAfter(L) = <<>>
  <2>1. {n \in RowSequences : n > L} = {}
    BY <1>1 DEF RowSequences, L
  <2>2. FirstRows({}, AuditLimit) = {}
    BY DEF FirstRows
  <2> QED
    BY <2>1, <2>2, SortedFacts DEF AuditRowsAfter
<1>4. \E a \in 1..L : AuditTail = Stretch(a, L)
  <2> DEFINE a == IF L < AuditLimit THEN 1 ELSE L - AuditLimit + 1
  <2>1. a \in 1..L
    BY <1>1
  <2>2. ASSUME NEW n \in 1..L
        PROVE  Cardinality({m \in 1..L : m > n}) < AuditLimit <=> n >= a
    <3>1. {m \in 1..L : m > n} = (n + 1)..L
      BY <1>1
    <3>2. Cardinality((n + 1)..L) = IF n + 1 > L THEN 0 ELSE L - (n + 1) + 1
      BY <1>1, FS_Interval
    <3>3. (IF n + 1 > L THEN 0 ELSE L - (n + 1) + 1) = L - n
      BY <1>1
    <3>4. Cardinality({m \in 1..L : m > n}) = L - n
      BY <3>1, <3>2, <3>3, Zenon
    <3> QED
      BY <3>4, <1>1
  <2>3. LastRows(1..L, AuditLimit) = a..L
    BY <1>1, <2>1, <2>2 DEF LastRows
  <2>4. Sorted(a..L) = Stretch(a, L)
    <3>1. a \in Nat /\ a <= L
      BY <1>1, <2>1
    <3> QED
      BY <1>1, <3>1, SortedFacts
  <2> QED
    BY <2>1, <2>3, <2>4 DEF AuditTail, RowSequences, L
<1> QED
  BY <1>2, <1>3, <1>4 DEF L

\* There is nothing in a stretch that ends before it begins.
LEMMA EmptyStretch == Stretch(1, 0) = <<>>
<1>1. Stretch(1, 0) = [i \in 1..0 |-> 1 + i - 1] /\ 1..0 = {}
  BY DEF Stretch
<1>2. Stretch(1, 0) \in [1..0 -> Nat] /\ DOMAIN Stretch(1, 0) = {}
  BY <1>1
<1>3. Stretch(1, 0) \in Seq(Nat)
  BY <1>1, <1>2, IsASeq
<1>4. Len(Stretch(1, 0)) = 0
  BY <1>2, <1>3, LenProperties
<1> QED
  BY <1>3, <1>4, EmptySeq

\* What pages say of rows that were there before stays true when a row joins.
LEMMA RowJoins ==
  ASSUME PagesInv, NEW kind \in {"equity", "activity"}, AppendRow(kind)
  PROVE  PagesInv'
<1> USE DEF PagesInv
<1>1. /\ rows' = Append(rows, kind) /\ UNCHANGED <<audit, activity, request>>
      /\ Len(rows) < MaxRows /\ Len(rows) \in Nat /\ Len(rows) >= 1
  BY PageRowFacts DEF AppendRow
<1>2. /\ rows' \in Seq({"equity", "activity"}) /\ Len(rows') = Len(rows) + 1
      /\ rows'[Len(rows) + 1] = kind /\ \A n \in 1..Len(rows) : rows'[n] = rows[n]
  BY <1>1, AppendProperties DEF RowsInv
<1>3. RowsInv'
  BY <1>1, <1>2, PagesAssumption DEF RowsInv
<1>4. Activities' = IF kind = "equity" THEN Activities ELSE Activities \cup {Len(rows) + 1}
  <2>1. \A n \in 1..(Len(rows) + 1) :
          n \in Activities' <=> IF n = Len(rows) + 1 THEN kind # "equity" ELSE n \in Activities
    BY <1>1, <1>2 DEF Activities, RowSequences
  <2>2. Activities' \subseteq 1..(Len(rows) + 1) /\ Activities \subseteq 1..Len(rows)
    BY <1>1, <1>2 DEF Activities, RowSequences
  <2> QED
    <3>1. CASE kind = "equity"
      <4>1. \A n \in 1..(Len(rows) + 1) : n \in Activities' <=> n \in Activities
        BY <1>1, <2>1, <2>2, <3>1
      <4>2. Activities \subseteq 1..(Len(rows) + 1)
        BY <1>1, <2>2
      <4> QED
        BY <2>2, <3>1, <4>1, <4>2, Zenon
    <3>2. CASE kind # "equity"
      <4>1. \A n \in 1..(Len(rows) + 1) :
              n \in Activities' <=> n \in Activities \cup {Len(rows) + 1}
        BY <1>1, <2>1, <2>2, <3>2
      <4>2. Activities \cup {Len(rows) + 1} \subseteq 1..(Len(rows) + 1)
        <5>1. \A n \in Activities : n \in 1..(Len(rows) + 1)
          BY <1>1, <2>2
        <5>2. Len(rows) + 1 \in 1..(Len(rows) + 1)
          BY <1>1
        <5> QED
          BY <5>1, <5>2
      <4> QED
        <5>1. Activities' = {n \in 1..(Len(rows) + 1) : n \in Activities'}
          BY <2>2
        <5>2. Activities \cup {Len(rows) + 1}
                = {n \in 1..(Len(rows) + 1) : n \in Activities \cup {Len(rows) + 1}}
          BY <4>2, Zenon
        <5> QED
          BY <3>2, <4>1, <5>1, <5>2
    <3> QED
      BY <3>1, <3>2
<1>5. Suppressed' >= Suppressed /\ Suppressed \in Int /\ Suppressed' \in Int
  <2>1. IsFiniteSet(Activities) /\ Cardinality(Activities) \in Nat /\ Len(rows) + 1 \notin Activities
    BY <1>1, PageRowFacts
  <2>2. Cardinality(Activities \cup {Len(rows) + 1}) = Cardinality(Activities) + 1
    BY <2>1, FS_AddElement
  <2>3. Cardinality(Activities') \in {Cardinality(Activities), Cardinality(Activities) + 1}
    BY <1>4, <2>2
  <2>4. Suppressed' = Len(rows') - Cardinality(Activities')
    BY DEF Suppressed
  <2> QED
    BY <1>1, <1>2, <2>1, <2>3, <2>4 DEF Suppressed
<1>6. AuditInv'
  <2>1. audit.events # <<>> => Last(audit.events) \in Int
    BY LenProperties, EmptySeq DEF AuditInv, Last
  <2> QED
    BY <1>1, <1>2, <2>1 DEF AuditInv, Stretch
<1>7. ActivityInv'
  <2>1. activity.items # {} => Max(activity.items) \in 1..Len(rows)
    BY <1>1, PageRowFacts, FiniteHasGreatest DEF ActivityInv
  <2>2. activity.items # {} =>
          {n \in Activities' : n >= activity.oldest /\ n <= Max(activity.items)}
            = {n \in Activities : n >= activity.oldest /\ n <= Max(activity.items)}
    BY <1>1, <1>4, <2>1
  <2>3. activity.items \subseteq Activities'
    BY <1>4 DEF ActivityInv
  <2>4. activity.items # {} => activity.suppressed <= Suppressed'
    BY <1>5 DEF ActivityInv
  <2> QED
    BY <1>1, <2>2, <2>3, <2>4 DEF ActivityInv
<1>8. RequestInv'
  BY <1>1, <1>2, <1>5 DEF RequestInv, Kinds, AuditKinds, Stretch
<1> QED
  BY <1>3, <1>6, <1>7, <1>8

\* A request asks for what follows or precedes what the console has.
LEMMA RequestAsked ==
  ASSUME PagesInv, AskTail \/ AskNewer \/ AskComplete \/ AskNewest \/ AskOlder
  PROVE  PagesInv'
<1> USE DEF PagesInv
<1>1. UNCHANGED <<rows, audit, activity>>
  BY DEF AskTail, AskNewer, AskComplete, AskNewest, AskOlder, Ask
<1>2. RowsInv' /\ AuditInv' /\ ActivityInv'
  BY <1>1 DEF RowsInv, AuditInv, ActivityInv, Activities, RowSequences, Suppressed, Stretch
<1>3. /\ Len(rows) \in Nat /\ Len(rows) >= 1 /\ Cardinality(Activities) \in Nat
      /\ Activities # {} /\ Min(Activities) = 1
  BY PageRowFacts
<1>4. AuditCounts = [total |-> Len(rows), min |-> 1, max |-> Len(rows)]
  BY DEF AuditCounts
<1>5. ActivityCounts = [total |-> Cardinality(Activities), canonical |-> Len(rows), min |-> 1]
  BY <1>3 DEF ActivityCounts
<1>6. CASE AskTail
  <2>1. request' = [kind |-> "tail", asked |-> None, counts |-> AuditCounts, got |-> <<>>]
    BY <1>6 DEF AskTail, Ask
  <2> QED
    BY <1>1, <1>2, <1>3, <1>4, <2>1 DEF RequestInv, Kinds, AuditKinds
<1>7. CASE AskNewer
  <2>1. /\ request' = [kind |-> "append", counts |-> AuditCounts, got |-> <<>>,
                       asked |-> IF audit.events = <<>> THEN 0 ELSE Last(audit.events)]
        /\ audit.full
    BY <1>7 DEF AskNewer, Ask
  <2> QED
    BY <1>1, <1>2, <1>3, <1>4, <2>1 DEF RequestInv, Kinds, AuditKinds
<1>8. CASE AskComplete
  <2>1. request' = [kind |-> "complete", asked |-> 0, counts |-> AuditCounts, got |-> <<>>]
    BY <1>8 DEF AskComplete, Ask
  <2>2. Stretch(1, 0) = <<>>
    BY EmptyStretch
  <2>3. Stretch(1, request.asked)' = Stretch(1, 0) /\ 0 \in 0..Len(rows)
    BY <1>3, <2>1 DEF Stretch
  <2> QED
    BY <1>1, <1>2, <1>3, <1>4, <2>1, <2>2, <2>3 DEF RequestInv, Kinds, AuditKinds
<1>9. CASE AskNewest
  <2>1. request' = [kind |-> "newest", asked |-> None, counts |-> ActivityCounts, got |-> <<>>]
    BY <1>9 DEF AskNewest, Ask
  <2> QED
    BY <1>1, <1>2, <1>3, <1>5, <2>1
       DEF RequestInv, Kinds, AuditKinds, Suppressed, Activities, RowSequences
<1>10. CASE AskOlder
  <2>1. /\ request' = [kind |-> "older", asked |-> activity.oldest, counts |-> ActivityCounts,
                       got |-> <<>>]
        /\ activity.hasMore
    BY <1>10 DEF AskOlder, Ask
  <2>2. activity.items # {} /\ activity.oldest > 1
    BY <2>1 DEF ActivityInv
  <2> QED
    BY <1>1, <1>2, <1>3, <1>5, <2>1, <2>2
       DEF RequestInv, Kinds, AuditKinds, Suppressed, Activities, RowSequences
<1> QED
  BY <1>6, <1>7, <1>8, <1>9, <1>10

\* A stretch and the one that goes on after it are one stretch.
LEMMA StretchesJoin ==
  ASSUME NEW b \in Nat, NEW c \in Nat, b + 1 <= c
  PROVE  Stretch(1, b) \o Stretch(b + 1, c) = Stretch(1, c)
<1>1. /\ Stretch(b + 1, c) \in Seq(Nat) /\ Len(Stretch(b + 1, c)) = c - b
      /\ \A i \in 1..(c - b) : Stretch(b + 1, c)[i] = b + i
  <2>1. /\ Stretch(b + 1, c) \in Seq(Nat) /\ Len(Stretch(b + 1, c)) = c - (b + 1) + 1
        /\ \A i \in 1..(c - (b + 1) + 1) : Stretch(b + 1, c)[i] = b + 1 + i - 1
    <3>1. b + 1 \in Nat
      OBVIOUS
    <3> QED
      BY <3>1, StretchFacts
  <2> QED
    BY <2>1
<1>2. /\ Stretch(1, c) \in Seq(Nat) /\ Len(Stretch(1, c)) = c
      /\ \A i \in 1..c : Stretch(1, c)[i] = i
  <2>1. /\ Stretch(1, c) \in Seq(Nat) /\ Len(Stretch(1, c)) = c - 1 + 1
        /\ \A i \in 1..(c - 1 + 1) : Stretch(1, c)[i] = 1 + i - 1
    <3>1. 1 \in Nat /\ 1 <= c
      OBVIOUS
    <3> QED
      BY <3>1, StretchFacts
  <2> QED
    BY <2>1
<1>3. CASE b = 0
  <2>1. Stretch(1, b) = <<>> /\ b + 1 = 1
    BY <1>3, EmptyStretch
  <2>2. <<>> \o Stretch(1, c) = Stretch(1, c)
    BY <1>2, ConcatEmptySeq
  <2> QED
    BY <2>1, <2>2
<1>4. CASE b >= 1
  <2>1. /\ Stretch(1, b) \in Seq(Nat) /\ Len(Stretch(1, b)) = b
        /\ \A i \in 1..b : Stretch(1, b)[i] = i
    <3>1. /\ Stretch(1, b) \in Seq(Nat) /\ Len(Stretch(1, b)) = b - 1 + 1
          /\ \A i \in 1..(b - 1 + 1) : Stretch(1, b)[i] = 1 + i - 1
      BY <1>4, StretchFacts
    <3> QED
      BY <3>1
  <2> DEFINE s == Stretch(1, b)
             t == Stretch(b + 1, c)
  <2>2. /\ s \in Seq(Nat) /\ t \in Seq(Nat) /\ Len(s) = b /\ Len(t) = c - b
        /\ \A i \in 1..b : s[i] = i
        /\ \A i \in 1..(c - b) : t[i] = b + i
    BY <1>1, <2>1
  <2> HIDE DEF s, t
  <2>3. /\ s \o t \in Seq(Nat) /\ Len(s \o t) = b + (c - b)
        /\ \A i \in 1..(b + (c - b)) : (s \o t)[i] = IF i <= b THEN s[i] ELSE t[i - b]
    BY <2>2, ConcatProperties
  <2>4. ASSUME NEW i \in 1..c
        PROVE  (s \o t)[i] = i
    <3>1. (s \o t)[i] = IF i <= b THEN s[i] ELSE t[i - b]
      BY <2>3
    <3>2. CASE i <= b
      BY <2>2, <3>1, <3>2
    <3>3. CASE i > b
      <4>1. i - b \in 1..(c - b) /\ b + (i - b) = i /\ ~(i <= b)
        BY <3>3
      <4> QED
        BY <2>2, <3>1, <4>1
    <3>4. i <= b \/ i > b
      OBVIOUS
    <3> QED
      BY <3>2, <3>3, <3>4, Zenon
  <2>5. Len(s \o t) = c
    BY <2>3
  <2>6. s \o t = Stretch(1, c)
    BY <1>2, <2>3, <2>4, <2>5, SeqEqual
  <2> QED
    BY <2>6 DEF s, t
<1> QED
  BY <1>3, <1>4

\* The answer of an audit request is a stretch that goes on where the console asked.
LEMMA AuditAnswered ==
  ASSUME PagesInv, AnswerTail \/ AnswerNewer \/ AnswerComplete \/ CountNextPage
  PROVE  PagesInv'
<1> USE DEF PagesInv
<1>1. UNCHANGED <<rows, activity>>
  BY DEF AnswerTail, AnswerNewer, AnswerComplete, CountNextPage
<1>2. RowsInv' /\ ActivityInv'
  BY <1>1 DEF RowsInv, ActivityInv, Activities, RowSequences, Suppressed
<1>3. Len(rows) \in Nat /\ Len(rows) >= 1
  BY PageRowFacts
<1>n. request' = NoRequest => RequestInv'
  BY DEF RequestInv, NoRequest, Kinds, AuditKinds
\* The new list, when it ends where the page ended or the list before.
<1>a. ASSUME NEW a \in 1..Len(rows), NEW b \in a..Len(rows), NEW total \in Nat,
             NEW full \in BOOLEAN, NEW more \in BOOLEAN,
             audit' = [events |-> Stretch(a, b), total |-> total, full |-> full,
                       hasMore |-> more],
             full => a = 1, more \/ b >= total
      PROVE  AuditInv'
  <2>1. a \in Nat /\ b \in Nat /\ a <= b
    BY <1>3
  <2> DEFINE s == Stretch(a, b)
  <2>2. s \in Seq(Nat) /\ Head(s) = a /\ Last(s) = b /\ s # <<>>
    BY <2>1, StretchFacts
  <2>3. s = Stretch(Head(s), Last(s))
    BY <2>2
  <2> HIDE DEF s
  <2>4. audit' = [events |-> s, total |-> total, full |-> full, hasMore |-> more]
    BY <1>a DEF s
  <2>5. audit' \in [events : Seq(Nat), total : Nat, full : BOOLEAN, hasMore : BOOLEAN]
    BY <2>2, <2>4
  <2>6. Head(audit.events)' = a /\ Last(audit.events)' = b
    BY <2>2, <2>4 DEF Last
  <2>7. Stretch(Head(audit.events), Last(audit.events))' = s
    BY <2>2, <2>3, <2>6 DEF Stretch
  <2> QED
    BY <1>1, <1>3, <1>a, <2>1, <2>2, <2>4, <2>5, <2>6, <2>7 DEF AuditInv
<1>4. CASE AnswerTail
  <2> DEFINE page == AuditPage(AuditTail, request.counts)
  <2>1. /\ request.kind = "tail" /\ request' = NoRequest
        /\ audit' = [events |-> page.events, total |-> page.total,
                     full |-> ~page.hasEarlier, hasMore |-> page.hasMore]
    BY <1>4 DEF AnswerTail
  <2>2. /\ request.counts.min = 1 /\ request.counts.max = request.counts.total
        /\ request.counts.total \in 1..Len(rows)
    BY <2>1 DEF RequestInv, AuditKinds
  <2>3. PICK a \in 1..Len(rows) : AuditTail = Stretch(a, Len(rows))
    BY AuditRowsFacts
  <2>4. /\ Head(AuditTail) = a /\ Last(AuditTail) = Len(rows) /\ AuditTail # <<>>
    <3>1. a \in Nat /\ a <= Len(rows)
      BY <1>3
    <3> QED
      BY <1>3, <2>3, <3>1, StretchFacts
  <2>5. /\ page.events = Stretch(a, Len(rows)) /\ page.total = request.counts.total
        /\ page.hasEarlier = (a > 1) /\ page.hasMore = (Len(rows) < request.counts.total)
    BY <2>2, <2>3, <2>4 DEF AuditPage
  <2> HIDE DEF page
  <2> DEFINE full == ~(a > 1)
             more == Len(rows) < request.counts.total
  <2>f. full = ~page.hasEarlier
    BY <2>5
  <2>r. audit' = [events |-> Stretch(a, Len(rows)), total |-> request.counts.total,
                  full |-> full, hasMore |-> more]
    BY <2>1, <2>5, <2>f, Zenon
  <2>g. full \in BOOLEAN /\ (full => a = 1) /\ more \in BOOLEAN
    BY <1>3
  <2> HIDE DEF full, more
  <2>6. /\ Len(rows) \in a..Len(rows) /\ request.counts.total \in Nat
        /\ Len(rows) >= request.counts.total
    BY <1>3, <2>2
  <2>7. AuditInv'
    BY <1>a, <2>r, <2>g, <2>6
  <2> QED
    BY <1>2, <1>n, <2>1, <2>7
<1>5. CASE AnswerNewer
  <2> DEFINE page == AuditPage(AuditRowsAfter(request.asked), request.counts)
             before == IF audit.events = <<>> THEN 0 ELSE Last(audit.events)
  <2>1. /\ request.kind = "append" /\ request' = NoRequest
        /\ audit' = [events |-> Sorted(Range(audit.events) \cup Range(page.events)),
                     total |-> page.total, full |-> audit.full, hasMore |-> page.hasMore]
    BY <1>5 DEF AnswerNewer, AuditInv
  <2>2. /\ request.counts.min = 1 /\ request.counts.max = request.counts.total
        /\ request.counts.total \in 1..Len(rows)
        /\ audit.full = TRUE /\ request.asked = before
    BY <2>1 DEF RequestInv, AuditKinds, AuditInv
  <2>3. before \in 0..Len(rows) /\ Range(audit.events) = 1..before
    <3>1. CASE audit.events = <<>>
      BY <1>3, <3>1 DEF Range
    <3>2. CASE audit.events # <<>>
      <4>1. /\ Head(audit.events) = 1 /\ before = Last(audit.events) /\ before \in Nat
            /\ 1 <= before /\ before <= Len(rows) /\ audit.events = Stretch(1, before)
        <5>1. Last(audit.events) \in Nat
          BY <3>2, LenProperties, ElementOfSeq, EmptySeq DEF AuditInv, Last
        <5> QED
          BY <2>2, <3>2, <5>1 DEF AuditInv
      <4> HIDE DEF before
      <4>2. Range(audit.events) = 1..before
        BY <4>1, StretchFacts
      <4> QED
        BY <1>3, <4>1, <4>2
    <3> QED
      BY <3>1, <3>2
  <2> HIDE DEF before
  <2>4. CASE before = Len(rows)
    <3>1. AuditRowsAfter(request.asked) = <<>>
      BY <2>2, <2>4, AuditRowsFacts
    <3>2. page.events = <<>> /\ page.total = request.counts.total /\ page.hasMore = FALSE
      BY <3>1 DEF AuditPage
    <3>3. Range(page.events) = {}
      BY <3>2 DEF Range
    <3> HIDE DEF page
    <3>4. Range(audit.events) \cup Range(page.events) = 1..Len(rows)
      BY <2>3, <2>4, <3>3
    <3>5. Sorted(Range(audit.events) \cup Range(page.events)) = Stretch(1, Len(rows))
      BY <1>3, <3>4, SortedFacts
    <3>r. audit' = [events |-> Stretch(1, Len(rows)), total |-> request.counts.total,
                    full |-> TRUE, hasMore |-> FALSE]
      BY <2>1, <2>2, <3>2, <3>5, Zenon
    <3>6. /\ 1 \in 1..Len(rows) /\ Len(rows) \in 1..Len(rows)
          /\ request.counts.total \in Nat /\ Len(rows) >= request.counts.total
      BY <1>3, <2>2
    <3>7. AuditInv'
      BY <1>a, <3>r, <3>6
    <3> QED
      BY <1>2, <1>n, <2>1, <3>7
  <2>5. CASE before < Len(rows)
    <3>1. PICK c \in (before + 1)..Len(rows) :
            AuditRowsAfter(request.asked) = Stretch(before + 1, c)
      <4>1. before \in 0..(Len(rows) - 1)
        BY <1>3, <2>3, <2>5
      <4> QED
        BY <2>2, <4>1, AuditRowsFacts
    <3>2. before \in Nat /\ before + 1 \in Nat /\ c \in Nat /\ before + 1 <= c
      BY <1>3, <2>3
    <3>3. /\ Stretch(before + 1, c) # <<>> /\ Last(Stretch(before + 1, c)) = c
          /\ Range(Stretch(before + 1, c)) = (before + 1)..c
      BY <3>2, StretchFacts
    <3>4. /\ page.events = Stretch(before + 1, c) /\ page.total = request.counts.total
          /\ page.hasMore = (c < request.counts.total)
      BY <2>2, <3>1, <3>3 DEF AuditPage
    <3> HIDE DEF page
    <3>5. Range(audit.events) \cup Range(page.events) = 1..c
      <4>1. (1..before) \cup ((before + 1)..c) = 1..c
        BY <3>2
      <4> QED
        BY <2>3, <3>3, <3>4, <4>1
    <3>6. Sorted(Range(audit.events) \cup Range(page.events)) = Stretch(1, c)
      <4>1. 1 <= c /\ 1 \in Nat
        BY <3>2
      <4> QED
        BY <3>2, <3>5, <4>1, SortedFacts
    <3> DEFINE more == c < request.counts.total
    <3>r. audit' = [events |-> Stretch(1, c), total |-> request.counts.total,
                    full |-> TRUE, hasMore |-> more]
      BY <2>1, <2>2, <3>4, <3>6, Zenon
    <3>m. more \in BOOLEAN /\ (more \/ c >= request.counts.total)
      BY <2>2, <3>2
    <3> HIDE DEF more
    <3>7. 1 \in 1..Len(rows) /\ c \in 1..Len(rows) /\ request.counts.total \in Nat
      BY <1>3, <2>2, <3>2
    <3>8. AuditInv'
      BY <1>a, <3>r, <3>m, <3>7
    <3> QED
      BY <1>2, <1>n, <2>1, <3>8
  <2> QED
    BY <1>3, <2>3, <2>4, <2>5
<1>6. CASE AnswerComplete
  <2> DEFINE page == AuditPage(AuditRowsAfter(request.asked), request.counts)
             all == request.got \o page.events
             asked == request.asked
  <2>1. /\ request.kind = "complete"
        /\ IF page.hasMore
           THEN /\ request' = [request EXCEPT !.kind = "next", !.asked = page.last, !.got = all]
                /\ UNCHANGED audit
           ELSE /\ audit' = [events |-> all, total |-> page.total, full |-> TRUE,
                             hasMore |-> FALSE]
                /\ request' = NoRequest
    BY <1>6 DEF AnswerComplete
  <2>2. /\ request.counts.min = 1 /\ request.counts.max = request.counts.total
        /\ request.counts.total \in 1..Len(rows)
        /\ asked \in 0..Len(rows) /\ request.got = Stretch(1, asked)
    BY <2>1 DEF RequestInv, AuditKinds
  <2>3. CASE asked = Len(rows)
    <3>1. AuditRowsAfter(request.asked) = <<>>
      BY <2>3, AuditRowsFacts
    <3>2. page.events = <<>> /\ page.total = request.counts.total /\ page.hasMore = FALSE
      BY <3>1 DEF AuditPage
    <3>3. all = Stretch(1, Len(rows))
      <4>1. Stretch(1, Len(rows)) \in Seq(Nat)
        BY <1>3, StretchFacts
      <4> QED
        BY <2>2, <2>3, <3>2, <4>1, ConcatEmptySeq
    <3> HIDE DEF page, all
    <3>4. /\ audit' = [events |-> Stretch(1, Len(rows)), total |-> request.counts.total,
                       full |-> TRUE, hasMore |-> FALSE]
          /\ 1 \in 1..Len(rows) /\ Len(rows) \in 1..Len(rows)
          /\ request.counts.total \in Nat /\ Len(rows) >= request.counts.total
      BY <1>3, <2>1, <2>2, <3>2, <3>3
    <3>5. AuditInv'
      BY <1>a, <3>4
    <3> QED
      BY <1>2, <1>n, <2>1, <3>2, <3>5
  <2>4. CASE asked < Len(rows)
    <3> HIDE DEF asked
    <3>0. request.asked = asked
      BY DEF asked
    <3>1. PICK c \in (asked + 1)..Len(rows) :
            AuditRowsAfter(request.asked) = Stretch(asked + 1, c)
      <4>1. asked \in 0..(Len(rows) - 1)
        BY <1>3, <2>2, <2>4
      <4> QED
        BY <3>0, <4>1, AuditRowsFacts
    <3>2. asked \in Nat /\ asked + 1 \in Nat /\ c \in Nat /\ asked + 1 <= c
      BY <1>3, <2>2
    <3>3. Stretch(asked + 1, c) # <<>> /\ Last(Stretch(asked + 1, c)) = c
      BY <3>2, StretchFacts
    <3>4. /\ page.events = Stretch(asked + 1, c) /\ page.total = request.counts.total
          /\ page.hasMore = (c < request.counts.total) /\ page.last = c
      BY <2>2, <3>1, <3>3 DEF AuditPage
    <3>5. all = Stretch(1, c)
      BY <2>2, <3>2, <3>4, StretchesJoin
    <3> HIDE DEF page, all
    <3>6. CASE ~page.hasMore
      <4>r. audit' = [events |-> Stretch(1, c), total |-> request.counts.total,
                      full |-> TRUE, hasMore |-> FALSE]
        BY <2>1, <3>4, <3>5, <3>6, Zenon
      <4>0. ~(c < request.counts.total)
        BY <3>4, <3>6, Zenon
      <4>1. /\ 1 \in 1..Len(rows) /\ c \in 1..Len(rows)
            /\ request.counts.total \in Nat /\ c >= request.counts.total
        BY <1>3, <2>2, <3>2, <4>0
      <4>2. AuditInv'
        BY <1>a, <4>r, <4>1
      <4> QED
        BY <1>2, <1>n, <2>1, <3>6, <4>2
    <3>7. CASE page.hasMore
      <4>1. /\ request' = [kind |-> "next", asked |-> c, counts |-> request.counts, got |-> all]
            /\ UNCHANGED audit
        BY <2>1, <3>4, <3>7 DEF RequestInv
      <4>2. AuditInv'
        BY <1>1, <4>1 DEF AuditInv, Stretch
      <4>3. Stretch(1, request.asked)' = Stretch(1, c)
        BY <4>1 DEF Stretch
      <4>4. RequestInv'
        BY <1>1, <1>3, <3>2, <3>5, <4>1, <4>3 DEF RequestInv, Kinds, AuditKinds
      <4> QED
        BY <1>2, <4>2, <4>4
    <3> QED
      BY <3>6, <3>7
  <2> QED
    BY <1>3, <2>2, <2>3, <2>4
<1>7. CASE CountNextPage
  <2>1. /\ request.kind = "next" /\ UNCHANGED <<rows, audit, activity>>
        /\ request' = [kind |-> "complete", asked |-> request.asked, counts |-> AuditCounts,
                       got |-> request.got]
    BY <1>7 DEF CountNextPage, RequestInv
  <2>2. AuditCounts = [total |-> Len(rows), min |-> 1, max |-> Len(rows)]
    BY DEF AuditCounts
  <2>3. AuditInv'
    BY <2>1 DEF AuditInv, Stretch
  <2>4. Stretch(1, request.asked)' = Stretch(1, request.asked)
    BY <2>1 DEF Stretch
  <2>5. RequestInv'
    BY <1>3, <2>1, <2>2, <2>4 DEF RequestInv, Kinds, AuditKinds
  <2> QED
    BY <1>2, <2>3, <2>5
<1> QED
  BY <1>4, <1>5, <1>6, <1>7

\* The answer of an activity request is every activity from its oldest on, and an older
\* page joins the list where it was asked for.
LEMMA ActivityAnswered ==
  ASSUME PagesInv, AnswerActivity
  PROVE  PagesInv'
<1> USE DEF PagesInv
<1> DEFINE page == ActivityPage(ActivityRows(request.asked), request.counts)
           got == ActivityRows(request.asked)
           items == IF request.kind = "older" THEN activity.items \cup page.items ELSE page.items
           L == Len(rows)
<1>1. /\ request.kind \in {"newest", "older"} /\ request' = NoRequest
      /\ activity' = [items |-> items, suppressed |-> page.suppressed,
                      oldest |-> page.oldest, hasMore |-> page.hasMore]
      /\ UNCHANGED <<rows, audit>>
  BY DEF AnswerActivity
<1>2. RowsInv' /\ AuditInv' /\ RequestInv'
  BY <1>1 DEF RowsInv, AuditInv, Stretch, RequestInv, NoRequest, Kinds, AuditKinds
<1>3. /\ L \in Nat /\ L >= 1 /\ 1 \in Activities /\ Activities \subseteq 1..L
      /\ Activities' = Activities /\ Suppressed' = Suppressed
  BY <1>1, PageRowFacts DEF Activities, RowSequences, Suppressed
<1>t. \A n \in Activities : n \in Nat
  BY <1>3
<1>4. /\ request.counts.min = 1
      /\ request.counts.canonical - request.counts.total \in Int
      /\ request.counts.canonical - request.counts.total <= Suppressed
  BY <1>1 DEF RequestInv
<1> DEFINE S == {n \in Activities : request.asked = None \/ n < request.asked}
\* What the second query reads: not empty, and without a gap.
<1>5. S # {} /\ S \in SUBSET (1..L)
  <2>1. request.kind = "older" => request.asked > 1 /\ request.asked \in Nat
    BY DEF RequestInv, ActivityInv
  <2>2. request.kind = "newest" => request.asked = None
    BY DEF RequestInv
  <2> QED
    BY <1>1, <1>3, <2>1, <2>2
<1>6. /\ got \subseteq S /\ got # {}
      /\ \A n \in got : \A m \in S : m >= n => m \in got
  <2>1. got = LastRows(S, ActivityLimit)
    BY DEF ActivityRows
  <2>2. ActivityLimit \in Nat \ {0}
    BY PagesAssumption
  <2> HIDE DEF got, S, L
  <2>3. L \in Nat
    BY <1>3
  <2> QED
    BY <1>5, <2>1, <2>2, <2>3, LastRowsFacts
<1>7. Min(got) \in got /\ \A n \in got : Min(got) <= n
  <2>1. got \in SUBSET (1..L)
    BY <1>5, <1>6
  <2> HIDE DEF got, S, L
  <2> QED
    BY <1>3, <1>6, <2>1, FiniteHasGreatest
<1>8. /\ page.items = got /\ page.oldest = Min(got)
      /\ page.suppressed = request.counts.canonical - request.counts.total
      /\ page.hasMore = (Min(got) > 1)
  <2> HIDE DEF got, S
  <2>1. page = ActivityPage(got, request.counts)
    BY DEF got
  <2> HIDE DEF page
  <2>2. /\ page.items = got /\ page.oldest = Min(got)
        /\ page.suppressed = request.counts.canonical - request.counts.total
    BY <1>6, <2>1 DEF ActivityPage
  <2>3. page.hasMore = (Min(got) > 1)
    BY <1>4, <1>6, <2>1 DEF ActivityPage, None
  <2> QED
    BY <2>2, <2>3
<1> HIDE DEF page, got
<1>9. got \subseteq Activities /\ Min(got) \in Nat /\ Min(got) >= 1
  <2>1. got \subseteq Activities
    BY <1>6
  <2>2. Min(got) \in 1..L
    BY <1>3, <1>7, <2>1
  <2> QED
    BY <1>3, <2>1, <2>2
\* The list is the stretch of activities from the page's oldest to its own newest.
<1>10. /\ items \subseteq Activities /\ items # {} /\ Min(got) \in items
       /\ Max(items) \in items /\ \A n \in items : n <= Max(items)
  <2>1. items \subseteq Activities /\ items # {} /\ Min(got) \in items
    BY <1>6, <1>7, <1>8, <1>9 DEF ActivityInv
  <2>2. items \in SUBSET (1..L)
    BY <1>3, <2>1
  <2> HIDE DEF items, S, L
  <2> QED
    BY <1>3, <2>1, <2>2, FiniteHasGreatest
<1>11. \A n \in Activities : n >= Min(got) /\ n <= Max(items) => n \in items
  <2> SUFFICES ASSUME NEW n \in Activities, n >= Min(got), n <= Max(items)
               PROVE  n \in items
    OBVIOUS
  <2>1. n \in Nat
    BY <1>3
  <2>2. CASE n \in S
    BY <1>6, <1>7, <1>8, <2>2
  <2>3. CASE n \notin S
    <3>1. /\ request.kind = "older" /\ request.asked = activity.oldest /\ n >= activity.oldest
          /\ activity.items # {} /\ activity.oldest \in Nat
      BY <1>1, <2>1, <2>3 DEF RequestInv, ActivityInv
    <3>2. /\ activity.oldest \in activity.items /\ activity.items \subseteq Activities
          /\ activity.items = {m \in Activities : m >= activity.oldest /\ m <= Max(activity.items)}
      BY <3>1 DEF ActivityInv
    <3>3. Max(activity.items) \in activity.items /\ \A m \in activity.items : m <= Max(activity.items)
      <4>1. activity.items \in SUBSET (1..L)
        BY <1>3, <3>2
      <4> HIDE DEF items, S, L
      <4> QED
        BY <1>3, <3>1, <4>1, FiniteHasGreatest
    <3>4. \A m \in got : m \in Nat /\ m < activity.oldest
      BY <1>3, <1>6, <3>1 DEF None, RequestInv
    <3>5. Max(items) <= Max(activity.items)
      <4>1. items = activity.items \cup got
        BY <1>8, <3>1
      <4>2. Max(items) \in activity.items \/ Max(items) \in got
        BY <1>10, <4>1
      <4>3. Max(activity.items) \in Nat /\ activity.oldest <= Max(activity.items)
        <5>1. Max(activity.items) \in Activities
          BY <3>2, <3>3
        <5>2. activity.oldest <= Max(activity.items)
          BY <3>2, <3>3
        <5> QED
          BY <1>t, <5>1, <5>2
      <4> HIDE DEF items
      <4> QED
        BY <3>1, <3>3, <3>4, <4>2, <4>3
    <3>6. Max(items) \in Nat /\ Max(activity.items) \in Nat
      <4>1. Max(activity.items) \in Activities /\ Max(items) \in Activities
        <5> HIDE DEF items
        <5> QED
          BY <1>10, <3>2, <3>3
      <4> HIDE DEF items
      <4> QED
        BY <1>t, <4>1
    <3>7. n <= Max(activity.items)
      BY <2>1, <3>5, <3>6
    <3>8. n \in activity.items
      BY <3>1, <3>2, <3>7
    <3> QED
      BY <3>1, <3>8
  <2> QED
    BY <2>2, <2>3
<1>12. \A n \in items : n >= Min(got)
  <2> SUFFICES ASSUME NEW n \in items PROVE n >= Min(got)
    OBVIOUS
  <2>1. CASE n \in got
    BY <1>3, <1>7, <1>9, <2>1
  <2>2. CASE n \notin got
    <3>1. request.kind = "older" /\ n \in activity.items
      BY <1>8, <2>2
    <3>2. request.asked = activity.oldest /\ activity.items # {} /\ activity.oldest > 1
          /\ activity.oldest \in Nat
      BY <3>1 DEF RequestInv, ActivityInv
    <3>3. n >= activity.oldest /\ n \in Nat
      BY <1>3, <3>1 DEF ActivityInv
    <3>4. Min(got) < activity.oldest
      BY <1>6, <1>7, <3>2 DEF None
    <3> QED
      BY <1>9, <3>2, <3>3, <3>4
  <2> QED
    BY <2>1, <2>2
<1>13. items = {n \in Activities : n >= Min(got) /\ n <= Max(items)}
  <2> HIDE DEF items
  <2> QED
    BY <1>10, <1>11, <1>12
<1>14. ActivityInv'
  <2> DEFINE more == Min(got) > 1
             old == Min(got)
             gone == request.counts.canonical - request.counts.total
  <2> HIDE DEF items, S, L
  <2>1. activity' = [items |-> items, suppressed |-> gone, oldest |-> old, hasMore |-> more]
    BY <1>1, <1>8, Zenon
  <2>2. more \in BOOLEAN /\ (~more => old = 1) /\ (more => old > 1)
    BY <1>9
  <2>3. gone \in Int /\ gone <= Suppressed /\ old \in Nat /\ items \in SUBSET Nat
    BY <1>3, <1>4, <1>9, <1>10
  <2>4. items = {n \in Activities : n >= old /\ n <= Max(items)}
    BY <1>13
  <2>5. /\ old \in items /\ items # {} /\ items \subseteq Activities
    BY <1>10
  <2> HIDE DEF more, old, gone
  <2>6. Max(activity.items)' = Max(items)
    BY <2>1 DEF Max
  <2>7. activity' \in [items : SUBSET Nat, suppressed : Int, oldest : Nat, hasMore : BOOLEAN]
    BY <2>1, <2>2, <2>3
  <2> QED
    BY <1>3, <2>1, <2>2, <2>3, <2>4, <2>5, <2>6, <2>7 DEF ActivityInv
<1> QED
  BY <1>2, <1>14

\* Every step of the reads and of the run they read, or none, keeps the invariant.
LEMMA PagesStep ==
  ASSUME PagesInv, [PagesNext]_pagesVars
  PROVE  PagesInv'
<1>1. CASE UNCHANGED pagesVars
  BY <1>1 DEF pagesVars, PagesInv, RowsInv, AuditInv, ActivityInv, RequestInv, Activities,
              RowSequences, Suppressed, Stretch
<1>2. ASSUME NEW kind \in {"equity", "activity"}, AppendRow(kind)
      PROVE  PagesInv'
  BY <1>2, RowJoins
<1>3. CASE AskTail \/ AskNewer \/ AskComplete \/ AskNewest \/ AskOlder
  BY <1>3, RequestAsked
<1>4. CASE AnswerTail \/ AnswerNewer \/ AnswerComplete \/ CountNextPage
  BY <1>4, AuditAnswered
<1>5. CASE AnswerActivity
  BY <1>5, ActivityAnswered
<1> QED
  BY <1>1, <1>2, <1>3, <1>4, <1>5 DEF PagesNext

\* PagesInv is an invariant of a run seen from its three sides: what the console's lists and
\* its request in flight hold, whatever rows joined since the first query of the page
\* (storage/runs/read.rs:283, 384, web/trading.js loadActivity and loadCompleteAudit).
THEOREM PagesAreInvariant == Spec => []PagesInv
<1>1. Init => PagesInv
  <2> SUFFICES ASSUME PagesInit PROVE PagesInv
    BY DEF Init
  <2> USE PagesAssumption DEF PagesInit
  <2>1. rows \in Seq({"equity", "activity"}) /\ Len(rows) = 1 /\ rows[1] = "activity"
    OBVIOUS
  <2>2. RowsInv
    BY <2>1 DEF RowsInv
  <2>3. <<>> \in Seq(Nat)
    BY EmptySeq
  <2>4. AuditInv
    BY <2>3 DEF AuditInv
  <2>5. ActivityInv
    BY DEF ActivityInv, None
  <2>6. RequestInv
    BY DEF RequestInv, NoRequest, Kinds, AuditKinds
  <2> QED
    BY <2>2, <2>4, <2>5, <2>6 DEF PagesInv
<1>2. PagesInv /\ [Next]_vars => PagesInv'
  <2> SUFFICES ASSUME PagesInv, [Next]_vars PROVE PagesInv'
    OBVIOUS
  <2>1. [PagesNext]_pagesVars
    BY DEF Next, Recording, Streaming, Paging, vars
  <2> QED
    BY <2>1, PagesStep
<1> QED
  BY <1>1, <1>2, PTL DEF Spec

\* However pages and new rows interleave, the audit is an unbroken run of sequences and the
\* activity list every activity from its oldest to its newest, each from the first when the
\* console says nothing precedes it (storage/runs/read.rs:283, 384).
THEOREM PagesStayWhole == Spec => []PagesAreWhole
<1>1. PagesInv => PagesAreWhole
  <2> SUFFICES ASSUME PagesInv PROVE PagesAreWhole
    OBVIOUS
  <2>1. Min(Activities) = 1
    BY PageRowFacts DEF PagesInv
  <2> QED
    BY <2>1 DEF PagesInv, AuditInv, ActivityInv, PagesAreWhole, Suppressed
<1> QED
  BY <1>1, PagesAreInvariant, PTL

-----------------------------------------------------------------------------
(* The run's own records, and every side at once *)

\* RecordsInv is an invariant of a run seen from its three sides: what its actor accounts,
\* aggregates and has still to write, after every trade, minute, restart and finalization
\* (paper.rs process_trade, process_kline_close, finish, trading/portfolio.rs).
THEOREM RecordsAreInvariant == Spec => []RecordsInv
<1>1. Init => RecordsInv
  BY RecordsStart DEF Init
<1>2. RecordsInv /\ [Next]_vars => RecordsInv'
  <2> SUFFICES ASSUME RecordsInv, [Next]_vars PROVE RecordsInv'
    OBVIOUS
  <2>1. [RecordsNext]_recordsVars
    BY DEF Next, Recording, Streaming, Paging, vars
  <2> QED
    BY <2>1, RecordsStep
<1> QED
  BY <1>1, <1>2, PTL DEF Spec

\* Every account a run writes is that of the fills written before it, whatever sequence of
\* fills opens, closes or crosses the position, and between two events the rows alone tell
\* what the actor holds (portfolio.rs:29, paper.rs:1104, paper.rs:682, storage/runs/read.rs).
THEOREM BooksStayBalanced == Spec => []BooksBalance
<1>1. RecordsInv => BooksBalance
  BY InvBalances
<1> QED
  BY <1>1, RecordsAreInvariant, PTL

\* The grid starts from the candle that closed at the replay boundary, which is the preview
\* of the same bucket; the candles the strategy then sees are consecutive buckets with every
\* minute in them, from the first full minute of the run on (paper.rs:310, paper.rs:1420).
THEOREM StrategyIsShownWholeBuckets == Spec => []StrategySeesWholeBuckets
<1>1. RecordsInv => StrategySeesWholeBuckets
  BY InvShowsWholeBuckets
<1> QED
  BY <1>1, RecordsAreInvariant, PTL

\* The console's lists hold sequences of rows the run has.
LEMMA PagesAreTyped ==
  ASSUME PagesInv
  PROVE  PagesTypeOK
<1>1. audit.events \in Seq(RowSequences)
  <2>1. CASE audit.events = <<>>
    BY <2>1, EmptySeq
  <2>2. CASE audit.events # <<>>
    <3>1. PICK a \in Nat, b \in Nat :
            1 <= a /\ a <= b /\ b <= Len(rows) /\ audit.events = Stretch(a, b)
      <4>1. audit.events \in Seq(Nat)
        BY DEF PagesInv, AuditInv
      <4>2. Head(audit.events) \in Nat /\ Last(audit.events) \in Nat
        BY <2>2, <4>1, LenProperties DEF Last
      <4> QED
        BY <2>2, <4>2 DEF PagesInv, AuditInv
    <3> QED
      BY <3>1, PageRowFacts DEF PagesInv, RowsInv, RowSequences, Stretch
  <2> QED
    BY <2>1, <2>2
<1> QED
  BY <1>1 DEF PagesInv, RowsInv, AuditInv, ActivityInv, RequestInv, Kinds, PagesTypeOK

\* The rows, orders, messages and pages of a run stay of the kinds the code keeps, on each
\* of its three sides (paper.rs, api/trading.rs, storage/runs/read.rs, web/trading.js).
THEOREM SidesTypeCorrect == Spec => []TypeOK
<1>1. RecordsInv /\ StreamInv /\ PagesInv => TypeOK
  BY InvIsTyped, PagesAreTyped DEF StreamInv, TypeOK
<1> QED
  BY <1>1, RecordsAreInvariant, StreamIsInvariant, PagesAreInvariant, PTL
=============================================================================
