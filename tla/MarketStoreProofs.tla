------------------------- MODULE MarketStoreProofs --------------------------
(***************************************************************************)
(* What a live capture and the Data Downloader keep in the market tables,  *)
(* for every set of streams and messages, every queue capacity, start date *)
(* and number of runs (Capture and Archive, composed in MCMarketStore;     *)
(* src/collector.rs, src/storage/mod.rs, src/downloader.rs).               *)
(***************************************************************************)
EXTENDS MCMarketStore, FiniteSetTheorems, SequenceTheorems, NaturalsInduction,
        WellFoundedInduction, TLAPS

Commands ==
  {EventCommand(m) : m \in Messages} \cup {FinishCommand(s) : s \in {"completed", "failed"}}

\* The status the collector asks for: connected no longer changes then.
FinishStatus == IF connected > 0 THEN "completed" ELSE "failed"

\* The writer holds the command that its state is about, and its queue ends with it.
WriterInv ==
  /\ queue \in Seq(Commands)
  /\ writer \in {"inserting", "failing"} => \E m \in Messages : command = EventCommand(m)
  /\ writer = "finishing" => queue = <<>>
  /\ writer \in {"absent", "receiving", "ok", "error"} => command = NoCommand
  /\ WriterGone => queue = <<>>
  /\ collector = "starting" => writer = "absent"
  /\ writer = "absent" => /\ collector \in {"starting", "error"} /\ queue = <<>>
                          /\ \A s \in Streams : reader[s] = "connecting" /\ taken[s] = 0

\* The events of a stream come to the writer in the order they were recorded in.
OrderInv ==
  /\ \A m \in Messages :
       command = EventCommand(m) \/ (\E i \in 1..Len(queue) : queue[i] = EventCommand(m))
         => m[2] <= taken[m[1]]
  /\ \A m, o \in Messages : \A j \in 1..Len(queue) :
       m[1] = o[1] /\ queue[j] = EventCommand(o)
         /\ (command = EventCommand(m) \/ \E i \in 1..(j - 1) : queue[i] = EventCommand(m))
         => m[2] < o[2]
  /\ \A s \in Streams : reader[s] = "recording" => taken[s] < Len(KindOf[s])

\* Nothing that was recorded is lost while the writer is there.
KeptInv ==
  ~WriterGone =>
    \A s \in Streams : \A n \in 1..taken[s] :
      \/ <<s, n>> \in events
      \/ command = EventCommand(<<s, n>>)
      \/ \E i \in 1..Len(queue) : queue[i] = EventCommand(<<s, n>>)

\* The finish is the last command of the capture, sent when no reader is left.
FinishInv ==
  /\ \A i \in 1..Len(queue) : queue[i][1] = "finish" =>
       i = Len(queue) /\ collector = "awaiting" /\ queue[i] = FinishCommand(FinishStatus)
  /\ writer = "finishing" => collector = "awaiting" /\ command = FinishCommand(FinishStatus)
  /\ collector \in {"finishing", "awaiting", "answered", "ok"} =>
       \A s \in Streams : reader[s] = "ended"
  /\ collector = "answered" => session = FinishStatus /\ writer = "ok"
  /\ session = "completed" => WriterGone /\ \A s \in Streams : reader[s] = "ended"

\* A stream is counted once, when its reader has left "connecting".
ConnectedInv ==
  connected <= Cardinality({s \in Streams : reader[s] # "connecting"})

CaptureInv ==
  /\ CaptureTypeOK /\ WriterInv /\ OrderInv /\ KeptInv /\ FinishInv /\ ConnectedInv
  /\ CaptureIsWhole

-----------------------------------------------------------------------------
(* Messages, commands and rows *)

\* A message is a stream's n-th one.
LEMMA MessageFacts ==
  /\ \A m \in Messages : /\ m = <<m[1], m[2]>> /\ m[1] \in Streams /\ m[2] \in Nat /\ m[2] >= 1
                         /\ m[2] <= Len(KindOf[m[1]])
  /\ \A s \in Streams : \A n \in Nat : n >= 1 /\ n <= Len(KindOf[s]) => <<s, n>> \in Messages
  /\ \A s \in Streams : Len(KindOf[s]) \in Nat
<1>1. \A s \in Streams : Len(KindOf[s]) \in Nat
  BY CaptureAssumption, LenProperties
<1>2. ASSUME NEW m \in Messages
      PROVE  /\ m = <<m[1], m[2]>> /\ m[1] \in Streams /\ m[2] \in Nat /\ m[2] >= 1
             /\ m[2] <= Len(KindOf[m[1]])
  <2>1. PICK s \in Streams : m \in {<<s, n>> : n \in 1..Len(KindOf[s])}
    BY DEF Messages
  <2>2. PICK n \in 1..Len(KindOf[s]) : m = <<s, n>>
    BY <2>1
  <2>3. m[1] = s /\ m[2] = n
    BY <2>2
  <2> QED
    BY <2>2, <2>3, <1>1
<1>3. ASSUME NEW s \in Streams, NEW n \in Nat, n >= 1, n <= Len(KindOf[s])
      PROVE  <<s, n>> \in Messages
  <2>1. n \in 1..Len(KindOf[s])
    BY <1>1, <1>3
  <2> QED
    BY <2>1 DEF Messages
<1> QED
  BY <1>1, <1>2, <1>3

\* The commands of the channel are told apart (WriteCommand).
LEMMA CommandFacts ==
  /\ \A m, o : EventCommand(m) = EventCommand(o) => m = o
  /\ \A m : EventCommand(m)[1] = "event" /\ EventCommand(m)[2] = m
  /\ \A s : FinishCommand(s)[1] = "finish" /\ FinishCommand(s)[2] = s
  /\ \A m, s : EventCommand(m) # FinishCommand(s)
  /\ \A m : EventCommand(m) # NoCommand
  /\ \A s : FinishCommand(s) # NoCommand
  /\ \A c \in Commands : \/ c[1] = "event" /\ \E m \in Messages : c = EventCommand(m)
                         \/ c[1] = "finish" /\ \E s : c = FinishCommand(s)
<1>1. /\ \A m : EventCommand(m)[1] = "event" /\ EventCommand(m)[2] = m
      /\ \A s : FinishCommand(s)[1] = "finish" /\ FinishCommand(s)[2] = s
      /\ NoCommand[1] = "none"
  BY DEF EventCommand, FinishCommand, NoCommand
<1> QED
  BY <1>1 DEF Commands

\* The kind of a message is one of the four the writer has a table for.
LEMMA KindFacts ==
  ASSUME NEW m \in Messages
  PROVE  Kind(m) \in Kinds
<1>1. m[1] \in Streams /\ m[2] \in 1..Len(KindOf[m[1]])
  BY MessageFacts
<1>2. KindOf[m[1]] \in Seq(Kinds)
  BY <1>1, CaptureAssumption
<1> QED
  BY <1>1, <1>2, ElementOfSeq DEF Kind

\* The typed rows of an event are its own, and a trade's is written unless its id is known
\* (insert_event).
LEMMA TypedRowsFacts ==
  ASSUME NEW m \in Messages, NEW rows
  PROVE  /\ \A row \in TypedRows(m, rows) : row[2] = m
         /\ Kind(m) # "trade" => /\ TypedRows(m, rows) = TypedRows(m, {})
                                 /\ \A row \in TypedRows(m, rows) : row[1] # "live_trades"
         /\ Kind(m) = "trade" =>
              \A row \in TypedRows(m, rows) :
                /\ row = <<"live_trades", m, TradeOf[m[1]][m[2]]>>
                /\ \A other \in rows : ~(other[1] = "live_trades" /\ other[3] = row[3])
<1>1. CASE Kind(m) = "kline"
  BY <1>1 DEF TypedRows, KlineRows
<1>2. CASE Kind(m) = "book_ticker"
  BY <1>2 DEF TypedRows, BookTickerRows
<1>3. CASE Kind(m) = "depth"
  BY <1>3 DEF TypedRows, DepthRows, DepthLevelRow
<1>4. CASE Kind(m) = "trade"
  <2>1. TypedRows(m, rows) = TradeRows(m, rows)
    BY <1>4 DEF TypedRows
  <2>2. \A row \in TradeRows(m, rows) :
          /\ row = <<"live_trades", m, TradeOf[m[1]][m[2]]>> /\ row[2] = m
          /\ row[3] = TradeOf[m[1]][m[2]]
          /\ ~\E other \in rows : other[1] = "live_trades" /\ other[3] = TradeOf[m[1]][m[2]]
    BY DEF TradeRows
  <2> QED
    BY <1>4, <2>1, <2>2
<1> QED
  BY <1>1, <1>2, <1>3, <1>4, KindFacts DEF Kinds

-----------------------------------------------------------------------------
(* The channel *)

\* Taking the head of the channel moves every other command up one place.
LEMMA QueueTail ==
  ASSUME queue \in Seq(Commands), queue # <<>>, command' = Head(queue), queue' = Tail(queue)
  PROVE  /\ queue' \in Seq(Commands) /\ Len(queue) \in Nat /\ Len(queue) >= 1
         /\ Len(queue') = Len(queue) - 1 /\ Len(queue') \in Nat
         /\ command' = queue[1] /\ command' \in Commands
         /\ \A i \in 1..Len(queue') : queue'[i] = queue[i + 1] /\ i + 1 \in 1..Len(queue)
         /\ \A i \in 1..Len(queue) : i = 1 \/ (i - 1 \in 1..Len(queue') /\ queue'[i - 1] = queue[i])
<1>1. Len(queue) \in Nat /\ Len(queue) >= 1
  BY EmptySeq
<1>2. /\ queue' \in Seq(Commands) /\ Len(queue') = Len(queue) - 1 /\ command' \in Commands
      /\ \A i \in 1..Len(queue') : queue'[i] = queue[i + 1]
  BY HeadTailProperties
<1>3. command' = queue[1]
  BY DEF Head
<1> QED
  BY <1>1, <1>2, <1>3

\* A command that is sent goes behind the others.
LEMMA QueueAppend ==
  ASSUME queue \in Seq(Commands), NEW c \in Commands, queue' = Append(queue, c)
  PROVE  /\ queue' \in Seq(Commands) /\ Len(queue) \in Nat /\ Len(queue') = Len(queue) + 1
         /\ queue'[Len(queue) + 1] = c
         /\ \A i \in 1..Len(queue) : queue'[i] = queue[i] /\ i \in 1..Len(queue')
         /\ \A i \in 1..Len(queue') : i = Len(queue) + 1 \/ i \in 1..Len(queue)
<1>1. Len(queue) \in Nat
  BY LenProperties
<1>2. /\ queue' \in Seq(Commands) /\ Len(queue') = Len(queue) + 1
      /\ queue'[Len(queue) + 1] = c /\ \A i \in 1..Len(queue) : queue'[i] = queue[i]
  BY <1>1, AppendProperties
<1> QED
  BY <1>1, <1>2

-----------------------------------------------------------------------------
(* The inductive invariant of a capture *)

\* Which steps touch the channel, the writer's command and what was recorded.
LEMMA CaptureFrame ==
  ASSUME CaptureInv, [CaptureNext]_captureVars
  PROVE  \/ WriterReceives \/ InsertEvent \/ WriterFails \/ FinishCapture
         \/ StartCapture \/ SendFinish \/ CollectorReturns \/ CaptureCrash
         \/ \E s \in Streams : Connect(s) \/ Read(s) \/ Record(s)
         \/ /\ UNCHANGED <<captureRows, connected, taken, captureThread>>
            /\ reader' \in [Streams -> {"connecting", "reading", "recording", "ended"}]
            /\ \A s \in Streams :
                 \/ reader'[s] = reader[s]
                 \/ reader'[s] = "ended" /\ (reader[s] = "reading" \/ collector = "joining")
            /\ \/ collector' = collector
               \/ UNCHANGED reader /\ collector = "sleeping" /\ collector' = "joining"
               \/ /\ UNCHANGED reader /\ collector = "joining" /\ collector' = "finishing"
                  /\ \A s \in Streams : reader[s] = "ended"
               \/ /\ UNCHANGED reader /\ collector = "awaiting" /\ collector' = "error"
                  /\ writer = "error"
<1>1. CASE UNCHANGED captureVars
  BY <1>1 DEF captureVars, captureTasks, CaptureInv, CaptureTypeOK
<1>2. CASE DurationElapses \/ JoinReaders \/ AnswerLost
  BY <1>2 DEF DurationElapses, JoinReaders, AnswerLost, CaptureInv, CaptureTypeOK
<1>3. ASSUME NEW s \in Streams, Disconnect(s) \/ Aborted(s)
      PROVE  /\ UNCHANGED <<captureRows, connected, taken, captureThread>>
             /\ reader' \in [Streams -> {"connecting", "reading", "recording", "ended"}]
             /\ \A t \in Streams :
                  \/ reader'[t] = reader[t]
                  \/ reader'[t] = "ended" /\ (reader[t] = "reading" \/ collector = "joining")
             /\ collector' = collector
  BY <1>3 DEF Disconnect, Aborted, CaptureInv, CaptureTypeOK
<1> QED
  BY <1>1, <1>2, <1>3 DEF CaptureNext, WriterStep, CollectorStep, ReaderStep

\* A reader that records has a message of its stream in hand.
LEMMA RecordedMessage ==
  ASSUME CaptureInv, NEW s \in Streams, reader[s] = "recording"
  PROVE  /\ taken[s] \in Nat /\ <<s, taken[s] + 1>> \in Messages
         /\ EventCommand(<<s, taken[s] + 1>>) \in Commands
<1>1. taken[s] \in Nat /\ taken[s] < Len(KindOf[s]) /\ Len(KindOf[s]) \in Nat
  BY MessageFacts DEF CaptureInv, CaptureTypeOK, OrderInv
<1>2. <<s, taken[s] + 1>> \in Messages
  BY <1>1, MessageFacts
<1> QED
  BY <1>1, <1>2 DEF Commands

\* The writer's command is an event of the capture while it inserts.
LEMMA InsertedMessage ==
  ASSUME CaptureInv, writer = "inserting"
  PROVE  command[2] \in Messages /\ command = EventCommand(command[2])
<1>1. PICK m \in Messages : command = EventCommand(m)
  BY DEF CaptureInv, WriterInv
<1> QED
  BY <1>1, CommandFacts

\* Every step of a capture keeps the types of its state.
LEMMA CaptureTypeStays ==
  ASSUME CaptureInv, [CaptureNext]_captureVars
  PROVE  CaptureTypeOK'
<1> USE DEF CaptureInv
<1>t. CaptureTypeOK /\ queue \in Seq(Commands)
  BY DEF WriterInv
<1>q. Len(queue) \in Nat /\ QueueCapacity \in Nat /\ QueueCapacity >= 1
  BY <1>t, LenProperties, CaptureAssumption
<1>e. Len(<<>>) = 0
  BY EmptySeq
<1>1. CASE WriterReceives
  <2>1. Len(queue') <= QueueCapacity
    BY <1>1, <1>t, <1>q, QueueTail DEF WriterReceives, CaptureTypeOK
  <2> QED
    BY <1>1, <2>1 DEF WriterReceives, CaptureTypeOK, captureRows, captureTasks
<1>2. CASE InsertEvent
  <2>1. events' \subseteq Messages
    BY <1>2, InsertedMessage DEF InsertEvent, CaptureTypeOK
  <2> QED
    BY <1>2, <2>1 DEF InsertEvent, CaptureTypeOK, captureTasks
<1>3. CASE WriterFails
  BY <1>3, <1>q, <1>e DEF WriterFails, CaptureTypeOK, captureTasks
<1>4. CASE FinishCapture
  <2>1. command[2] \in {"completed", "failed"}
    BY <1>4, CommandFacts DEF FinishCapture, FinishInv, FinishStatus
  <2> QED
    BY <1>4, <2>1 DEF FinishCapture, CaptureTypeOK, Returned
<1>5. CASE StartCapture
  BY <1>5 DEF StartCapture, CaptureTypeOK, Returned
<1>6. CASE SendFinish
  <2>1. CASE Len(queue) < QueueCapacity /\ queue' = Append(queue, FinishCommand(FinishStatus))
             /\ collector' = "awaiting"
    <3>1. FinishCommand(FinishStatus) \in Commands
      BY DEF Commands, FinishStatus
    <3>2. Len(queue') <= QueueCapacity
      BY <2>1, <3>1, <1>t, <1>q, QueueAppend
    <3> QED
      BY <1>6, <2>1, <3>2 DEF SendFinish, CaptureTypeOK, captureRows
  <2>2. CASE collector' = "error" /\ UNCHANGED queue
    BY <1>6, <2>2 DEF SendFinish, CaptureTypeOK, captureRows, Returned
  <2> QED
    BY <1>6, <2>1, <2>2 DEF SendFinish, FinishStatus
<1>7. CASE CollectorReturns
  BY <1>7 DEF CollectorReturns, CaptureTypeOK, Returned, captureRows, captureThread
<1>8. CASE CaptureCrash
  BY <1>8, <1>q, <1>e DEF CaptureCrash, CaptureTypeOK, Returned, captureRows
<1>9. ASSUME NEW s \in Streams, Connect(s)
      PROVE  CaptureTypeOK'
  <2>1. connected' \in 0..Cardinality(Streams)
    <3> DEFINE Left == {t \in Streams : reader[t] # "connecting"}
    <3>1. IsFiniteSet(Left) /\ Cardinality(Left) \in Nat /\ Cardinality(Streams) \in Nat
      BY CaptureAssumption, FS_Subset, FS_CardinalityType
    <3>2. s \notin Left /\ IsFiniteSet(Left \cup {s}) /\ Cardinality(Left \cup {s}) = Cardinality(Left) + 1
      BY <1>9, <3>1, FS_AddElement DEF Connect
    <3>3. Cardinality(Left \cup {s}) <= Cardinality(Streams)
      BY CaptureAssumption, FS_Subset
    <3>4. connected \in Nat /\ connected <= Cardinality(Left)
      BY <3>1 DEF CaptureTypeOK, ConnectedInv
    <3>5. connected' = connected \/ connected' = connected + 1
      BY <1>9 DEF Connect
    <3> QED
      BY <3>1, <3>2, <3>3, <3>4, <3>5
  <2> QED
    BY <1>9, <2>1 DEF Connect, CaptureTypeOK, captureRows, captureThread
<1>10. ASSUME NEW s \in Streams, Read(s)
       PROVE  CaptureTypeOK'
  BY <1>10 DEF Read, CaptureTypeOK, captureRows, captureThread
<1>11. ASSUME NEW s \in Streams, Record(s)
       PROVE  CaptureTypeOK'
  <2>1. taken[s] \in Nat /\ EventCommand(<<s, taken[s] + 1>>) \in Commands
    BY <1>11, RecordedMessage DEF Record
  <2>2. Len(queue') <= QueueCapacity
    BY <1>11, <2>1, <1>t, <1>q, QueueAppend DEF Record, CaptureTypeOK
  <2>3. taken' \in [Streams -> Nat]
    BY <1>11, <2>1 DEF Record, CaptureTypeOK
  <2>4. reader' \in [Streams -> {"connecting", "reading", "recording", "ended"}]
    BY <1>11 DEF Record, CaptureTypeOK
  <2> QED
    BY <1>11, <2>2, <2>3, <2>4 DEF Record, CaptureTypeOK, captureRows
<1>12. ASSUME UNCHANGED <<captureRows, connected, taken, captureThread>>,
              reader' \in [Streams -> {"connecting", "reading", "recording", "ended"}],
              collector' \in {collector, "joining", "finishing", "error"}
       PROVE  CaptureTypeOK'
  BY <1>12 DEF CaptureTypeOK, captureRows, captureThread, Returned
<1> QED
  BY <1>1, <1>2, <1>3, <1>4, <1>5, <1>6, <1>7, <1>8, <1>9, <1>10, <1>11, <1>12, CaptureFrame

\* Every step leaves the writer with the command its state is about.
LEMMA WriterStays ==
  ASSUME CaptureInv, [CaptureNext]_captureVars
  PROVE  WriterInv'
<1> USE DEF CaptureInv
<1>q. queue \in Seq(Commands) /\ <<>> \in Seq(Commands)
  BY EmptySeq DEF WriterInv
<1>1. CASE WriterReceives
  <2>1. /\ queue' \in Seq(Commands) /\ Len(queue') = Len(queue) - 1 /\ Len(queue') \in Nat
        /\ command' = queue[1] /\ command' \in Commands /\ Len(queue) \in Nat /\ Len(queue) >= 1
    BY <1>1, <1>q, QueueTail DEF WriterReceives
  <2>2. command'[1] # "event" => queue' = <<>>
    <3> SUFFICES ASSUME command'[1] # "event" PROVE queue' = <<>>
      OBVIOUS
    <3>2. queue[1][1] = "finish"
      BY <2>1, CommandFacts
    <3>3. Len(queue) = 1
      BY <3>2, <2>1 DEF FinishInv
    <3> QED
      BY <3>3, <2>1, EmptySeq
  <2>3. command'[1] = "event" => \E m \in Messages : command' = EventCommand(m)
    BY <2>1, CommandFacts
  <2>4. /\ writer' = IF command'[1] = "event" THEN "inserting" ELSE "finishing"
        /\ UNCHANGED <<collector, reader, taken>> /\ writer = "receiving"
    BY <1>1 DEF WriterReceives, captureTasks
  <2> QED
    BY <2>1, <2>2, <2>3, <2>4 DEF WriterInv, WriterGone
<1>2. CASE InsertEvent
  BY <1>2 DEF InsertEvent, WriterInv, WriterGone, captureTasks
<1>3. CASE WriterFails
  BY <1>3, <1>q DEF WriterFails, WriterInv, WriterGone, captureTasks
<1>4. CASE FinishCapture
  BY <1>4 DEF FinishCapture, WriterInv, WriterGone
<1>5. CASE StartCapture
  BY <1>5 DEF StartCapture, WriterInv, WriterGone
<1>6. CASE SendFinish
  <2>1. writer # "absent" /\ collector' # "starting" /\ UNCHANGED <<writer, command, reader, taken>>
    BY <1>6 DEF SendFinish, WriterInv
  <2>2. FinishCommand(FinishStatus) \in Commands
    BY DEF Commands, FinishStatus
  <2>3. CASE UNCHANGED queue
    BY <2>1, <2>3 DEF WriterInv, WriterGone
  <2>4. CASE ~WriterGone /\ queue' = Append(queue, FinishCommand(FinishStatus))
    <3>1. queue' \in Seq(Commands)
      BY <2>2, <2>4, <1>q, QueueAppend
    <3>2. writer # "finishing"
      BY <1>6 DEF SendFinish, FinishInv
    <3> QED
      BY <2>1, <2>4, <3>1, <3>2 DEF WriterInv, WriterGone
  <2> QED
    BY <1>6, <2>3, <2>4 DEF SendFinish, FinishStatus
<1>7. CASE CollectorReturns
  BY <1>7 DEF CollectorReturns, WriterInv, WriterGone, captureRows, captureThread
<1>8. CASE CaptureCrash
  BY <1>8, <1>q DEF CaptureCrash, WriterInv, WriterGone
<1>9. ASSUME NEW s \in Streams, Connect(s)
      PROVE  WriterInv'
  BY <1>9 DEF Connect, WriterInv, WriterGone, captureRows, captureThread
<1>10. ASSUME NEW s \in Streams, Read(s)
       PROVE  WriterInv'
  BY <1>10 DEF Read, WriterInv, WriterGone, captureRows, captureThread, CaptureTypeOK
<1>11. ASSUME NEW s \in Streams, Record(s)
       PROVE  WriterInv'
  <2>1. writer # "absent" /\ UNCHANGED <<writer, command, collector>> /\ reader[s] = "recording"
    BY <1>11 DEF Record, WriterInv
  <2>2. EventCommand(<<s, taken[s] + 1>>) \in Commands
    BY <2>1, RecordedMessage
  <2>3. CASE UNCHANGED queue
    BY <2>1, <2>3 DEF WriterInv, WriterGone
  <2>4. CASE ~WriterGone /\ queue' = Append(queue, EventCommand(<<s, taken[s] + 1>>))
    <3>1. queue' \in Seq(Commands)
      BY <2>2, <2>4, <1>q, QueueAppend
    <3>2. writer # "finishing"
      BY <2>1 DEF FinishInv
    <3> QED
      BY <2>1, <2>4, <3>1, <3>2 DEF WriterInv, WriterGone
  <2> QED
    BY <1>11, <2>3, <2>4 DEF Record
<1>12. ASSUME UNCHANGED <<captureRows, connected, taken, captureThread>>,
              \A s \in Streams :
                \/ reader'[s] = reader[s]
                \/ reader'[s] = "ended" /\ (reader[s] = "reading" \/ collector = "joining"),
              \/ collector' = collector
              \/ UNCHANGED reader /\ collector # "starting" /\ collector' # "starting"
                 /\ writer # "absent"
       PROVE  WriterInv'
  <2>1. ASSUME writer = "absent", NEW s \in Streams
        PROVE  reader'[s] = reader[s]
    BY <1>12, <2>1 DEF WriterInv
  <2> QED
    BY <1>12, <2>1 DEF WriterInv, WriterGone, captureRows, captureThread
<1> QED
  BY <1>1, <1>2, <1>3, <1>4, <1>5, <1>6, <1>7, <1>8, <1>9, <1>10, <1>11, <1>12, CaptureFrame
     DEF WriterInv

\* Every step keeps a stream's events in order in the channel.
LEMMA OrderStays ==
  ASSUME CaptureInv, [CaptureNext]_captureVars
  PROVE  OrderInv'
<1> USE DEF CaptureInv
<1>q. /\ queue \in Seq(Commands) /\ Len(queue) \in Nat
      /\ \A m \in Messages : m[1] \in Streams /\ m[2] \in Nat
      /\ \A s \in Streams : taken[s] \in Nat
  BY LenProperties, MessageFacts DEF WriterInv, CaptureTypeOK
<1>s. ASSUME UNCHANGED <<queue, taken>>, command' \in {command, NoCommand},
             \A s \in Streams : reader'[s] = "recording" => taken[s] < Len(KindOf[s])
      PROVE  OrderInv'
  BY <1>s, CommandFacts DEF OrderInv
<1>c. ASSUME queue' = <<>>, command' = NoCommand, UNCHANGED taken,
             \A s \in Streams : reader'[s] = "recording" => reader[s] = "recording"
      PROVE  OrderInv'
  <2>1. Len(queue') = 0
    BY <1>c, EmptySeq
  <2> QED
    BY <1>c, <2>1, CommandFacts DEF OrderInv
<1>1. CASE WriterReceives
  <2>1. /\ UNCHANGED <<taken, reader>> /\ command' = Head(queue) /\ queue' = Tail(queue)
        /\ queue # <<>>
    BY <1>1 DEF WriterReceives, captureTasks
  <2>2. /\ command' = queue[1] /\ Len(queue) >= 1 /\ Len(queue') = Len(queue) - 1
        /\ \A i \in 1..Len(queue') : queue'[i] = queue[i + 1] /\ i + 1 \in 1..Len(queue)
    BY <2>1, <1>q, QueueTail
  <2>3. ASSUME NEW m \in Messages,
               (command = EventCommand(m) \/ \E i \in 1..Len(queue) : queue[i] = EventCommand(m))'
        PROVE  m[2] <= taken'[m[1]]
    <3>1. \E i \in 1..Len(queue) : queue[i] = EventCommand(m)
      BY <2>2, <2>3, <1>q
    <3> QED
      BY <3>1, <2>1 DEF OrderInv
  <2>4. ASSUME NEW m \in Messages, NEW o \in Messages, NEW j \in 1..Len(queue'),
               m[1] = o[1], queue'[j] = EventCommand(o),
               command' = EventCommand(m) \/ \E i \in 1..(j - 1) : queue'[i] = EventCommand(m)
        PROVE  m[2] < o[2]
    <3>1. j + 1 \in 1..Len(queue) /\ queue[j + 1] = EventCommand(o) /\ j \in Nat /\ j >= 1
      BY <2>2, <2>4, <1>q
    <3>2. \E i \in 1..((j + 1) - 1) : queue[i] = EventCommand(m)
      <4>1. CASE command' = EventCommand(m)
        BY <4>1, <2>2, <3>1
      <4>2. ASSUME NEW i \in 1..(j - 1), queue'[i] = EventCommand(m)
            PROVE  i + 1 \in 1..((j + 1) - 1) /\ queue[i + 1] = EventCommand(m)
        <5>1. i \in 1..Len(queue') /\ i + 1 \in 1..((j + 1) - 1)
          BY <2>4, <3>1, <1>q
        <5> QED
          BY <2>2, <4>2, <5>1
      <4> QED
        BY <2>4, <4>1, <4>2
    <3> QED
      BY <2>4, <3>1, <3>2 DEF OrderInv
  <2> QED
    BY <2>1, <2>3, <2>4 DEF OrderInv
<1>2. CASE InsertEvent
  BY <1>2, <1>s DEF InsertEvent, captureTasks, OrderInv
<1>3. CASE WriterFails \/ CaptureCrash
  BY <1>3, <1>c DEF WriterFails, CaptureCrash, captureTasks
<1>4. CASE FinishCapture \/ StartCapture \/ CollectorReturns
  BY <1>4, <1>s DEF FinishCapture, StartCapture, CollectorReturns, captureThread, OrderInv
<1>5. CASE SendFinish
  <2>1. UNCHANGED <<taken, command, reader>>
    BY <1>5 DEF SendFinish
  <2>2. CASE UNCHANGED queue
    BY <2>1, <2>2, <1>s DEF OrderInv
  <2>3. CASE queue' = Append(queue, FinishCommand(FinishStatus))
    <3>1. FinishCommand(FinishStatus) \in Commands
      BY DEF Commands, FinishStatus
    <3>2. /\ queue'[Len(queue) + 1] = FinishCommand(FinishStatus)
          /\ \A i \in 1..Len(queue) : queue'[i] = queue[i]
          /\ \A i \in 1..Len(queue') : i = Len(queue) + 1 \/ i \in 1..Len(queue)
      BY <2>3, <3>1, <1>q, QueueAppend
    <3>3. \A m \in Messages : \A i \in 1..Len(queue') :
            queue'[i] = EventCommand(m) => i \in 1..Len(queue) /\ queue[i] = EventCommand(m)
      BY <3>2, CommandFacts
    <3>4. \A j \in 1..Len(queue) : \A i \in 1..(j - 1) : i \in 1..Len(queue)
      BY <1>q
    <3> QED
      BY <2>1, <3>2, <3>3, <3>4 DEF OrderInv
  <2> QED
    BY <1>5, <2>2, <2>3 DEF SendFinish, FinishStatus
<1>6. ASSUME NEW s \in Streams, Connect(s) \/ Read(s)
      PROVE  OrderInv'
  BY <1>6, <1>s DEF Connect, Read, captureThread, OrderInv, CaptureTypeOK
<1>7. ASSUME NEW s \in Streams, Record(s)
      PROVE  OrderInv'
  <2>1. UNCHANGED command /\ reader[s] = "recording"
    BY <1>7 DEF Record
  <2>2. CASE UNCHANGED <<queue, taken>> /\ reader' = [reader EXCEPT ![s] = "ended"]
    BY <2>1, <2>2, <1>s DEF OrderInv, CaptureTypeOK
  <2>3. CASE /\ queue' = Append(queue, EventCommand(<<s, taken[s] + 1>>))
             /\ taken' = [taken EXCEPT ![s] = @ + 1]
             /\ reader' = [reader EXCEPT ![s] = "reading"]
    <3> DEFINE new == <<s, taken[s] + 1>>
    <3>1. new \in Messages /\ EventCommand(new) \in Commands /\ new[1] = s /\ new[2] = taken[s] + 1
      BY <2>1, RecordedMessage
    <3>2. /\ queue'[Len(queue) + 1] = EventCommand(new)
          /\ \A i \in 1..Len(queue) : queue'[i] = queue[i]
          /\ \A i \in 1..Len(queue') : i = Len(queue) + 1 \/ i \in 1..Len(queue)
      BY <2>3, <3>1, <1>q, QueueAppend
    <3>3. \A t \in Streams : taken'[t] = IF t = s THEN taken[s] + 1 ELSE taken[t]
      BY <2>3 DEF CaptureTypeOK
    <3>4. \A t \in Streams : reader'[t] = "recording" => t # s /\ reader[t] = "recording"
      BY <2>3 DEF CaptureTypeOK
    <3> HIDE DEF new
    <3>5. ASSUME NEW m \in Messages,
                 (command = EventCommand(m)
                    \/ \E i \in 1..Len(queue) : queue[i] = EventCommand(m))
          PROVE  m[2] <= taken[m[1]] /\ m[2] <= taken'[m[1]]
      <4>1. m[2] <= taken[m[1]]
        BY <3>5 DEF OrderInv
      <4> QED
        BY <4>1, <3>3, <1>q
    <3>6. ASSUME NEW m \in Messages,
                 command' = EventCommand(m) \/ \E i \in 1..Len(queue') : queue'[i] = EventCommand(m)
          PROVE  m[2] <= taken'[m[1]]
      <4>1. CASE m = new
        BY <4>1, <3>1, <3>3, <1>q
      <4>2. CASE m # new
        BY <4>2, <3>2, <3>5, <3>6, <2>1, CommandFacts
      <4> QED
        BY <4>1, <4>2
    <3>7. ASSUME NEW m \in Messages, NEW o \in Messages, NEW j \in 1..Len(queue'),
                 m[1] = o[1], queue'[j] = EventCommand(o),
                 command' = EventCommand(m) \/ \E i \in 1..(j - 1) : queue'[i] = EventCommand(m)
          PROVE  m[2] < o[2]
      <4>1. \A i \in 1..(j - 1) : i \in 1..Len(queue) /\ queue'[i] = queue[i]
        BY <3>2, <1>q
      <4>2. CASE j \in 1..Len(queue)
        BY <4>1, <4>2, <3>2, <3>7, <2>1 DEF OrderInv
      <4>3. CASE j = Len(queue) + 1
        <5>1. o = new
          BY <4>3, <3>2, <3>7, CommandFacts
        <5>2. m[2] <= taken[m[1]]
          BY <4>1, <3>5, <3>7, <2>1
        <5> QED
          BY <5>1, <5>2, <3>1, <3>7, <1>q
      <4> QED
        BY <4>2, <4>3, <3>2
    <3>8. ASSUME NEW t \in Streams, reader'[t] = "recording"
          PROVE  taken'[t] < Len(KindOf[t])
      BY <3>3, <3>4, <3>8 DEF OrderInv
    <3> QED
      BY <3>6, <3>7, <3>8 DEF OrderInv
  <2> QED
    BY <1>7, <2>2, <2>3 DEF Record
<1>8. ASSUME UNCHANGED <<taken, captureThread>>,
             \A s \in Streams : reader'[s] = "recording" => reader[s] = "recording"
      PROVE  OrderInv'
  BY <1>8, <1>s DEF captureThread, OrderInv
<1> QED
  BY <1>1, <1>2, <1>3, <1>4, <1>5, <1>6, <1>7, <1>8, CaptureFrame

\* Every step that takes a command away leaves its event stored, or the writer is gone.
LEMMA KeptStays ==
  ASSUME CaptureInv, [CaptureNext]_captureVars
  PROVE  KeptInv'
<1> USE DEF CaptureInv
<1>q. /\ queue \in Seq(Commands) /\ Len(queue) \in Nat
      /\ \A s \in Streams : taken[s] \in Nat
  BY LenProperties DEF WriterInv, CaptureTypeOK
<1>s. ASSUME UNCHANGED <<events, queue, taken, command>>, WriterGone => WriterGone'
      PROVE  KeptInv'
  BY <1>s DEF KeptInv
<1>a. ASSUME NEW c \in Commands, queue' = Append(queue, c), UNCHANGED <<command, events>>,
             ~WriterGone,
             NEW s \in Streams, NEW n \in 1..taken[s]
      PROVE  (\/ <<s, n>> \in events
              \/ command = EventCommand(<<s, n>>)
              \/ \E i \in 1..Len(queue) : queue[i] = EventCommand(<<s, n>>))'
  <2>1. \A i \in 1..Len(queue) : queue'[i] = queue[i] /\ i \in 1..Len(queue')
    BY <1>a, <1>q, QueueAppend
  <2> QED
    BY <1>a, <2>1 DEF KeptInv
<1>1. CASE WriterReceives
  <2>1. /\ UNCHANGED <<taken, events>> /\ command' = Head(queue) /\ queue' = Tail(queue)
        /\ queue # <<>> /\ ~WriterGone /\ command = NoCommand
    BY <1>1 DEF WriterReceives, captureTasks, captureRows, WriterGone, WriterInv
  <2>2. /\ command' = queue[1]
        /\ \A i \in 1..Len(queue) : i = 1 \/ (i - 1 \in 1..Len(queue') /\ queue'[i - 1] = queue[i])
    BY <2>1, <1>q, QueueTail
  <2>3. ASSUME NEW s \in Streams, NEW n \in 1..taken[s]
        PROVE  \/ <<s, n>> \in events
               \/ command' = EventCommand(<<s, n>>)
               \/ \E i \in 1..Len(queue') : queue'[i] = EventCommand(<<s, n>>)
    <3>1. \/ <<s, n>> \in events
          \/ \E i \in 1..Len(queue) : queue[i] = EventCommand(<<s, n>>)
      BY <2>1, CommandFacts DEF KeptInv
    <3> QED
      BY <3>1, <2>2
  <2> QED
    BY <2>1, <2>3 DEF KeptInv
<1>2. CASE InsertEvent
  <2>1. /\ UNCHANGED <<taken, queue>> /\ ~WriterGone
        /\ \/ events' = events \cup {command[2]}
           \/ UNCHANGED <<events, command>>
    BY <1>2 DEF InsertEvent, captureTasks, WriterGone
  <2> QED
    BY <2>1, CommandFacts DEF KeptInv
<1>3. CASE WriterFails \/ CaptureCrash \/ FinishCapture
  BY <1>3 DEF WriterFails, CaptureCrash, FinishCapture, KeptInv, WriterGone
<1>4. CASE StartCapture \/ CollectorReturns
  BY <1>4, <1>s DEF StartCapture, CollectorReturns, captureThread, captureRows, WriterGone, WriterInv
<1>5. CASE SendFinish
  <2>1. UNCHANGED <<taken, command, reader, events, writer>>
    BY <1>5 DEF SendFinish, captureRows
  <2>2. CASE UNCHANGED queue
    BY <2>1, <2>2, <1>s DEF WriterGone
  <2>3. CASE ~WriterGone /\ queue' = Append(queue, FinishCommand(FinishStatus))
    <3>1. FinishCommand(FinishStatus) \in Commands
      BY DEF Commands, FinishStatus
    <3> QED
      BY <2>1, <2>3, <3>1, <1>a DEF KeptInv
  <2> QED
    BY <1>5, <2>2, <2>3 DEF SendFinish, FinishStatus
<1>6. ASSUME NEW s \in Streams, Connect(s) \/ Read(s)
      PROVE  KeptInv'
  BY <1>6, <1>s DEF Connect, Read, captureThread, captureRows, WriterGone
<1>7. ASSUME NEW s \in Streams, Record(s)
      PROVE  KeptInv'
  <2>1. UNCHANGED <<command, events, writer>> /\ reader[s] = "recording"
    BY <1>7 DEF Record, captureRows
  <2>2. CASE UNCHANGED <<queue, taken>>
    BY <2>1, <2>2, <1>s DEF WriterGone
  <2>3. CASE /\ ~WriterGone /\ queue' = Append(queue, EventCommand(<<s, taken[s] + 1>>))
             /\ taken' = [taken EXCEPT ![s] = @ + 1]
    <3>1. EventCommand(<<s, taken[s] + 1>>) \in Commands
      BY <2>1, RecordedMessage
    <3>2. /\ queue'[Len(queue) + 1] = EventCommand(<<s, taken[s] + 1>>)
          /\ Len(queue') = Len(queue) + 1
      BY <2>3, <3>1, <1>q, QueueAppend
    <3>3. \A t \in Streams : taken'[t] = IF t = s THEN taken[s] + 1 ELSE taken[t]
      BY <2>3 DEF CaptureTypeOK
    <3>4. ASSUME NEW t \in Streams, NEW n \in 1..taken'[t]
          PROVE  n \in 1..taken[t] \/ (t = s /\ n = taken[s] + 1)
      BY <3>3, <3>4, <1>q
    <3>5. Len(queue) + 1 \in 1..Len(queue')
      BY <3>2, <1>q
    <3> QED
      BY <2>1, <2>3, <3>1, <3>2, <3>4, <3>5, <1>a DEF KeptInv
  <2> QED
    BY <1>7, <2>2, <2>3 DEF Record
<1>8. CASE UNCHANGED <<captureRows, taken, captureThread>>
  BY <1>8, <1>s DEF captureThread, captureRows, WriterGone
<1> QED
  BY <1>1, <1>2, <1>3, <1>4, <1>5, <1>6, <1>7, <1>8, CaptureFrame

\* Every step keeps the finish behind all events and the readers ended before it.
LEMMA FinishStays ==
  ASSUME CaptureInv, [CaptureNext]_captureVars
  PROVE  FinishInv'
<1> USE DEF CaptureInv
<1>q. /\ queue \in Seq(Commands) /\ Len(queue) \in Nat /\ Len(<<>>) = 0
  BY LenProperties, EmptySeq DEF WriterInv
<1>1. CASE WriterReceives
  <2>1. /\ UNCHANGED <<session, captureTasks>> /\ command' = Head(queue) /\ queue' = Tail(queue)
        /\ queue # <<>> /\ writer = "receiving" /\ ~WriterGone
        /\ writer' = IF command'[1] = "event" THEN "inserting" ELSE "finishing"
    BY <1>1 DEF WriterReceives, captureRows, WriterGone
  <2>2. /\ command' = queue[1] /\ Len(queue) >= 1 /\ Len(queue') = Len(queue) - 1
        /\ command' \in Commands
        /\ \A i \in 1..Len(queue') : queue'[i] = queue[i + 1] /\ i + 1 \in 1..Len(queue)
    BY <2>1, <1>q, QueueTail
  <2>3. UNCHANGED <<FinishStatus, collector, reader>>
    BY <2>1 DEF FinishStatus, captureTasks
  <2>4. ASSUME NEW i \in 1..Len(queue'), queue'[i][1] = "finish"
        PROVE  i = Len(queue') /\ collector' = "awaiting"
               /\ queue'[i] = FinishCommand(FinishStatus')
    <3>1. /\ queue[i + 1][1] = "finish" /\ i + 1 \in 1..Len(queue)
          /\ queue'[i] = queue[i + 1] /\ i \in Nat
      BY <2>2, <2>4
    <3>2. i + 1 = Len(queue) /\ collector = "awaiting"
          /\ queue[i + 1] = FinishCommand(FinishStatus)
      BY <3>1 DEF FinishInv
    <3> QED
      BY <3>1, <3>2, <2>2, <2>3, <1>q
  <2>5. ASSUME writer' = "finishing"
        PROVE  collector' = "awaiting" /\ command' = FinishCommand(FinishStatus')
    <3>1. queue[1][1] = "finish" /\ 1 \in 1..Len(queue)
      BY <2>1, <2>2, <2>5, <1>q, CommandFacts
    <3> QED
      BY <3>1, <2>2, <2>3 DEF FinishInv
  <2>6. collector # "answered" /\ session # "completed"
    BY <2>1 DEF FinishInv
  <2> QED
    BY <2>1, <2>3, <2>4, <2>5, <2>6 DEF FinishInv
<1>2. CASE InsertEvent
  <2>1. /\ UNCHANGED <<session, collector, reader, queue, FinishStatus>>
        /\ writer' \in {"receiving", "failing"} /\ ~WriterGone /\ writer # "ok"
    BY <1>2 DEF InsertEvent, captureTasks, WriterGone, FinishStatus
  <2> QED
    BY <2>1 DEF FinishInv
<1>3. CASE WriterFails
  <2>1. /\ UNCHANGED <<collector, reader, FinishStatus>> /\ Len(queue') = 0
        /\ session' \in {session, "failed"} /\ writer' = "error" /\ ~WriterGone /\ writer # "ok"
        /\ WriterGone'
    BY <1>3, <1>q DEF WriterFails, captureTasks, WriterGone, FinishStatus
  <2> QED
    BY <2>1 DEF FinishInv
<1>4. CASE FinishCapture
  <2>1. /\ collector = "awaiting" /\ command[2] = FinishStatus /\ Len(queue) = 0
        /\ session # "completed"
    BY <1>4, <1>q, CommandFacts DEF FinishCapture, FinishInv, WriterInv, WriterGone
  <2>2. /\ UNCHANGED <<reader, queue, FinishStatus>> /\ writer' = "ok" /\ WriterGone'
        /\ \/ session' = command[2] /\ collector' = "answered"
           \/ session' = session /\ collector' = "error"
    BY <1>4 DEF FinishCapture, WriterGone, FinishStatus
  <2> QED
    BY <2>1, <2>2 DEF FinishInv
<1>5. CASE StartCapture
  <2>1. Len(queue) = 0 /\ writer = "absent"
    BY <1>5, <1>q DEF StartCapture, WriterInv
  <2>2. /\ UNCHANGED <<reader, queue>> /\ collector' \in {"sleeping", "error"}
        /\ writer' \in {"absent", "receiving"} /\ session' # "completed"
    BY <1>5, <2>1 DEF StartCapture
  <2> QED
    BY <2>1, <2>2 DEF FinishInv
<1>6. CASE SendFinish
  <2>1. /\ UNCHANGED <<session, reader, writer, command, FinishStatus, WriterGone>>
        /\ collector = "finishing" /\ collector' \in {"awaiting", "error"} /\ writer # "finishing"
        /\ \A i \in 1..Len(queue) : queue[i][1] # "finish"
    BY <1>6 DEF SendFinish, captureRows, FinishStatus, FinishInv, WriterGone
  <2>2. CASE UNCHANGED queue
    BY <2>1, <2>2 DEF FinishInv
  <2>3. CASE collector' = "awaiting" /\ queue' = Append(queue, FinishCommand(FinishStatus))
    <3>1. FinishCommand(FinishStatus) \in Commands
      BY DEF Commands, FinishStatus
    <3>2. /\ queue'[Len(queue) + 1] = FinishCommand(FinishStatus)
          /\ Len(queue') = Len(queue) + 1
          /\ \A i \in 1..Len(queue) : queue'[i] = queue[i]
          /\ \A i \in 1..Len(queue') : i = Len(queue) + 1 \/ i \in 1..Len(queue)
      BY <2>3, <3>1, <1>q, QueueAppend
    <3> QED
      BY <2>1, <2>3, <3>2 DEF FinishInv
  <2> QED
    BY <1>6, <2>2, <2>3 DEF SendFinish, FinishStatus
<1>7. CASE CollectorReturns
  BY <1>7 DEF CollectorReturns, captureRows, captureThread, FinishInv, FinishStatus, WriterGone
<1>8. CASE CaptureCrash
  BY <1>8, <1>q DEF CaptureCrash, captureRows, FinishInv, FinishStatus, WriterGone
<1>9. ASSUME NEW s \in Streams, Connect(s)
      PROVE  FinishInv'
  BY <1>9 DEF Connect, captureRows, captureThread, FinishInv, WriterGone
<1>10. ASSUME NEW s \in Streams, Read(s)
       PROVE  FinishInv'
  BY <1>10 DEF Read, captureRows, captureThread, FinishInv, FinishStatus, WriterGone
<1>11. ASSUME NEW s \in Streams, Record(s)
       PROVE  FinishInv'
  <2>1. /\ UNCHANGED <<session, collector, writer, command, FinishStatus, WriterGone>>
        /\ reader[s] = "recording"
    BY <1>11 DEF Record, captureRows, FinishStatus, WriterGone
  <2>2. /\ collector \notin {"finishing", "awaiting", "answered", "ok"}
        /\ session # "completed" /\ writer # "finishing"
        /\ \A i \in 1..Len(queue) : queue[i][1] # "finish"
    BY <2>1 DEF FinishInv
  <2>3. CASE UNCHANGED queue
    BY <2>1, <2>2, <2>3 DEF FinishInv
  <2>4. CASE queue' = Append(queue, EventCommand(<<s, taken[s] + 1>>))
    <3>1. EventCommand(<<s, taken[s] + 1>>) \in Commands
      BY <2>1, RecordedMessage
    <3>2. /\ queue'[Len(queue) + 1] = EventCommand(<<s, taken[s] + 1>>)
          /\ \A i \in 1..Len(queue) : queue'[i] = queue[i]
          /\ \A i \in 1..Len(queue') : i = Len(queue) + 1 \/ i \in 1..Len(queue)
      BY <2>4, <3>1, <1>q, QueueAppend
    <3>3. \A i \in 1..Len(queue') : queue'[i][1] # "finish"
      BY <3>2, <2>2, CommandFacts
    <3> QED
      BY <2>1, <2>2, <3>3 DEF FinishInv
  <2> QED
    BY <1>11, <2>3, <2>4 DEF Record
<1>12. ASSUME UNCHANGED <<captureRows, connected, captureThread>>,
              \A s \in Streams : reader'[s] = reader[s] \/ reader'[s] = "ended",
              \/ collector' = collector
              \/ collector = "sleeping" /\ collector' = "joining"
              \/ /\ collector = "joining" /\ collector' = "finishing"
                 /\ \A s \in Streams : reader'[s] = "ended"
              \/ collector = "awaiting" /\ collector' = "error" /\ writer = "error"
       PROVE  FinishInv'
  <2>1. UNCHANGED <<session, queue, writer, command, FinishStatus, WriterGone>>
    BY <1>12 DEF captureRows, captureThread, FinishStatus, WriterGone
  <2>2. writer = "error" => Len(queue) = 0
    BY <1>q DEF WriterInv, WriterGone
  <2> QED
    BY <1>12, <2>1, <2>2 DEF FinishInv
<1> QED
  BY <1>1, <1>2, <1>3, <1>4, <1>5, <1>6, <1>7, <1>8, <1>9, <1>10, <1>11, <1>12, CaptureFrame

\* Every step counts a stream at most once.
LEMMA ConnectedStays ==
  ASSUME CaptureInv, [CaptureNext]_captureVars
  PROVE  ConnectedInv'
<1> USE DEF CaptureInv
<1> DEFINE Left == {s \in Streams : reader[s] # "connecting"}
<1>1. IsFiniteSet(Left) /\ Cardinality(Left) \in Nat /\ connected \in Nat /\ connected <= Cardinality(Left)
  BY CaptureAssumption, FS_Subset, FS_CardinalityType DEF CaptureTypeOK, ConnectedInv
<1>2. IsFiniteSet(Left') /\ Cardinality(Left') \in Nat
  BY CaptureAssumption, FS_Subset, FS_CardinalityType
<1>3. ASSUME connected' = connected,
             \A s \in Streams : reader[s] # "connecting" => reader'[s] # "connecting"
      PROVE  ConnectedInv'
  <2>1. Left \subseteq Left'
    BY <1>3
  <2>2. Cardinality(Left) <= Cardinality(Left')
    BY <1>2, <2>1, FS_Subset
  <2> QED
    BY <1>1, <1>2, <1>3, <2>2 DEF ConnectedInv
<1>4. ASSUME NEW s \in Streams, Connect(s)
      PROVE  ConnectedInv'
  <2>1. reader[s] = "connecting" /\ \A t \in Streams : reader'[t] # "connecting" <=> t = s \/ reader[t] # "connecting"
    BY <1>4 DEF Connect, CaptureTypeOK
  <2>2. Left' = Left \cup {s} /\ s \notin Left
    BY <2>1
  <2>3. Cardinality(Left') = Cardinality(Left) + 1
    BY <1>1, <2>2, FS_AddElement
  <2>4. connected' = connected \/ connected' = connected + 1
    BY <1>4 DEF Connect
  <2> QED
    BY <1>1, <1>2, <2>3, <2>4 DEF ConnectedInv
<1>5. CASE WriterReceives \/ InsertEvent \/ WriterFails \/ FinishCapture
             \/ StartCapture \/ SendFinish \/ CollectorReturns \/ CaptureCrash
  BY <1>5, <1>3 DEF WriterReceives, InsertEvent, WriterFails, FinishCapture,
     StartCapture, SendFinish, CollectorReturns, CaptureCrash, captureTasks
<1>6. ASSUME NEW s \in Streams, Read(s) \/ Record(s)
      PROVE  ConnectedInv'
  BY <1>6, <1>3 DEF Read, Record, CaptureTypeOK
<1> QED
  BY <1>3, <1>4, <1>5, <1>6, CaptureFrame

\* The event that is inserted is the next of its stream: those before it are stored.
LEMMA NextIsInserted ==
  ASSUME CaptureInv, writer = "inserting", NEW n \in 1..(command[2][2])
  PROVE  <<command[2][1], n>> \in events \/ <<command[2][1], n>> = command[2]
<1> USE DEF CaptureInv
<1> DEFINE m == command[2]
<1>1. /\ m \in Messages /\ command = EventCommand(m) /\ m[1] \in Streams /\ m[2] \in Nat
      /\ m = <<m[1], m[2]>> /\ m[2] <= Len(KindOf[m[1]]) /\ Len(KindOf[m[1]]) \in Nat
  BY InsertedMessage, MessageFacts
<1>2. /\ taken[m[1]] \in Nat /\ m[2] <= taken[m[1]] /\ ~WriterGone
      /\ queue \in Seq(Commands) /\ Len(queue) \in Nat
  BY <1>1, LenProperties DEF CaptureTypeOK, OrderInv, WriterGone, WriterInv
<1>3. n \in Nat /\ n >= 1 /\ n <= m[2] /\ n \in 1..taken[m[1]] /\ n <= Len(KindOf[m[1]])
  BY <1>1, <1>2
<1>4. <<m[1], n>> \in Messages
  BY <1>1, <1>3, MessageFacts
<1>5. ASSUME NEW i \in 1..Len(queue), queue[i] = EventCommand(<<m[1], n>>)
      PROVE  FALSE
  <2>1. m[2] < <<m[1], n>>[2]
    BY <1>1, <1>4, <1>5 DEF OrderInv
  <2> QED
    BY <2>1, <1>1, <1>3
<1>6. \/ <<m[1], n>> \in events
      \/ command = EventCommand(<<m[1], n>>)
      \/ \E i \in 1..Len(queue) : queue[i] = EventCommand(<<m[1], n>>)
  BY <1>1, <1>2, <1>3 DEF KeptInv
<1> QED
  BY <1>1, <1>5, <1>6, CommandFacts

\* Every step keeps what is stored whole.
LEMMA WholeStays ==
  ASSUME CaptureInv, [CaptureNext]_captureVars
  PROVE  CaptureIsWhole'
<1> USE DEF CaptureInv
<1>q. \A s \in Streams : taken[s] \in Nat
  BY DEF CaptureTypeOK
<1>s. ASSUME UNCHANGED <<events, typed>>, session' = "completed" => session = "completed" /\ UNCHANGED taken,
             collector' = "ok" => session' = "completed"
      PROVE  CaptureIsWhole'
  BY <1>s DEF CaptureIsWhole, TypedRows, KlineRows, BookTickerRows, DepthRows, DepthLevelRow,
     TradeRows, Kind
<1>o. collector = "ok" => session = "completed"
  BY DEF CaptureIsWhole
<1>1. CASE WriterReceives
  BY <1>1, <1>s, <1>o DEF WriterReceives, captureRows, captureTasks
<1>2. CASE InsertEvent
  <2>1. UNCHANGED <<session, collector, taken>> /\ writer = "inserting" /\ ~WriterGone
    BY <1>2 DEF InsertEvent, captureTasks, WriterGone
  <2>2. CASE UNCHANGED <<events, typed>>
    BY <2>1, <2>2, <1>s, <1>o
  <2>3. CASE /\ events' = events \cup {command[2]}
             /\ typed' = typed \cup TypedRows(command[2], typed)
    <3> DEFINE m == command[2]
    <3>1. m \in Messages /\ m = <<m[1], m[2]>>
      BY <2>1, InsertedMessage, MessageFacts
    <3>2. \A o \in events' : \A n \in 1..o[2] : <<o[1], n>> \in events'
      BY <2>1, <2>3, <3>1, NextIsInserted DEF CaptureIsWhole
    <3>3. Kind(m) # "trade" => TypedRows(m, {}) \subseteq typed'
      BY <2>3, <3>1, TypedRowsFacts
    <3>4. \A o \in events' : Kind(o) # "trade" => TypedRows(o, {}) \subseteq typed'
      BY <2>3, <3>3 DEF CaptureIsWhole
    <3>5. \A row \in typed' : row[2] \in events'
      BY <2>3, <3>1, TypedRowsFacts DEF CaptureIsWhole
    <3>6. ASSUME NEW row \in typed', NEW other \in typed',
                 row[1] = "live_trades", other[1] = "live_trades", row[3] = other[3]
          PROVE  row = other
      <4>1. CASE row \in typed /\ other \in typed
        BY <4>1, <3>6 DEF CaptureIsWhole
      <4>2. CASE row \in TypedRows(m, typed) /\ other \in TypedRows(m, typed)
        BY <4>2, <3>1, <3>6, TypedRowsFacts
      <4>3. CASE row \in TypedRows(m, typed) /\ other \in typed
        BY <4>3, <3>1, <3>6, TypedRowsFacts
      <4>4. CASE row \in typed /\ other \in TypedRows(m, typed)
        BY <4>4, <3>1, <3>6, TypedRowsFacts
      <4> QED
        BY <2>3, <4>1, <4>2, <4>3, <4>4
    <3>7. session # "completed" /\ collector # "ok"
      BY <2>1, <1>o DEF FinishInv
    <3>8. \A o : Kind(o)' = Kind(o) /\ TypedRows(o, {})' = TypedRows(o, {})
      BY DEF TypedRows, KlineRows, BookTickerRows, DepthRows, DepthLevelRow, TradeRows, Kind
    <3> HIDE DEF m
    <3> QED
      BY <2>1, <3>2, <3>4, <3>5, <3>6, <3>7, <3>8 DEF CaptureIsWhole
  <2> QED
    BY <1>2, <2>2, <2>3 DEF InsertEvent
<1>3. CASE WriterFails
  <2>1. session # "completed"
    BY <1>3 DEF WriterFails, FinishInv, WriterGone
  <2> QED
    BY <1>3, <2>1, <1>s, <1>o DEF WriterFails, captureTasks
<1>4. CASE FinishCapture
  <2>1. /\ UNCHANGED <<events, typed, taken>> /\ collector' # "ok" /\ ~WriterGone
        /\ session # "completed" /\ queue = <<>>
    BY <1>4 DEF FinishCapture, WriterGone, FinishInv, WriterInv
  <2>2. \A m : command # EventCommand(m)
    BY <1>4, CommandFacts DEF FinishCapture, FinishInv
  <2>3. \A s \in Streams : \A n \in 1..taken[s] : <<s, n>> \in events
    <3>1. 1..Len(queue) = {}
      BY <2>1, EmptySeq
    <3> QED
      BY <2>1, <2>2, <3>1 DEF KeptInv
  <2>4. \A o : Kind(o)' = Kind(o) /\ TypedRows(o, {})' = TypedRows(o, {})
    BY DEF TypedRows, KlineRows, BookTickerRows, DepthRows, DepthLevelRow, TradeRows, Kind
  <2> QED
    BY <2>1, <2>3, <2>4 DEF CaptureIsWhole
<1>5. CASE StartCapture
  BY <1>5, <1>s DEF StartCapture
<1>6. CASE SendFinish
  BY <1>6, <1>s DEF SendFinish, captureRows
<1>7. CASE CollectorReturns
  <2>1. connected # 0 => session = "completed"
    BY <1>7 DEF CollectorReturns, FinishInv, FinishStatus, CaptureTypeOK
  <2> QED
    BY <1>7, <2>1, <1>s DEF CollectorReturns, captureRows
<1>8. CASE CaptureCrash
  BY <1>8, <1>s DEF CaptureCrash, captureRows
<1>9. ASSUME NEW s \in Streams, Connect(s) \/ Read(s)
      PROVE  CaptureIsWhole'
  BY <1>9, <1>s, <1>o DEF Connect, Read, captureRows
<1>10. ASSUME NEW s \in Streams, Record(s)
       PROVE  CaptureIsWhole'
  <2>1. session # "completed"
    BY <1>10 DEF Record, FinishInv
  <2> QED
    BY <1>10, <2>1, <1>s, <1>o DEF Record, captureRows
<1>11. ASSUME UNCHANGED <<captureRows, taken>>, collector' \in {collector, "joining", "finishing", "error"}
       PROVE  CaptureIsWhole'
  BY <1>11, <1>s, <1>o DEF captureRows
<1> QED
  BY <1>1, <1>2, <1>3, <1>4, <1>5, <1>6, <1>7, <1>8, <1>9, <1>10, <1>11, CaptureFrame

\* A capture that has not begun has stored nothing.
LEMMA CaptureStarts ==
  ASSUME CaptureInit
  PROVE  CaptureInv
<1> USE DEF CaptureInit
<1>1. Cardinality(Streams) \in Nat /\ IsFiniteSet({s \in Streams : reader[s] # "connecting"})
  BY CaptureAssumption, FS_CardinalityType, FS_Subset
<1>2. Len(queue) = 0 /\ queue \in Seq(Commands)
  BY EmptySeq
<1>3. CaptureTypeOK
  BY <1>1, <1>2, CaptureAssumption DEF CaptureTypeOK
<1>4. WriterInv
  BY <1>2 DEF WriterInv
<1>5. OrderInv
  BY <1>2, CommandFacts DEF OrderInv
<1>6. KeptInv /\ FinishInv /\ CaptureIsWhole
  BY <1>2 DEF KeptInv, FinishInv, CaptureIsWhole
<1>7. ConnectedInv
  BY <1>1, FS_CardinalityType DEF ConnectedInv
<1> QED
  BY <1>3, <1>4, <1>5, <1>6, <1>7 DEF CaptureInv

\* A step of either writer, or none, is a step of a capture or leaves it alone.
LEMMA CaptureKeepsInv ==
  ASSUME CaptureInv, [CaptureNext]_captureVars
  PROVE  CaptureInv'
<1> QED
  BY CaptureTypeStays, WriterStays, OrderStays, KeptStays, FinishStays, ConnectedStays, WholeStays
     DEF CaptureInv

\* CaptureInv is an invariant of a database that captures and downloads write
\* (collector::run, writer_loop), and of a capture alone.
THEOREM CaptureIsInvariant == (Spec => []CaptureInv) /\ (CaptureSpec => []CaptureInv)
<1>1. Init => CaptureInv
  BY CaptureStarts DEF Init
<1>2. CaptureInv /\ [Next]_vars => CaptureInv'
  <2> SUFFICES ASSUME CaptureInv, [Next]_vars PROVE CaptureInv'
    OBVIOUS
  <2>1. [CaptureNext]_captureVars
    BY DEF Next, Downloading, Capturing, vars
  <2> QED
    BY <2>1, CaptureKeepsInv
<1>3. Spec => []CaptureInv
  BY <1>1, <1>2, PTL DEF Spec
<1>4. CaptureSpec => []CaptureInv
  BY CaptureStarts, CaptureKeepsInv, PTL DEF CaptureSpec
<1> QED
  BY <1>3, <1>4

\* What is stored of a stream has no hole, each event with its typed rows and each trade
\* once; a completed capture holds all that was recorded with Ok, and run returns Ok only
\* for a completed capture (collector::run, writer_loop).
THEOREM CaptureKeepsWhole == Spec => []CaptureIsWhole
<1>1. CaptureInv => CaptureIsWhole
  BY DEF CaptureInv
<1> QED
  BY <1>1, CaptureIsInvariant, PTL

-----------------------------------------------------------------------------
(* The Data Downloader *)

Whole(archive) == archive.first..archive.last

\* The archives a run may fetch.
Fetchable == {a \in Archives : a.last <= MaxToday}

\* The calls of dropped requests: an import among them brings a whole archive.
Deferrable ==
  {<<"read", d>> : d \in {0} \cup Starts} \cup {<<"mark", d, none>> : d \in Starts, none \in BOOLEAN}
    \cup {<<"import", a, Whole(a)>> : a \in Fetchable}
    \cup {<<"note", a>> : a \in Fetchable} \cup {<<"finish", status>> : status \in Finals}

Begun == {"fetching", "importing", "noting", "finishing"}
RunStates == {"none", "answered", "refused", "dropped"} \cup ActiveRun
EntryStates == {"absent", "not_started", "downloading"} \cup Finals

\* What is stored: an imported archive is there, and the catalog's range has every candle.
StoredInv ==
  /\ entry \in [status : EntryStates, start : {0} \cup Starts]
  /\ receipts \in [Archives -> {"none", "imported", "failed"}]
  /\ candles \subseteq Days
  /\ dataset \in Nat \X Nat /\ dataset[1] <= dataset[2]
  /\ \A a \in Archives : receipts[a] = "imported" => Whole(a) \subseteq candles
  /\ \A d \in candles : dataset[1] <= d /\ d <= dataset[2]

\* What the service and its users hold.
ServiceTypes ==
  /\ today \in Days
  /\ progress \in [status : {"none", "preparing", "running"} \cup Finals,
                   processed : Nat, total : Nat]
  /\ progress.processed <= progress.total
  /\ answer \in [status : {"none"} \cup Finals, start : Int, cutoff : Int]
  /\ begun \in 0..MaxRuns /\ edit \in {0} \cup Starts

RunTypes ==
  run \in [at : RunStates, requested : {0} \cup Starts, hadNone : BOOLEAN,
           start : {0} \cup Starts, cutoff : Int, missing : Seq(Fetchable), total : Nat,
           rows : SUBSET Days, kept : BOOLEAN, failed : BOOLEAN, clean : BOOLEAN]

\* No call of a dropped request is left when a run begins clean, and none joins then.
OrphanInv ==
  /\ orphans \subseteq Deferrable /\ IsFiniteSet(orphans) /\ Cardinality(orphans) <= MaxOrphans
  /\ run.clean => orphans = {}

\* A run's days are stored, or are of an archive it has still to fetch, unless it knows
\* of one it could not get.
RunInv ==
  /\ Len(run.missing) <= run.total
  /\ run.at \in ActiveRun => progress.status \in {"preparing", "running"}
  /\ run.at = "marking" => run.start \in Starts
  /\ run.at \in Begun => progress.total = run.total
  /\ run.at \in {"fetching", "importing", "noting"} => run.missing # <<>>
  /\ run.at = "importing" => run.rows = Whole(Head(run.missing))
  /\ run.at = "finishing" => run.missing = <<>>
  /\ run.at \in Begun /\ ~run.failed =>
       \A d \in run.start..run.cutoff :
         d \in candles \/ \E i \in DOMAIN run.missing : d \in Whole(run.missing[i])

\* What was answered is so, and is in the row unless a dropped request's call was to come.
AnswerInv ==
  /\ answer.status = "complete" => answer.start..answer.cutoff \subseteq candles
  /\ run.at = "answered" =>
       /\ answer.status \in Finals /\ progress.status = answer.status
       /\ run.clean => entry.status = answer.status

ArchiveInv == StoredInv /\ ServiceTypes /\ RunTypes /\ OrphanInv /\ RunInv /\ AnswerInv

-----------------------------------------------------------------------------
(* Induction on the naturals *)

\* A set of naturals that is not empty has a least member.
LEMMA LeastNatural ==
  ASSUME NEW T \in SUBSET Nat, T # {}
  PROVE  \E n \in T : \A m \in T : n <= m
<1> DEFINE Less == {pair \in Nat \X Nat : pair[1] < pair[2]}
<1>1. IsWellFoundedOn(Less, Nat)
  BY NatLessThanWellFounded DEF OpToRel
<1>2. \A x, y \in Nat : <<y, x>> \in Less <=> y < x
  OBVIOUS
<1> HIDE DEF Less
<1>3. PICK n \in T : \A m \in T : ~(<<m, n>> \in Less)
  BY <1>1, WFMin
<1>4. ASSUME NEW m \in T
      PROVE  n <= m
  <2>1. ~(m < n)
    BY <1>2, <1>3
  <2> QED
    BY <2>1
<1> QED
  BY <1>4

\* Induction: a set that holds 0 and every successor of its members holds every natural.
LEMMA EveryNatural ==
  ASSUME NEW T, 0 \in T, \A n \in Nat : n \in T => n + 1 \in T
  PROVE  \A n \in Nat : n \in T
<1> SUFFICES ASSUME Nat \ T # {} PROVE FALSE
  OBVIOUS
<1>1. PICK n \in Nat \ T : \A m \in Nat \ T : n <= m
  BY LeastNatural
<1>2. n # 0 /\ n - 1 \in Nat /\ n - 1 \in T /\ n = (n - 1) + 1
  BY <1>1
<1> QED
  BY <1>1, <1>2

-----------------------------------------------------------------------------
(* Archives and their plan *)

\* An archive is of a range of days that is not empty.
LEMMA ArchiveFacts ==
  ASSUME NEW a \in Archives
  PROVE  /\ a.first \in Nat /\ a.last \in Nat /\ 1 <= a.first /\ a.first <= a.last
         /\ Whole(a) \subseteq Nat /\ Whole(a) # {} /\ 0 \notin Whole(a)
         /\ FirstOf(Whole(a)) = a.first /\ LastOf(Whole(a)) = a.last
         /\ a.last <= MaxToday => a \in Fetchable /\ Whole(a) \subseteq Days
<1>0. MonthLength \in Nat \ {0} /\ MaxToday \in Nat
  BY ArchiveAssumption
<1>1. a.first \in Nat /\ a.last \in Nat /\ 1 <= a.first /\ a.first <= a.last
  <2>1. CASE \E d \in Days : a = Daily(d)
    BY <1>0, <2>1 DEF Daily, Archive, Days
  <2>2. CASE \E d \in Days : a = Monthly(d)
    <3>1. PICK d \in Days : a = Monthly(d)
      BY <2>2
    <3>2. d \in Nat /\ 1 <= d
      BY <1>0 DEF Days
    <3>3. LastDayOfMonth(d) \in Nat /\ LastDayOfMonth(d) >= d
      BY <1>0, <3>2 DEF LastDayOfMonth
    <3> QED
      BY <3>1, <3>2, <3>3 DEF Monthly, Archive
  <2> QED
    BY <2>1, <2>2 DEF Archives
<1>2. Whole(a) \subseteq Nat /\ Whole(a) # {} /\ 0 \notin Whole(a)
  <2>1. a.first \in Whole(a)
    BY <1>1 DEF Whole
  <2> QED
    BY <1>1, <2>1 DEF Whole
<1>3. \A d \in Whole(a) : (\A e \in Whole(a) : d <= e) <=> d = a.first
  BY <1>1 DEF Whole
<1>4. \A d \in Whole(a) : (\A e \in Whole(a) : d >= e) <=> d = a.last
  BY <1>1 DEF Whole
<1>5. a.first \in Whole(a) /\ a.last \in Whole(a)
  BY <1>1 DEF Whole
<1>6. FirstOf(Whole(a)) = a.first
  BY <1>3, <1>5 DEF FirstOf
<1>7. LastOf(Whole(a)) = a.last
  BY <1>4, <1>5 DEF LastOf
<1>8. a.last <= MaxToday => a \in Fetchable /\ Whole(a) \subseteq Days
  BY <1>0, <1>1 DEF Fetchable, Whole, Days
<1> QED
  BY <1>1, <1>2, <1>6, <1>7, <1>8

\* The archive that plan_archives takes at a day, and the day it goes on with.
ArchiveAt(d, cutoff) ==
  IF IsFirstOfMonth(d) /\ LastDayOfMonth(d) <= cutoff THEN Monthly(d) ELSE Daily(d)
DayAfter(d, cutoff) == ArchiveAt(d, cutoff).last + 1

\* The plans from each day on, which PlanArchives is defined by.
IsPlan(plan, low, top, cutoff) ==
  plan = [d \in low..top |->
            IF d > cutoff THEN <<>> ELSE <<ArchiveAt(d, cutoff)>> \o plan[DayAfter(d, cutoff)]]

\* A day's archive begins with it and ends by the cutoff.
LEMMA ArchiveAtFacts ==
  ASSUME NEW cutoff \in Int, cutoff <= MaxToday, NEW d \in Nat, 1 <= d, d <= cutoff
  PROVE  /\ ArchiveAt(d, cutoff) \in Fetchable
         /\ ArchiveAt(d, cutoff).first = d /\ ArchiveAt(d, cutoff).last \in Nat
         /\ d <= ArchiveAt(d, cutoff).last /\ ArchiveAt(d, cutoff).last <= cutoff
         /\ DayAfter(d, cutoff) \in (d + 1)..(cutoff + 1)
<1>0. MonthLength \in Nat \ {0} /\ MaxToday \in Nat /\ d \in Days
  BY ArchiveAssumption DEF Days
<1>1. ArchiveAt(d, cutoff) \in Archives /\ ArchiveAt(d, cutoff).first = d
      /\ ArchiveAt(d, cutoff).last <= cutoff
  <2>1. CASE IsFirstOfMonth(d) /\ LastDayOfMonth(d) <= cutoff
    BY <1>0, <2>1 DEF ArchiveAt, Archives, Monthly, Archive
  <2>2. CASE ~(IsFirstOfMonth(d) /\ LastDayOfMonth(d) <= cutoff)
    BY <1>0, <2>2 DEF ArchiveAt, Archives, Daily, Archive
  <2> QED
    BY <2>1, <2>2
<1> DEFINE a == ArchiveAt(d, cutoff)
<1> HIDE DEF a
<1>2. a \in Archives /\ a.first = d /\ a.last <= cutoff
  BY <1>1 DEF a
<1>3. a.last \in Nat /\ d <= a.last
  BY <1>2, ArchiveFacts
<1>4. a.last <= MaxToday
  BY <1>0, <1>2, <1>3
<1>5. a.last + 1 \in (d + 1)..(cutoff + 1)
  BY <1>2, <1>3
<1> QED
  BY <1>2, <1>3, <1>4, <1>5 DEF a, Fetchable, DayAfter

\* A plan is made of archives that can be fetched, and has every day up to the cutoff.
LEMMA PlanFacts ==
  ASSUME NEW start \in Nat, 1 <= start, start <= MaxToday,
         NEW cutoff \in Int, cutoff <= MaxToday
  PROVE  /\ PlanArchives(start, cutoff) \in Seq(Fetchable)
         /\ \A e \in start..cutoff : \E i \in DOMAIN PlanArchives(start, cutoff) :
              e \in Whole(PlanArchives(start, cutoff)[i])
<1> DEFINE top == start + MaxToday + MonthLength
<1>0. /\ MonthLength \in Nat \ {0} /\ MaxToday \in Nat /\ top \in Nat
      /\ top > cutoff + 1 /\ start <= top /\ top - start \in Nat
  BY ArchiveAssumption
<1> DEFINE T == {n \in Nat : n <= top - start => \E f : IsPlan(f, top - n, top, cutoff)}
<1>1. 0 \in T
  <2>1. \A d \in (top - 0)..top : d > cutoff
    BY <1>0
  <2>2. IsPlan([d \in (top - 0)..top |-> <<>>], top - 0, top, cutoff)
    BY <2>1 DEF IsPlan
  <2> QED
    BY <2>2
<1>2. ASSUME NEW n \in Nat, n \in T
      PROVE  n + 1 \in T
  <2> SUFFICES ASSUME n + 1 <= top - start PROVE \E f : IsPlan(f, top - (n + 1), top, cutoff)
    OBVIOUS
  <2> DEFINE low == top - (n + 1)
  <2>1. low \in Nat /\ 1 <= low /\ top - n = low + 1 /\ low < top
    BY <1>0
  <2>2. PICK f : IsPlan(f, low + 1, top, cutoff)
    BY <1>0, <1>2, <2>1
  <2> HIDE DEF low, top
  <2> DEFINE Value(plan, d) ==
               IF d > cutoff THEN <<>> ELSE <<ArchiveAt(d, cutoff)>> \o plan[DayAfter(d, cutoff)]
             g == [d \in low..top |-> IF d = low THEN Value(f, d) ELSE f[d]]
  <2>3. \A d \in low..top : g[d] = Value(g, d)
    <3> SUFFICES ASSUME NEW d \in low..top PROVE g[d] = Value(g, d)
      OBVIOUS
    <3>1. g[d] = Value(f, d)
      <4>1. CASE d = low
        BY <4>1
      <4>2. CASE d # low
        <5>1. d \in (low + 1)..top
          BY <1>0, <2>1, <4>2
        <5>2. f[d] = Value(f, d)
          BY <2>2, <5>1 DEF IsPlan
        <5> QED
          BY <4>2, <5>2
      <4> QED
        BY <4>1, <4>2
    <3>2. CASE d > cutoff
      BY <3>1, <3>2
    <3>3. CASE ~(d > cutoff)
      <4>1. DayAfter(d, cutoff) \in (d + 1)..(cutoff + 1)
        <5>1. d \in Nat /\ 1 <= d /\ d <= cutoff
          BY <1>0, <2>1, <3>3
        <5> QED
          BY <5>1, ArchiveAtFacts
      <4> DEFINE after == DayAfter(d, cutoff)
      <4>2. after \in low..top /\ after # low
        BY <1>0, <2>1, <4>1
      <4>3. g[after] = f[after]
        BY <4>2
      <4> QED
        BY <3>1, <3>3, <4>3
    <3> QED
      BY <3>2, <3>3
  <2>4. IsPlan(g, low, top, cutoff)
    BY <2>3 DEF IsPlan
  <2> QED
    BY <2>4 DEF low
<1>3. \A n \in Nat : n \in T
  <2> HIDE DEF T
  <2> QED
    BY <1>1, <1>2, EveryNatural
<1>4. \E f : IsPlan(f, start, top, cutoff)
  <2>1. top - (top - start) = start /\ top - start \in T
    BY <1>0, <1>3
  <2> QED
    BY <1>0, <2>1
<1> DEFINE p == CHOOSE f : IsPlan(f, start, top, cutoff)
<1>5. IsPlan(p, start, top, cutoff)
  BY <1>4
<1>6. PlanArchives(start, cutoff) = p[start]
  <2>1. \A f : (f = [d \in start..top |->
                  IF d > cutoff THEN <<>>
                  ELSE IF IsFirstOfMonth(d) /\ LastDayOfMonth(d) <= cutoff
                       THEN <<Monthly(d)>> \o f[LastDayOfMonth(d) + 1]
                       ELSE <<Daily(d)>> \o f[d + 1]])
             <=> IsPlan(f, start, top, cutoff)
    <3> SUFFICES ASSUME NEW f, NEW d
                 PROVE  (IF IsFirstOfMonth(d) /\ LastDayOfMonth(d) <= cutoff
                         THEN <<Monthly(d)>> \o f[LastDayOfMonth(d) + 1]
                         ELSE <<Daily(d)>> \o f[d + 1])
                        = <<ArchiveAt(d, cutoff)>> \o f[DayAfter(d, cutoff)]
      BY DEF IsPlan
    <3> QED
      BY DEF ArchiveAt, DayAfter, Monthly, Daily, Archive
  <2> QED
    BY <2>1 DEF PlanArchives
<1> HIDE DEF p, top
<1> DEFINE Has(d) == /\ p[d] \in Seq(Fetchable)
                     /\ \A e \in d..cutoff : \E i \in DOMAIN p[d] : e \in Whole(p[d][i])
           U == {n \in Nat : \A m \in 0..n : m <= top - start => Has(top - m)}
<1>7. ASSUME NEW d \in start..top, d > cutoff
      PROVE  Has(d)
  <2>1. p[d] = <<>>
    BY <1>5, <1>7 DEF IsPlan
  <2>2. d..cutoff = {}
    BY <1>0, <1>7
  <2> QED
    BY <2>1, <2>2, EmptySeq
<1>8. ASSUME NEW d \in start..top, d <= cutoff, Has(DayAfter(d, cutoff))
      PROVE  Has(d)
  <2> DEFINE a == ArchiveAt(d, cutoff)
             rest == p[DayAfter(d, cutoff)]
  <2>1. d \in Nat /\ 1 <= d /\ ~(d > cutoff)
    BY <1>0, <1>8
  <2>2. p[d] = <<a>> \o rest
    BY <1>5, <2>1 DEF IsPlan
  <2>3. /\ a \in Fetchable /\ a.first = d /\ a.last \in Nat /\ d <= a.last
        /\ DayAfter(d, cutoff) = a.last + 1
    BY <1>8, <2>1, ArchiveAtFacts DEF DayAfter
  <2>4. /\ rest \in Seq(Fetchable)
        /\ \A e \in (a.last + 1)..cutoff : \E i \in DOMAIN rest : e \in Whole(rest[i])
    BY <1>8, <2>3
  <2> HIDE DEF a, rest, Has
  <2>5. /\ <<a>> \in Seq(Fetchable) /\ Len(<<a>>) = 1 /\ <<a>>[1] = a
    BY <2>3
  <2>6. /\ <<a>> \o rest \in Seq(Fetchable) /\ Len(<<a>> \o rest) = 1 + Len(rest)
        /\ Len(rest) \in Nat /\ DOMAIN rest = 1..Len(rest)
        /\ DOMAIN (<<a>> \o rest) = 1..(1 + Len(rest))
        /\ (<<a>> \o rest)[1] = a
        /\ \A i \in DOMAIN rest : (<<a>> \o rest)[i + 1] = rest[i] /\ i + 1 \in 1..(1 + Len(rest))
    BY <2>4, <2>5
  <2>7. ASSUME NEW e \in d..cutoff
        PROVE  \E i \in DOMAIN (<<a>> \o rest) : e \in Whole((<<a>> \o rest)[i])
    <3>1. CASE e <= a.last
      <4>1. e \in Whole(a)
        BY <2>1, <2>3, <3>1 DEF Whole
      <4>2. 1 \in 1..(1 + Len(rest))
        BY <2>6
      <4> QED
        BY <2>6, <4>1, <4>2
    <3>2. CASE e > a.last
      <4>1. e \in (a.last + 1)..cutoff
        BY <2>1, <2>3, <3>2
      <4>2. PICK i \in DOMAIN rest : e \in Whole(rest[i])
        BY <2>4, <4>1
      <4> QED
        BY <2>6, <4>2
    <3> QED
      BY <2>1, <2>3, <3>1, <3>2
  <2> QED
    BY <2>2, <2>6, <2>7 DEF Has
<1>9. 0 \in U
  <2>1. top - 0 = top /\ top > cutoff /\ top \in start..top
    BY <1>0
  <2>2. Has(top)
    BY <1>7, <2>1
  <2> HIDE DEF Has
  <2> QED
    BY <2>1, <2>2
<1>10. ASSUME NEW n \in Nat, n \in U
       PROVE  n + 1 \in U
  <2> HIDE DEF Has
  <2> SUFFICES ASSUME n + 1 <= top - start PROVE Has(top - (n + 1))
    BY <1>10
  <2> DEFINE d == top - (n + 1)
  <2>1. d \in start..top
    BY <1>0
  <2>2. CASE d > cutoff
    BY <1>7, <2>1, <2>2
  <2>3. CASE d <= cutoff
    <3>1. DayAfter(d, cutoff) \in (d + 1)..(cutoff + 1)
      <4>1. d \in Nat /\ 1 <= d
        BY <1>0, <2>1
      <4> QED
        BY <2>3, <4>1, ArchiveAtFacts
    <3> DEFINE after == DayAfter(d, cutoff)
               m == top - after
    <3>2. m \in 0..n /\ m <= top - start /\ top - m = after
      BY <1>0, <2>1, <3>1
    <3> HIDE DEF m, d
    <3>3. Has(after)
      BY <1>10, <3>2
    <3> QED
      BY <1>8, <2>1, <2>3, <3>3 DEF d
  <2> QED
    BY <1>0, <2>1, <2>2, <2>3
<1>11. \A n \in Nat : n \in U
  <2> HIDE DEF U
  <2> QED
    BY <1>9, <1>10, EveryNatural
<1>12. Has(start)
  <2> DEFINE m == top - start
  <2>1. m \in Nat /\ m \in 0..m /\ m <= top - start /\ top - m = start
    BY <1>0
  <2> HIDE DEF m, Has
  <2>2. m \in U
    BY <1>11, <2>1
  <2>3. Has(top - m)
    BY <2>1, <2>2
  <2> QED
    BY <2>1, <2>3
<1> QED
  BY <1>6, <1>12

\* What is missing of a plan is all of it that no receipt has as imported.
LEMMA MissingFacts ==
  ASSUME NEW plan \in Seq(Fetchable)
  PROVE  /\ MissingOf(plan) \in Seq(Fetchable)
         /\ \A i \in DOMAIN plan : IsMissing(plan[i]) =>
              \E j \in DOMAIN MissingOf(plan) : MissingOf(plan)[j] = plan[i]
<1> DEFINE Value(f, i) ==
             IF i = 0 THEN <<>>
             ELSE IF IsMissing(plan[i]) THEN Append(f[i - 1], plan[i]) ELSE f[i - 1]
           Is(f, n) == f = [i \in 0..n |-> Value(f, i)]
           T == {n \in Nat : n <= Len(plan) => \E f : Is(f, n)}
<1>0. Len(plan) \in Nat /\ DOMAIN plan = 1..Len(plan) /\ \A i \in 1..Len(plan) : plan[i] \in Fetchable
  BY LenProperties, ElementOfSeq
<1>1. 0 \in T
  <2>1. \A i \in 0..0 : i = 0
    OBVIOUS
  <2>2. \A f : \A i \in 0..0 : Value(f, i) = <<>>
    BY <2>1
  <2> HIDE DEF Value
  <2>3. Is([i \in 0..0 |-> <<>>], 0)
    BY <2>2
  <2> QED
    BY <2>3
<1>2. ASSUME NEW n \in Nat, n \in T
      PROVE  n + 1 \in T
  <2> SUFFICES ASSUME n + 1 <= Len(plan) PROVE \E f : Is(f, n + 1)
    OBVIOUS
  <2>0. n <= Len(plan)
    BY <1>0
  <2>1. PICK f : Is(f, n)
    <3> HIDE DEF Is
    <3>1. \E f : Is(f, n)
      BY <1>2, <2>0
    <3> QED
      BY <3>1
  <2> DEFINE g == [i \in 0..(n + 1) |-> IF i = n + 1 THEN Value(f, n + 1) ELSE f[i]]
  <2>2. \A i \in 0..(n + 1) : g[i] = Value(g, i)
    <3> SUFFICES ASSUME NEW i \in 0..(n + 1) PROVE g[i] = Value(g, i)
      OBVIOUS
    <3>1. g[i] = Value(f, i)
      <4>1. CASE i = n + 1
        BY <4>1
      <4>2. CASE i # n + 1
        <5>1. i \in 0..n
          BY <4>2
        <5>2. f[i] = Value(f, i)
          BY <2>1, <5>1
        <5> QED
          BY <4>2, <5>2
      <4> QED
        BY <4>1, <4>2
    <3>2. CASE i = 0
      BY <3>1, <3>2
    <3>3. CASE i # 0
      <4>1. i - 1 \in 0..(n + 1) /\ i - 1 # n + 1
        BY <3>3
      <4>2. g[i - 1] = f[i - 1]
        BY <4>1
      <4> QED
        BY <3>1, <3>3, <4>2
    <3> QED
      BY <3>2, <3>3
  <2>3. Is(g, n + 1)
    BY <2>2
  <2> QED
    BY <2>3
<1>3. \A n \in Nat : n \in T
  <2> HIDE DEF T
  <2> QED
    BY <1>1, <1>2, EveryNatural
<1>4. \E f : Is(f, Len(plan))
  <2> HIDE DEF Is
  <2>1. Len(plan) \in T /\ Len(plan) <= Len(plan)
    BY <1>0, <1>3
  <2> QED
    BY <2>1
<1> DEFINE p == CHOOSE f : Is(f, Len(plan))
<1>5. Is(p, Len(plan))
  BY <1>4
<1>6. MissingOf(plan) = p[Len(plan)]
  BY DEF MissingOf
<1> HIDE DEF p
<1> DEFINE Has(n) == /\ p[n] \in Seq(Fetchable)
                     /\ \A i \in 1..n : IsMissing(plan[i]) =>
                          \E j \in DOMAIN p[n] : p[n][j] = plan[i]
           U == {n \in Nat : n <= Len(plan) => Has(n)}
<1>7. 0 \in U
  <2>1. p[0] = <<>>
    BY <1>0, <1>5
  <2>2. p[0] \in Seq(Fetchable) /\ 1..0 = {}
    BY <2>1
  <2>3. Has(0)
    BY <2>2
  <2> HIDE DEF Has
  <2> QED
    BY <2>3
<1>8. ASSUME NEW n \in Nat, n \in U
      PROVE  n + 1 \in U
  <2> SUFFICES ASSUME n + 1 <= Len(plan) PROVE Has(n + 1)
    OBVIOUS
  <2>1. Has(n)
    BY <1>0, <1>8
  <2>2. n + 1 \in 0..Len(plan) /\ n + 1 # 0 /\ (n + 1) - 1 = n /\ n + 1 \in 1..Len(plan)
    BY <1>0
  <2>3. p[n + 1] = IF IsMissing(plan[n + 1]) THEN Append(p[n], plan[n + 1]) ELSE p[n]
    BY <1>5, <2>2
  <2> DEFINE s == p[n]
             a == plan[n + 1]
  <2>4. s \in Seq(Fetchable) /\ a \in Fetchable
    BY <1>0, <2>1, <2>2
  <2>5. \A i \in 1..n : IsMissing(plan[i]) => \E j \in DOMAIN s : s[j] = plan[i]
    BY <2>1
  <2>6. \A i \in 1..(n + 1) : i \in 1..n \/ i = n + 1
    OBVIOUS
  <2>7. CASE IsMissing(a)
    <3>1. p[n + 1] = Append(s, a)
      BY <2>3, <2>7
    <3> HIDE DEF s, a, Value, Is, T, U
    <3>2. /\ Append(s, a) \in Seq(Fetchable) /\ Len(Append(s, a)) = Len(s) + 1
          /\ Len(s) \in Nat /\ DOMAIN s = 1..Len(s)
          /\ DOMAIN Append(s, a) = 1..(Len(s) + 1) /\ Append(s, a)[Len(s) + 1] = a
          /\ \A j \in 1..Len(s) : Append(s, a)[j] = s[j]
      BY <2>4, AppendProperties, LenProperties
    <3>3. \A j \in DOMAIN s : j \in DOMAIN Append(s, a) /\ Append(s, a)[j] = s[j]
      BY <3>2
    <3>4. Len(s) + 1 \in DOMAIN Append(s, a)
      BY <3>2
    <3>5. ASSUME NEW i \in 1..(n + 1), IsMissing(plan[i])
          PROVE  \E j \in DOMAIN Append(s, a) : Append(s, a)[j] = plan[i]
      <4>1. CASE i \in 1..n
        BY <2>5, <3>3, <3>5, <4>1
      <4>2. CASE i = n + 1
        BY <3>2, <3>4, <4>2 DEF a
      <4> QED
        BY <2>6, <4>1, <4>2
    <3> QED
      BY <3>1, <3>2, <3>5
  <2>8. CASE ~IsMissing(a)
    <3>1. p[n + 1] = s
      BY <2>3, <2>8
    <3> HIDE DEF s
    <3> QED
      BY <2>4, <2>5, <2>6, <2>8, <3>1
  <2> QED
    BY <2>7, <2>8
<1>9. \A n \in Nat : n \in U
  <2> HIDE DEF U
  <2> QED
    BY <1>7, <1>8, EveryNatural
<1>10. Has(Len(plan))
  BY <1>0, <1>9
<1> QED
  BY <1>0, <1>6, <1>10

\* A file that parses is the whole archive.
LEMMA FetchFacts ==
  ASSUME NEW a \in Archives, NEW file \in Files(a),
         NEW fileCame, NEW sumCame, NEW sumAgrees
  PROVE  DownloadAndParse(a, file, fileCame, sumCame, sumAgrees) \in {{}, Whole(a)}
<1> DEFINE n == a.last - a.first + 1
           days == [i \in 1..n |-> a.first + i - 1]
<1>1. /\ a.first \in Nat /\ a.last \in Nat /\ 1 <= a.first /\ a.first <= a.last /\ 0 \notin Whole(a)
      /\ n \in Nat
  BY ArchiveFacts
<1>2. days \in Seq(Nat) /\ Len(days) = n
  BY <1>1
<1>3. \A d \in Whole(a) : \E i \in 1..n : days[i] = d
  <2> SUFFICES ASSUME NEW d \in Whole(a) PROVE \E i \in 1..n : days[i] = d
    OBVIOUS
  <2>1. d - a.first + 1 \in 1..n /\ a.first + (d - a.first + 1) - 1 = d
    BY <1>1 DEF Whole
  <2> QED
    BY <2>1
<1>4. \A i \in 1..n : days[i] \in Whole(a) /\ days[i] # Short /\ days[i] # Header
  BY <1>1 DEF Whole, Short, Header
<1> DEFINE Found(f) == {f[i] : i \in 1..Len(f)}
<1>5. CASE file = <<Header>> \o days
  <2> HIDE DEF days, n
  <2>1. /\ Len(file) = 1 + n /\ file[1] = Header
        /\ \A i \in 1..n : file[1 + i] = days[i]
    BY <1>1, <1>2, <1>5
  <2>2. ASSUME NEW i \in 1..Len(file)
        PROVE  file[i] = Header \/ (file[i] \in Whole(a) /\ file[i] # Short)
    <3>1. CASE i = 1
      BY <2>1, <3>1
    <3>2. CASE i # 1
      <4>1. i - 1 \in 1..n /\ i = 1 + (i - 1)
        BY <1>1, <2>1, <3>2
      <4> QED
        BY <1>4, <2>1, <4>1
    <3> QED
      BY <3>1, <3>2
  <2>3. \A d \in Whole(a) : d \in Found(file)
    <3> SUFFICES ASSUME NEW d \in Whole(a) PROVE d \in Found(file)
      OBVIOUS
    <3>1. PICK i \in 1..n : days[i] = d
      BY <1>3
    <3>2. 1 + i \in 1..Len(file) /\ file[1 + i] = d
      BY <1>1, <2>1, <3>1
    <3> QED
      BY <3>2
  <2>4. Short \notin Found(file) /\ (Found(file) \ {Header}) \cap Whole(a) = Whole(a)
    BY <1>1, <2>2, <2>3 DEF Header, Short
  <2>5. ParseKlines(file, a) = Whole(a)
    BY <2>4 DEF ParseKlines, Whole
  <2> QED
    BY <2>5 DEF DownloadAndParse
<1>6. CASE file = Append(days, a.last + 1)
  <2> HIDE DEF days, n
  <2>1. /\ Len(file) = n + 1 /\ file[n + 1] = a.last + 1
        /\ \A i \in 1..n : file[i] = days[i]
    BY <1>1, <1>2, <1>6
  <2>2. ASSUME NEW i \in 1..Len(file)
        PROVE  file[i] = a.last + 1 \/ (file[i] \in Whole(a) /\ file[i] # Short)
    <3>1. CASE i = n + 1
      BY <2>1, <3>1
    <3>2. CASE i # n + 1
      <4>1. i \in 1..n
        BY <1>1, <2>1, <3>2
      <4> QED
        BY <1>4, <2>1, <4>1
    <3> QED
      BY <3>1, <3>2
  <2>3. \A d \in Whole(a) : d \in Found(file)
    <3> SUFFICES ASSUME NEW d \in Whole(a) PROVE d \in Found(file)
      OBVIOUS
    <3>1. PICK i \in 1..n : days[i] = d
      BY <1>3
    <3>2. i \in 1..Len(file) /\ file[i] = d
      BY <1>1, <2>1, <3>1
    <3> QED
      BY <3>2
  <2>4. a.last + 1 # Short /\ a.last + 1 \notin Whole(a)
    BY <1>1 DEF Short, Whole
  <2>5. Short \notin Found(file) /\ (Found(file) \ {Header}) \cap Whole(a) = Whole(a)
    BY <1>1, <2>2, <2>3, <2>4 DEF Header
  <2>6. ParseKlines(file, a) = Whole(a)
    BY <2>5 DEF ParseKlines, Whole
  <2> QED
    BY <2>6 DEF DownloadAndParse
<1>7. CASE file = Append(days, Short)
  <2> HIDE DEF days, n
  <2>1. Len(file) = n + 1 /\ file[n + 1] = Short /\ n + 1 \in 1..Len(file)
    BY <1>1, <1>2, <1>7
  <2>2. Short \in Found(file)
    BY <2>1
  <2>3. ParseKlines(file, a) = {}
    BY <2>2 DEF ParseKlines
  <2> QED
    BY <2>3 DEF DownloadAndParse
<1>8. CASE file = <<>>
  BY <1>8 DEF DownloadAndParse, ParseKlines
<1> QED
  BY <1>5, <1>6, <1>7, <1>8 DEF Files

-----------------------------------------------------------------------------
(* Storage calls *)

\* The catalog's range only grows, and takes in what is asked for.
LEMMA DatasetGrows ==
  ASSUME StoredInv, NEW first \in Nat, NEW last \in Nat, first <= last,
         EnsureKlineDataset(first, last)
  PROVE  /\ dataset' \in Nat \X Nat /\ dataset'[1] <= dataset'[2]
         /\ dataset'[1] <= first /\ last <= dataset'[2]
         /\ \A d \in candles : dataset'[1] <= d /\ d <= dataset'[2]
<1> DEFINE low == dataset[1]
           high == dataset[2]
<1>1. low \in Nat /\ high \in Nat /\ low <= high /\ dataset = <<low, high>>
  BY DEF StoredInv
<1>2. \A d \in candles : d \in Nat /\ d >= 1 /\ low <= d /\ d <= high
  BY ArchiveAssumption DEF StoredInv, Days
<1>3. dataset' = IF low = 0 /\ high = 0 THEN <<first, last>>
                 ELSE <<IF first < low THEN first ELSE low, IF last > high THEN last ELSE high>>
  BY <1>1 DEF EnsureKlineDataset
<1> HIDE DEF low, high
<1>4. CASE low = 0 /\ high = 0
  <2>1. candles = {}
    BY <1>2, <1>4
  <2> QED
    BY <1>3, <1>4, <2>1
<1>5. CASE ~(low = 0 /\ high = 0)
  <2>1. /\ dataset'[1] = IF first < low THEN first ELSE low
        /\ dataset'[2] = IF last > high THEN last ELSE high
        /\ dataset' = <<dataset'[1], dataset'[2]>>
    BY <1>3, <1>5
  <2>2. /\ dataset'[1] \in Nat /\ dataset'[2] \in Nat
        /\ dataset'[1] <= first /\ dataset'[1] <= low
        /\ last <= dataset'[2] /\ high <= dataset'[2]
    BY <1>1, <2>1
  <2> QED
    BY <1>1, <1>2, <2>1, <2>2
<1> QED
  BY <1>4, <1>5

\* An import stores its archive, and takes nothing away.
LEMMA ImportStores ==
  ASSUME StoredInv, NEW a \in Fetchable, ImportHistoricalKlines(a, Whole(a))
  PROVE  /\ StoredInv' /\ candles \subseteq candles' /\ Whole(a) \subseteq candles'
         /\ entry' = entry
<1>1. a \in Archives /\ a.last <= MaxToday
  BY DEF Fetchable
<1>2. /\ a.first \in Nat /\ a.last \in Nat /\ a.first <= a.last
      /\ FirstOf(Whole(a)) = a.first /\ LastOf(Whole(a)) = a.last /\ Whole(a) \subseteq Days
  BY <1>1, ArchiveFacts
<1>3. /\ EnsureKlineDataset(a.first, a.last)
      /\ candles' = candles \cup Whole(a)
      /\ receipts' = [receipts EXCEPT ![a] = "imported"]
      /\ entry' = entry
  BY <1>2 DEF ImportHistoricalKlines
<1>4. /\ dataset' \in Nat \X Nat /\ dataset'[1] <= dataset'[2]
      /\ dataset'[1] <= a.first /\ a.last <= dataset'[2]
      /\ \A d \in candles : dataset'[1] <= d /\ d <= dataset'[2]
  BY <1>2, <1>3, DatasetGrows
<1>5. \A d \in Whole(a) : dataset'[1] <= d /\ d <= dataset'[2]
  BY <1>2, <1>4 DEF Whole
<1>6. /\ receipts' \in [Archives -> {"none", "imported", "failed"}]
      /\ \A b \in Archives : receipts'[b] = "imported" => b = a \/ receipts[b] = "imported"
  BY <1>1, <1>3 DEF StoredInv
<1>7. \A b \in Archives : receipts'[b] = "imported" => Whole(b) \subseteq candles'
  BY <1>3, <1>6 DEF StoredInv
<1> QED
  BY <1>2, <1>3, <1>4, <1>5, <1>6, <1>7 DEF StoredInv, Whole

\* A failure that is noted stores no candle.
LEMMA FailureStores ==
  ASSUME StoredInv, NEW a \in Fetchable, RecordArchiveFailure(a)
  PROVE  StoredInv' /\ candles' = candles /\ entry' = entry
<1>1. a \in Archives
  BY DEF Fetchable
<1>2. a.first \in Nat /\ a.last \in Nat /\ a.first <= a.last
  BY <1>1, ArchiveFacts
<1>3. /\ EnsureKlineDataset(a.first, a.last)
      /\ receipts' = [receipts EXCEPT ![a] = "failed"]
      /\ entry' = entry /\ candles' = candles
  BY DEF RecordArchiveFailure
<1>4. /\ dataset' \in Nat \X Nat /\ dataset'[1] <= dataset'[2]
      /\ \A d \in candles : dataset'[1] <= d /\ d <= dataset'[2]
  BY <1>2, <1>3, DatasetGrows
<1>5. /\ receipts' \in [Archives -> {"none", "imported", "failed"}]
      /\ \A b \in Archives : receipts'[b] = "imported" => receipts[b] = "imported"
  BY <1>1, <1>3 DEF StoredInv
<1> QED
  BY <1>3, <1>4, <1>5 DEF StoredInv, Whole

\* The calls that write the entry leave candles and receipts alone.
LEMMA EntryStores ==
  ASSUME StoredInv, UNCHANGED <<receipts, candles, dataset>>,
         entry' \in [status : EntryStates, start : {0} \cup Starts]
  PROVE  StoredInv' /\ candles' = candles
BY DEF StoredInv, Whole

\* What the calls make of the entry.
LEMMA EntryCalls ==
  ASSUME StoredInv
  PROVE  /\ \A start \in {0} \cup Starts, none \in BOOLEAN : MarkDownloading(start, none) =>
              StoredInv' /\ candles' = candles /\ entry'.status = "downloading"
         /\ \A status \in Finals : FinishArchiveDownload(status) =>
              StoredInv' /\ candles' = candles /\ entry'.status = status
         /\ \A requested \in {0} \cup Starts : SavedStart(requested) \in {0} \cup Starts
<1>1. entry \in [status : EntryStates, start : {0} \cup Starts]
  BY DEF StoredInv
<1>2. ASSUME NEW start \in {0} \cup Starts, NEW none \in BOOLEAN, MarkDownloading(start, none)
      PROVE  StoredInv' /\ candles' = candles /\ entry'.status = "downloading"
  <2>1. /\ entry' \in [status : EntryStates, start : {0} \cup Starts]
        /\ entry'.status = "downloading"
    BY <1>1, <1>2 DEF MarkDownloading, EntryStates
  <2> QED
    BY <1>2, <2>1, EntryStores DEF MarkDownloading
<1>3. ASSUME NEW status \in Finals, FinishArchiveDownload(status)
      PROVE  StoredInv' /\ candles' = candles /\ entry'.status = status
  <2>1. /\ entry' \in [status : EntryStates, start : {0} \cup Starts]
        /\ entry'.status = status
    BY <1>1, <1>3 DEF FinishArchiveDownload, EntryStates
  <2> QED
    BY <1>3, <2>1, EntryStores DEF FinishArchiveDownload
<1>4. \A requested \in {0} \cup Starts : SavedStart(requested) \in {0} \cup Starts
  BY <1>1 DEF SavedStart
<1> QED
  BY <1>2, <1>3, <1>4

-----------------------------------------------------------------------------
(* Steps of a run *)

\* A run that is refused or dropped promises nothing.
LEMMA RunOver ==
  ASSUME ArchiveInv, NEW how \in {"refused", "dropped"}, run' = NoRun(how),
         StoredInv', ServiceTypes', candles \subseteq candles', answer' = answer,
         orphans' \subseteq Deferrable, IsFiniteSet(orphans'), Cardinality(orphans') <= MaxOrphans
  PROVE  ArchiveInv'
<1>1. <<>> \in Seq(Fetchable) /\ Len(<<>>) = 0
  BY EmptySeq
<1>2. RunTypes'
  BY <1>1 DEF RunTypes, NoRun, RunStates
<1>3. run'.at = how /\ run'.clean = FALSE /\ Len(run'.missing) <= run'.total
  BY <1>1 DEF NoRun
<1>4. OrphanInv'
  BY <1>3 DEF OrphanInv
<1>5. RunInv'
  BY <1>3 DEF RunInv, ActiveRun, Begun
<1>6. AnswerInv'
  BY <1>3 DEF AnswerInv, ArchiveInv
<1> QED
  BY <1>2, <1>4, <1>5, <1>6 DEF ArchiveInv

\* What a refused request leaves.
LEMMA Refused ==
  ASSUME ArchiveInv, Refuse, UNCHANGED <<edit, begun, today, archiveRows, orphans, answer>>
  PROVE  ArchiveInv'
<1>1. StoredInv' /\ candles \subseteq candles'
  BY DEF ArchiveInv, StoredInv, archiveRows, Whole
<1>2. ServiceTypes'
  BY DEF ArchiveInv, ServiceTypes, Refuse, Finals
<1>3. OrphanInv
  BY DEF ArchiveInv
<1> QED
  BY <1>1, <1>2, <1>3, RunOver DEF Refuse, OrphanInv

\* A run begins, and reads its entry.
LEMMA RunBegins ==
  ASSUME ArchiveInv, (\E requested \in {0} \cup Starts : BeginRun(requested)) \/ ReadEntry
  PROVE  ArchiveInv'
<1> USE DEF ArchiveInv
<1>1. CASE \E requested \in {0} \cup Starts : BeginRun(requested)
  <2>1. PICK requested \in {0} \cup Starts : BeginRun(requested)
    BY <1>1
  <2> DEFINE clean == orphans = {}
  <2>2. /\ run' = [NoRun("preparing") EXCEPT !.requested = requested, !.clean = clean]
        /\ begun < MaxRuns /\ begun' = begun + 1
        /\ progress' = [status |-> "preparing", processed |-> 0, total |-> 0]
        /\ UNCHANGED <<edit, today, archiveRows, orphans, answer>>
    BY <2>1 DEF BeginRun
  <2>3. clean \in BOOLEAN /\ (clean => orphans = {})
    OBVIOUS
  <2> HIDE DEF clean
  <2>4. <<>> \in Seq(Fetchable) /\ Len(<<>>) = 0
    BY EmptySeq
  <2>r. run' = [at |-> "preparing", requested |-> requested, hadNone |-> FALSE, start |-> 0,
                cutoff |-> 0, missing |-> <<>>, total |-> 0, rows |-> {}, kept |-> FALSE,
                failed |-> FALSE, clean |-> clean]
    BY <2>2 DEF NoRun
  <2>5. RunTypes'
    BY <2>3, <2>4, <2>r DEF RunTypes, RunStates, ActiveRun
  <2>6. run'.at = "preparing" /\ run'.clean = clean /\ run'.missing = <<>> /\ run'.total = 0
    BY <2>2 DEF NoRun
  <2>7. StoredInv' /\ OrphanInv' /\ AnswerInv'
    BY <2>2, <2>3, <2>6 DEF StoredInv, OrphanInv, AnswerInv, archiveRows, Whole
  <2>8. RunInv'
    BY <2>2, <2>4, <2>6 DEF RunInv, Begun
  <2>9. ServiceTypes'
    BY <2>2, ArchiveAssumption DEF ServiceTypes
  <2> QED
    BY <2>5, <2>7, <2>8, <2>9
<1>2. CASE ReadEntry
  <2>1. CASE Refuse
    BY <1>2, <2>1, Refused DEF ReadEntry
  <2>2. CASE ~Refuse
    <3> DEFINE none == entry.start = 0
    <3>1. /\ run.at = "preparing" /\ SavedStart(run.requested) # 0
          /\ run' = [run EXCEPT !.at = "marking", !.requested = 0, !.hadNone = none,
                                !.start = SavedStart(run.requested)]
          /\ UNCHANGED <<progress, edit, begun, today, archiveRows, orphans, answer>>
      BY <1>2, <2>2 DEF ReadEntry
    <3>2. none \in BOOLEAN /\ SavedStart(run.requested) \in Starts
      BY <3>1, EntryCalls DEF RunTypes
    <3> HIDE DEF none
    <3>3. RunTypes'
      BY <3>1, <3>2 DEF RunTypes, RunStates, ActiveRun
    <3>4. /\ run'.at = "marking" /\ run'.clean = run.clean /\ run'.missing = run.missing
          /\ run'.total = run.total /\ run'.start \in Starts
      BY <3>1, <3>2 DEF RunTypes
    <3>5. StoredInv' /\ OrphanInv' /\ AnswerInv' /\ ServiceTypes'
      BY <3>1, <3>4 DEF StoredInv, OrphanInv, AnswerInv, ServiceTypes, archiveRows, Whole
    <3>6. RunInv'
      BY <3>1, <3>4 DEF RunInv, Begun, ActiveRun
    <3> QED
      BY <3>3, <3>5, <3>6
  <2> QED
    BY <2>1, <2>2
<1> QED
  BY <1>1, <1>2

\* A run plans: what it is to have is stored or on its list.
LEMMA RunPlans ==
  ASSUME ArchiveInv, PlanRun
  PROVE  ArchiveInv'
<1> USE DEF ArchiveInv
<1>1. CASE Refuse /\ UNCHANGED archiveRows
  BY <1>1, Refused DEF PlanRun
<1>2. CASE ~(Refuse /\ UNCHANGED archiveRows)
  <2> DEFINE cutoff == SafeArchiveCutoff(today)
             plan == PlanArchives(run.start, cutoff)
             missing == MissingOf(plan)
             next == IF missing = <<>> THEN "finishing" ELSE "fetching"
             kept == Len(missing) < Len(plan)
  <2>1. /\ run.at = "marking" /\ MarkDownloading(run.start, run.hadNone)
        /\ run' = [run EXCEPT !.at = next, !.cutoff = cutoff, !.missing = missing,
                              !.total = Len(missing), !.kept = kept]
        /\ progress' = [status |-> "running", processed |-> 0, total |-> Len(missing)]
        /\ UNCHANGED <<edit, begun, today, orphans, answer>>
    BY <1>2 DEF PlanRun
  <2>2. run.start \in Nat /\ 1 <= run.start /\ run.start <= MaxToday /\ run.start \in Starts
    BY <2>1, ArchiveAssumption DEF RunInv
  <2>3. cutoff \in Int /\ cutoff <= MaxToday
    BY ArchiveAssumption DEF ServiceTypes, Days, SafeArchiveCutoff
  <2> HIDE DEF cutoff
  <2>4. /\ plan \in Seq(Fetchable)
        /\ \A e \in run.start..cutoff : \E i \in DOMAIN plan : e \in Whole(plan[i])
    BY <2>2, <2>3, PlanFacts
  <2> HIDE DEF plan
  <2>5. /\ missing \in Seq(Fetchable)
        /\ \A i \in DOMAIN plan : IsMissing(plan[i]) => \E j \in DOMAIN missing : missing[j] = plan[i]
    BY <2>4, MissingFacts
  <2>6. kept \in BOOLEAN /\ Len(missing) \in Nat
    BY <2>5, LenProperties
  <2>n. next \in {"fetching", "finishing"} /\ (next = "finishing" <=> missing = <<>>)
    OBVIOUS
  <2> HIDE DEF missing, kept, next
  <2>7. /\ run'.at = next /\ run'.clean = run.clean /\ run'.missing = missing
        /\ run'.total = Len(missing) /\ run'.start = run.start /\ run'.cutoff = cutoff
    BY <2>1 DEF RunTypes
  <2>8. RunTypes'
    BY <2>1, <2>3, <2>5, <2>6, <2>n DEF RunTypes, RunStates, ActiveRun
  <2>9. StoredInv' /\ candles' = candles
    BY <2>1, EntryCalls DEF RunTypes
  <2>10. ServiceTypes' /\ OrphanInv' /\ AnswerInv'
    <3>1. ServiceTypes'
      BY <2>1, <2>6 DEF ServiceTypes
    <3>2. OrphanInv'
      BY <2>1, <2>7 DEF OrphanInv
    <3>3. AnswerInv'
      BY <2>1, <2>7, <2>9, <2>n DEF AnswerInv
    <3> QED
      BY <3>1, <3>2, <3>3
  <2>11. ASSUME NEW d \in run.start..cutoff
         PROVE  d \in candles \/ \E j \in DOMAIN missing : d \in Whole(missing[j])
    <3>1. PICK i \in DOMAIN plan : d \in Whole(plan[i])
      BY <2>4
    <3>2. plan[i] \in Archives
      <4>1. plan[i] \in Fetchable
        BY <2>4
      <4> QED
        BY <4>1 DEF Fetchable
    <3>3. CASE receipts[plan[i]] = "imported"
      BY <3>1, <3>2, <3>3 DEF StoredInv
    <3>4. CASE receipts[plan[i]] # "imported"
      BY <2>5, <3>1, <3>4 DEF IsMissing
    <3> QED
      BY <3>3, <3>4
  <2>12. RunInv'
    <3>1. progress'.status = "running" /\ progress'.total = Len(missing)
      BY <2>1
    <3>2. \A d \in run'.start..run'.cutoff :
            d \in candles' \/ \E i \in DOMAIN run'.missing : d \in Whole(run'.missing[i])
      BY <2>7, <2>9, <2>11
    <3> QED
      BY <2>6, <2>7, <2>n, <3>1, <3>2 DEF RunInv, ActiveRun, Begun, Whole
  <2> QED
    BY <2>8, <2>9, <2>10, <2>12
<1> QED
  BY <1>1, <1>2

\* A run fetches: what comes is the whole archive, or nothing.
LEMMA RunFetches ==
  ASSUME ArchiveInv, Fetch
  PROVE  ArchiveInv'
<1> USE DEF ArchiveInv
<1> DEFINE a == Head(run.missing)
<1>1. run.at = "fetching" /\ run.missing # <<>> /\ run.missing \in Seq(Fetchable)
  BY DEF Fetch, RunInv, RunTypes
<1>2. a \in Fetchable /\ a \in Archives
  <2>1. a \in Fetchable
    BY <1>1
  <2> QED
    BY <2>1 DEF Fetchable
<1> HIDE DEF a
<1>3. PICK rows \in {{}, Whole(a)} :
        run' = [run EXCEPT !.rows = rows, !.at = IF rows = {} THEN "noting" ELSE "importing"]
  <2>1. PICK fileCame \in Downloads, sumCame \in Downloads, sumAgrees \in BOOLEAN, file \in Files(a) :
          LET rows == DownloadAndParse(a, file, fileCame, sumCame, sumAgrees)
          IN run' = [run EXCEPT !.rows = rows, !.at = IF rows = {} THEN "noting" ELSE "importing"]
    BY DEF Fetch, a
  <2>2. DownloadAndParse(a, file, fileCame, sumCame, sumAgrees) \in {{}, Whole(a)}
    BY <1>2, FetchFacts
  <2> QED
    BY <2>1, <2>2
<1> DEFINE next == IF rows = {} THEN "noting" ELSE "importing"
<1>4. /\ next \in {"noting", "importing"} /\ (next = "importing" => rows = Whole(a))
      /\ rows \in SUBSET Days
  BY <1>2, ArchiveFacts DEF Fetchable
<1>u. UNCHANGED <<edit, begun, today, archiveRows, orphans, progress, answer>>
  BY DEF Fetch
<1>5. run' = [run EXCEPT !.rows = rows, !.at = next]
  BY <1>3
<1> HIDE DEF next
<1>6. RunTypes'
  BY <1>4, <1>5 DEF RunTypes, RunStates, ActiveRun
<1>7. /\ run'.at = next /\ run'.clean = run.clean /\ run'.missing = run.missing
      /\ run'.total = run.total /\ run'.start = run.start /\ run'.cutoff = run.cutoff
      /\ run'.rows = rows /\ run'.failed = run.failed
  BY <1>5 DEF RunTypes
<1>8. StoredInv' /\ OrphanInv' /\ AnswerInv' /\ ServiceTypes'
  BY <1>4, <1>7, <1>u DEF StoredInv, OrphanInv, AnswerInv, ServiceTypes, archiveRows, Whole
<1>9. RunInv'
  <2>1. candles' = candles /\ progress' = progress
    BY <1>u DEF archiveRows
  <2>2. ~run'.failed =>
          \A d \in run'.start..run'.cutoff :
            d \in candles' \/ \E i \in DOMAIN run'.missing : d \in Whole(run'.missing[i])
    BY <1>1, <1>7, <2>1 DEF RunInv, Begun
  <2>3. next = "importing" => run'.rows = Whole(Head(run'.missing))
    BY <1>4, <1>7 DEF a
  <2> QED
    BY <1>1, <1>4, <1>7, <2>1, <2>2, <2>3 DEF RunInv, Begun, ActiveRun, Whole
<1> QED
  BY <1>6, <1>8, <1>9

\* The archive at the head of the list is dealt with: its days are stored, or a failure is
\* remembered.
LEMMA ArchiveDone ==
  ASSUME ArchiveInv, run.at \in {"importing", "noting"},
         NEW kept \in BOOLEAN, NEW failed \in BOOLEAN, NextArchive(kept, failed),
         StoredInv', candles \subseteq candles', entry' = entry,
         failed \/ Whole(Head(run.missing)) \subseteq candles',
         UNCHANGED <<edit, begun, today, orphans, answer>>
  PROVE  ArchiveInv'
<1> USE DEF ArchiveInv
<1> DEFINE rest == Tail(run.missing)
           next == IF rest = <<>> THEN "finishing" ELSE "fetching"
           nowKept == run.kept \/ kept
           nowFailed == run.failed \/ failed
           done == run.total - Len(rest)
<1>1. run.missing # <<>> /\ run.missing \in Seq(Fetchable) /\ Len(run.missing) <= run.total
  BY DEF RunInv, RunTypes
<1>2. /\ rest \in Seq(Fetchable) /\ Len(rest) = Len(run.missing) - 1 /\ Len(rest) \in Nat
      /\ \A i \in 2..Len(run.missing) : i - 1 \in 1..Len(rest) /\ rest[i - 1] = run.missing[i]
  BY <1>1
<1>3. /\ run' = [run EXCEPT !.missing = rest, !.rows = {}, !.kept = nowKept,
                            !.failed = nowFailed, !.at = next]
      /\ progress' = [progress EXCEPT !.processed = done]
  BY DEF NextArchive
<1>4. nowKept \in BOOLEAN /\ nowFailed \in BOOLEAN
  BY DEF RunTypes
<1>5. next \in {"finishing", "fetching"} /\ (next = "finishing" <=> rest = <<>>)
  OBVIOUS
<1>6. nowFailed <=> (run.failed \/ failed)
  OBVIOUS
<1> HIDE DEF next, nowKept, nowFailed, rest
<1>7. RunTypes'
  BY <1>2, <1>3, <1>4, <1>5 DEF RunTypes, RunStates, ActiveRun
<1>8. /\ run'.at = next /\ run'.clean = run.clean /\ run'.missing = rest
      /\ run'.total = run.total /\ run'.start = run.start /\ run'.cutoff = run.cutoff
      /\ run'.failed = nowFailed
  BY <1>3 DEF RunTypes
<1>9. run.total \in Nat /\ progress.total = run.total /\ done \in Nat /\ done <= progress.total
  BY <1>1, <1>2 DEF RunTypes, RunInv, Begun
<1>10. progress'.status = progress.status /\ progress'.total = progress.total /\ ServiceTypes'
  <2> HIDE DEF done
  <2> QED
    BY <1>3, <1>9 DEF ServiceTypes
<1>11. OrphanInv'
  BY <1>8 DEF OrphanInv
<1>12. AnswerInv'
  BY <1>5, <1>8 DEF AnswerInv
<1>13. ASSUME ~nowFailed, NEW d \in run.start..run.cutoff
       PROVE  d \in candles' \/ \E i \in DOMAIN rest : d \in Whole(rest[i])
  <2>1. d \in candles \/ \E i \in DOMAIN run.missing : d \in Whole(run.missing[i])
    BY <1>6, <1>13 DEF RunInv, Begun
  <2>2. CASE d \in candles
    BY <2>2
  <2>3. ASSUME NEW i \in DOMAIN run.missing, d \in Whole(run.missing[i])
        PROVE  d \in candles' \/ \E j \in DOMAIN rest : d \in Whole(rest[j])
    <3>1. CASE i = 1
      BY <1>1, <1>6, <1>13, <2>3, <3>1
    <3>2. CASE i # 1
      <4>1. i \in 2..Len(run.missing)
        BY <1>1, <3>2
      <4>2. i - 1 \in DOMAIN rest /\ rest[i - 1] = run.missing[i]
        BY <1>2, <4>1
      <4> QED
        BY <2>3, <4>2
    <3> QED
      BY <3>1, <3>2
  <2> QED
    BY <2>1, <2>2, <2>3
<1>14. RunInv'
  <2>1. progress.status \in {"preparing", "running"}
    BY DEF RunInv, ActiveRun
  <2>2. Len(rest) <= run.total
    BY <1>1, <1>2, <1>9
  <2>3. ~run'.failed =>
          \A d \in run'.start..run'.cutoff :
            d \in candles' \/ \E i \in DOMAIN run'.missing : d \in Whole(run'.missing[i])
    BY <1>8, <1>13
  <2> QED
    BY <1>5, <1>8, <1>9, <1>10, <2>1, <2>2, <2>3 DEF RunInv, ActiveRun, Begun, Whole
<1> QED
  BY <1>7, <1>10, <1>11, <1>12, <1>14

\* A run imports what it fetched, or notes that it could not.
LEMMA RunStores ==
  ASSUME ArchiveInv, Import \/ NoteFailure
  PROVE  ArchiveInv'
<1> USE DEF ArchiveInv
<1> DEFINE a == Head(run.missing)
<1>1. run.at \in {"importing", "noting"} /\ run.missing # <<>> /\ run.missing \in Seq(Fetchable)
  BY DEF Import, NoteFailure, RunInv, RunTypes
<1>2. a \in Fetchable
  BY <1>1
<1> HIDE DEF a
<1>3. CASE Import
  <2>1. CASE Refuse /\ UNCHANGED archiveRows
    BY <1>3, <2>1, Refused DEF Import
  <2>2. CASE ~(Refuse /\ UNCHANGED archiveRows)
    <3>1. /\ ImportHistoricalKlines(a, run.rows) /\ NextArchive(TRUE, FALSE)
          /\ run.at = "importing" /\ UNCHANGED <<edit, begun, today, orphans, answer>>
      BY <1>3, <2>2 DEF Import, a
    <3>2. run.rows = Whole(a)
      BY <3>1 DEF RunInv, a
    <3>3. StoredInv' /\ candles \subseteq candles' /\ Whole(a) \subseteq candles' /\ entry' = entry
      BY <1>2, <3>1, <3>2, ImportStores
    <3> QED
      BY <3>1, <3>3, ArchiveDone DEF a
  <2> QED
    BY <2>1, <2>2
<1>4. CASE NoteFailure
  <2>1. /\ RecordArchiveFailure(a) \/ UNCHANGED archiveRows
        /\ NextArchive(FALSE, TRUE) /\ run.at = "noting"
        /\ UNCHANGED <<edit, begun, today, orphans, answer>>
    BY <1>4 DEF NoteFailure, a
  <2>2. CASE RecordArchiveFailure(a)
    <3>1. StoredInv' /\ candles' = candles /\ entry' = entry
      BY <1>2, <2>2, FailureStores
    <3> QED
      BY <2>1, <3>1, ArchiveDone
  <2>3. CASE UNCHANGED archiveRows
    <3>1. StoredInv' /\ candles' = candles /\ entry' = entry
      BY <2>3 DEF StoredInv, archiveRows, Whole
    <3> QED
      BY <2>1, <3>1, ArchiveDone
  <2> QED
    BY <2>1, <2>2, <2>3
<1> QED
  BY <1>3, <1>4

\* A run answers: if no archive failed, every day it went for is stored.
LEMMA RunFinishes ==
  ASSUME ArchiveInv, Finish
  PROVE  ArchiveInv'
<1> USE DEF ArchiveInv
<1>1. CASE Refuse /\ UNCHANGED <<archiveRows, answer>>
  BY <1>1, Refused DEF Finish
<1>2. CASE ~(Refuse /\ UNCHANGED <<archiveRows, answer>>)
  <2> DEFINE status == FinalStatus
  <2>1. /\ run.at = "finishing" /\ FinishArchiveDownload(status)
        /\ run' = [run EXCEPT !.at = "answered"]
        /\ progress' = [status |-> status, processed |-> run.total, total |-> run.total]
        /\ answer' = [status |-> status, start |-> run.start, cutoff |-> run.cutoff]
        /\ UNCHANGED <<edit, begun, today, orphans>>
    BY <1>2 DEF Finish
  <2>2. status \in Finals /\ (status = "complete" => ~run.failed)
    <3>1. CASE run.failed
      BY <3>1 DEF FinalStatus, Finals
    <3>2. CASE ~run.failed
      BY <3>2 DEF FinalStatus, Finals
    <3> QED
      BY <3>1, <3>2
  <2> HIDE DEF status
  <2>3. StoredInv' /\ candles' = candles /\ entry'.status = status
    BY <2>1, <2>2, EntryCalls
  <2>4. RunTypes'
    BY <2>1 DEF RunTypes, RunStates
  <2>5. /\ run'.at = "answered" /\ run'.clean = run.clean /\ run'.missing = run.missing
        /\ run'.total = run.total
    BY <2>1 DEF RunTypes
  <2>t. run.total \in Nat /\ run.start \in Int /\ run.cutoff \in Int
    <3>1. {0} \cup Starts \subseteq Int
      <4>1. Days \subseteq Int /\ Starts \subseteq Days
        BY ArchiveAssumption DEF Days
      <4> QED
        BY <4>1
    <3>2. run.total \in Nat /\ run.start \in {0} \cup Starts /\ run.cutoff \in Int
      BY DEF RunTypes
    <3> QED
      BY <3>1, <3>2
  <2>6. ServiceTypes'
    BY <2>1, <2>2, <2>t DEF ServiceTypes
  <2>7. OrphanInv'
    BY <2>1, <2>5 DEF OrphanInv
  <2>8. RunInv'
    BY <2>5 DEF RunInv, ActiveRun, Begun
  <2>9. ~run.failed => run.start..run.cutoff \subseteq candles
    <3>1. run.missing = <<>>
      BY <2>1 DEF RunInv
    <3> QED
      BY <2>1, <3>1 DEF RunInv, Begun
  <2>10. AnswerInv'
    BY <2>1, <2>2, <2>3, <2>5, <2>9 DEF AnswerInv
  <2> QED
    BY <2>3, <2>4, <2>6, <2>7, <2>8, <2>10
<1> QED
  BY <1>1, <1>2

-----------------------------------------------------------------------------
(* Dropped requests, restarts and the other requests *)

\* The calls that may be deferred, and a set of one of them.
LEMMA DeferrableCalls ==
  /\ \A d \in {0} \cup Starts : <<"read", d>> \in Deferrable
  /\ \A d \in Starts, none \in BOOLEAN : <<"mark", d, none>> \in Deferrable
  /\ \A a \in Fetchable : <<"import", a, Whole(a)>> \in Deferrable /\ <<"note", a>> \in Deferrable
  /\ \A status \in Finals : <<"finish", status>> \in Deferrable
  /\ \A call \in Deferrable : {call} \subseteq Deferrable /\ IsFiniteSet({call})
<1>1. \A d \in {0} \cup Starts : <<"read", d>> \in Deferrable
  BY DEF Deferrable
<1>2. \A d \in Starts, none \in BOOLEAN : <<"mark", d, none>> \in Deferrable
  BY DEF Deferrable
<1>3. \A a \in Fetchable : <<"import", a, Whole(a)>> \in Deferrable /\ <<"note", a>> \in Deferrable
  BY DEF Deferrable
<1>4. \A status \in Finals : <<"finish", status>> \in Deferrable
  BY DEF Deferrable
<1> HIDE DEF Deferrable
<1> QED
  BY <1>1, <1>2, <1>3, <1>4, FS_Singleton

\* A dropped request leaves the call it waited for, which is one that may be deferred.
LEMMA RequestDropped ==
  ASSUME ArchiveInv, DropRequest
  PROVE  ArchiveInv'
<1> USE DEF ArchiveInv
<1>1. /\ run.at \in ActiveRun /\ orphans' = orphans \cup CallOf
      /\ Cardinality(orphans') <= MaxOrphans /\ run' = NoRun("dropped")
      /\ UNCHANGED <<edit, begun, today, archiveRows, progress, answer>>
  BY DEF DropRequest
<1> DEFINE a == Head(run.missing)
<1>2. run.at \in {"importing", "noting"} => a \in Fetchable
  BY DEF RunInv, RunTypes
<1> HIDE DEF a
<1>3. CallOf \subseteq Deferrable /\ IsFiniteSet(CallOf)
  <2>1. CASE run.at = "preparing"
    <3>1. CallOf = {<<"read", run.requested>>}
      BY <2>1 DEF CallOf
    <3>2. run.requested \in {0} \cup Starts
      BY DEF RunTypes
    <3> QED
      BY <3>1, <3>2, DeferrableCalls
  <2>2. CASE run.at = "marking"
    <3>1. CallOf = {<<"mark", run.start, run.hadNone>>}
      BY <2>2 DEF CallOf
    <3>2. run.start \in Starts /\ run.hadNone \in BOOLEAN
      BY <2>2 DEF RunInv, RunTypes
    <3> QED
      BY <3>1, <3>2, DeferrableCalls
  <2>3. CASE run.at = "fetching"
    <3>1. CallOf = {}
      BY <2>3 DEF CallOf
    <3> QED
      BY <3>1, FS_EmptySet
  <2>4. CASE run.at = "importing"
    <3>1. CallOf = {<<"import", a, Whole(a)>>}
      BY <2>4 DEF CallOf, RunInv, a
    <3> QED
      BY <1>2, <2>4, <3>1, DeferrableCalls
  <2>5. CASE run.at = "noting"
    <3>1. CallOf = {<<"note", a>>}
      BY <2>5 DEF CallOf, a
    <3> QED
      BY <1>2, <2>5, <3>1, DeferrableCalls
  <2>6. CASE run.at = "finishing"
    <3>1. CallOf = {<<"finish", FinalStatus>>} /\ FinalStatus \in Finals
      BY <2>6 DEF CallOf, FinalStatus, Finals
    <3> QED
      BY <3>1, DeferrableCalls
  <2> QED
    BY <1>1, <2>1, <2>2, <2>3, <2>4, <2>5, <2>6 DEF ActiveRun
<1>4. orphans' \subseteq Deferrable /\ IsFiniteSet(orphans')
  BY <1>1, <1>3, FS_Union DEF OrphanInv
<1>5. StoredInv' /\ ServiceTypes' /\ candles \subseteq candles'
  BY <1>1 DEF StoredInv, ServiceTypes, archiveRows, Whole
<1> QED
  BY <1>1, <1>4, <1>5, RunOver

\* The process dies, and with it the run and the calls.
LEMMA ProcessDied ==
  ASSUME ArchiveInv, ArchiveCrash
  PROVE  ArchiveInv'
<1>1. /\ run' = NoRun("dropped") /\ orphans' = {} /\ progress' = NoProgress /\ edit' = 0
      /\ UNCHANGED <<begun, today, archiveRows, answer>>
  BY DEF ArchiveCrash
<1>2. StoredInv' /\ ServiceTypes' /\ candles \subseteq candles'
  BY <1>1 DEF ArchiveInv, StoredInv, ServiceTypes, archiveRows, Whole, NoProgress
<1>3. IsFiniteSet({}) /\ Cardinality({}) = 0 /\ MaxOrphans >= 0
  BY FS_EmptySet, ArchiveAssumption
<1> QED
  BY <1>1, <1>2, <1>3, RunOver

\* A call that comes late does what it would have done in time.
LEMMA CallComesLate ==
  ASSUME ArchiveInv, NEW call \in orphans, OrphanCall(call)
  PROVE  ArchiveInv'
<1> USE DEF ArchiveInv
<1>1. /\ orphans' = orphans \ {call}
      /\ UNCHANGED <<edit, begun, today, run, progress, answer>>
  BY DEF OrphanCall
<1>2. StoredInv' /\ candles \subseteq candles'
  <2>1. CASE UNCHANGED archiveRows
    BY <2>1 DEF StoredInv, archiveRows, Whole
  <2>2. ASSUME call[1] = "read", SavedStart(call[2]) # 0,
               MarkDownloading(SavedStart(call[2]), entry.start = 0)
        PROVE  StoredInv' /\ candles \subseteq candles'
    <3>1. call[2] \in {0} \cup Starts
      BY <2>2 DEF OrphanInv, Deferrable
    <3> DEFINE none == entry.start = 0
    <3>2. none \in BOOLEAN /\ MarkDownloading(SavedStart(call[2]), none)
      BY <2>2
    <3> HIDE DEF none
    <3> QED
      BY <3>1, <3>2, EntryCalls
  <2>3. ASSUME call[1] = "mark", MarkDownloading(call[2], call[3])
        PROVE  StoredInv' /\ candles \subseteq candles'
    <3>1. call[2] \in {0} \cup Starts /\ call[3] \in BOOLEAN
      BY <2>3 DEF OrphanInv, Deferrable
    <3> QED
      BY <2>3, <3>1, EntryCalls
  <2>4. ASSUME call[1] = "import", ImportHistoricalKlines(call[2], call[3])
        PROVE  StoredInv' /\ candles \subseteq candles'
    <3>1. call[2] \in Fetchable /\ call[3] = Whole(call[2])
      BY <2>4 DEF OrphanInv, Deferrable
    <3> QED
      BY <2>4, <3>1, ImportStores
  <2>5. ASSUME call[1] = "note", RecordArchiveFailure(call[2])
        PROVE  StoredInv' /\ candles \subseteq candles'
    <3>1. call[2] \in Fetchable
      BY <2>5 DEF OrphanInv, Deferrable
    <3> QED
      BY <2>5, <3>1, FailureStores
  <2>6. ASSUME call[1] = "finish", FinishArchiveDownload(call[2])
        PROVE  StoredInv' /\ candles \subseteq candles'
    <3>1. call[2] \in Finals
      BY <2>6 DEF OrphanInv, Deferrable
    <3> QED
      BY <2>6, <3>1, EntryCalls
  <2> QED
    BY <2>1, <2>2, <2>3, <2>4, <2>5, <2>6 DEF OrphanCall
<1>3. ServiceTypes' /\ RunTypes'
  BY <1>1 DEF ServiceTypes, RunTypes
<1>4. ~run.clean
  BY DEF OrphanInv
<1>5. OrphanInv'
  <2>1. IsFiniteSet(orphans') /\ Cardinality(orphans') <= Cardinality(orphans)
    BY <1>1, FS_Subset, FS_RemoveElement, FS_CardinalityType DEF OrphanInv
  <2>2. Cardinality(orphans) \in Nat /\ Cardinality(orphans') \in Nat
    BY <2>1, FS_CardinalityType DEF OrphanInv
  <2> QED
    BY <1>1, <1>4, <2>1, <2>2, ArchiveAssumption DEF OrphanInv
<1>6. RunInv'
  BY <1>1, <1>2 DEF RunInv, Whole
<1>7. AnswerInv'
  BY <1>1, <1>2, <1>4 DEF AnswerInv
<1> QED
  BY <1>2, <1>3, <1>5, <1>6, <1>7

\* Other requests and the calendar.
LEMMA OthersStay ==
  ASSUME ArchiveInv,
         \/ UpdateStartDate \/ NextDay \/ UNCHANGED archiveVars
         \/ \E start \in Starts : CreateDownload(start) \/ CheckStartDate(start)
  PROVE  ArchiveInv'
<1> USE DEF ArchiveInv
<1>1. /\ UNCHANGED <<receipts, candles, dataset, run, orphans, progress, answer, begun>>
      /\ entry' = entry \/ (entry' \in [status : EntryStates, start : {0} \cup Starts]
                              /\ (entry'.status = entry.status \/ entry.status = "absent"))
      /\ today' \in Days /\ edit' \in {0} \cup Starts
  <2>0. /\ entry \in [status : EntryStates, start : {0} \cup Starts]
        /\ today \in Days /\ edit \in {0} \cup Starts /\ MaxToday \in Nat
    BY ArchiveAssumption DEF StoredInv, ServiceTypes
  <2>1. CASE UpdateStartDate
    BY <2>0, <2>1 DEF UpdateStartDate
  <2>2. CASE NextDay
    BY <2>0, <2>2 DEF NextDay, archiveRows, Days
  <2>3. CASE UNCHANGED archiveVars
    BY <2>0, <2>3 DEF archiveVars, archiveRows
  <2>4. ASSUME NEW start \in Starts, CreateDownload(start)
        PROVE  <1>1!:
    BY <2>0, <2>4 DEF CreateDownload, EntryStates
  <2>5. ASSUME NEW start \in Starts, CheckStartDate(start)
        PROVE  <1>1!:
    BY <2>0, <2>5 DEF CheckStartDate, archiveRows
  <2> QED
    BY <2>1, <2>2, <2>3, <2>4, <2>5
<1>2. entry' \in [status : EntryStates, start : {0} \cup Starts]
  BY <1>1 DEF StoredInv
<1>3. StoredInv'
  BY <1>1, <1>2, EntryStores
<1>4. ServiceTypes' /\ RunTypes' /\ OrphanInv' /\ RunInv'
  BY <1>1 DEF ServiceTypes, RunTypes, OrphanInv, RunInv, Whole
<1>5. AnswerInv'
  <2>1. run.at = "answered" /\ run.clean => entry.status # "absent"
    BY DEF AnswerInv, Finals
  <2> QED
    BY <1>1, <2>1 DEF AnswerInv
<1> QED
  BY <1>3, <1>4, <1>5

\* A step of the downloader, or none, keeps its invariant.
LEMMA ArchiveKeepsInv ==
  ASSUME ArchiveInv, [ArchiveNext]_archiveVars
  PROVE  ArchiveInv'
<1>1. CASE RunStep
  BY <1>1, RunBegins, RunPlans, RunFetches, RunStores, RunFinishes DEF RunStep
<1>2. CASE Request
  BY <1>2, RunBegins, OthersStay DEF Request
<1>3. CASE DropRequest \/ ArchiveCrash
  BY <1>3, RequestDropped, ProcessDied
<1>4. CASE NextDay \/ UNCHANGED archiveVars
  BY <1>4, OthersStay
<1>5. ASSUME NEW call \in orphans, OrphanCall(call)
      PROVE  ArchiveInv'
  BY <1>5, CallComesLate
<1> QED
  BY <1>1, <1>2, <1>3, <1>4, <1>5 DEF ArchiveNext

\* The state a downloader starts in satisfies the invariant.
LEMMA ArchiveStarts == ArchiveInit => ArchiveInv
<1> SUFFICES ASSUME ArchiveInit PROVE ArchiveInv
  OBVIOUS
<1>0. /\ <<>> \in Seq(Fetchable) /\ Len(<<>>) = 0
      /\ IsFiniteSet({}) /\ Cardinality({}) = 0
  BY EmptySeq, FS_EmptySet
<1>1. StoredInv
  BY ArchiveAssumption DEF ArchiveInit, StoredInv, EntryStates
<1>2. ServiceTypes
  BY ArchiveAssumption DEF ArchiveInit, ServiceTypes, NoProgress, NoAnswer, Days
<1>3. run = [at |-> "none", requested |-> 0, hadNone |-> FALSE, start |-> 0,
             cutoff |-> 0, missing |-> <<>>, total |-> 0, rows |-> {}, kept |-> FALSE,
             failed |-> FALSE, clean |-> FALSE]
  BY DEF ArchiveInit, NoRun
<1>4. RunTypes
  <2>1. "none" \in RunStates /\ 0 \in {0} \cup Starts /\ {} \in SUBSET Days
    BY DEF RunStates
  <2> QED
    BY <1>0, <1>3, <2>1 DEF RunTypes
<1>5. OrphanInv
  BY ArchiveAssumption, <1>0, <1>3 DEF ArchiveInit, OrphanInv
<1>6. RunInv
  BY <1>0, <1>3 DEF RunInv, ActiveRun, Begun
<1>7. AnswerInv
  BY <1>3 DEF ArchiveInit, AnswerInv, NoAnswer
<1> QED
  BY <1>1, <1>2, <1>4, <1>5, <1>6, <1>7 DEF ArchiveInv

\* ArchiveInv is an invariant of a database that captures and downloads write
\* (ArchiveDownloader::run, storage/reader.rs), and of a downloader alone.
THEOREM ArchiveIsInvariant == (Spec => []ArchiveInv) /\ (ArchiveSpec => []ArchiveInv)
<1>1. Init => ArchiveInv
  BY ArchiveStarts DEF Init
<1>2. ArchiveInv /\ [Next]_vars => ArchiveInv'
  <2> SUFFICES ASSUME ArchiveInv, [Next]_vars PROVE ArchiveInv'
    OBVIOUS
  <2>1. [ArchiveNext]_archiveVars
    BY DEF Next, Downloading, Capturing, vars
  <2> QED
    BY <2>1, ArchiveKeepsInv
<1>3. Spec => []ArchiveInv
  BY <1>1, <1>2, PTL DEF Spec
<1>4. ArchiveSpec => []ArchiveInv
  BY ArchiveStarts, ArchiveKeepsInv, PTL DEF ArchiveSpec
<1> QED
  BY <1>3, <1>4

\* An imported archive has all its days stored, the catalog's range hides no candle, and a
\* run that answers "complete" leaves no day out, whatever runs, drops, crashes and changed
\* dates came before (run_inner, prepare_archive_download).
THEOREM ArchiveKeepsWhole == Spec => []DownloadIsWhole
<1>1. ArchiveInv => DownloadIsWhole
  BY DEF ArchiveInv, StoredInv, AnswerInv, RunInv, DownloadIsWhole, Whole
<1> QED
  BY <1>1, ArchiveIsInvariant, PTL

\* What the invariants hold has its types, and a call left to run is one of the calls.
LEMMA StoreTypes == ArchiveInv /\ CaptureTypeOK => TypeOK
<1> SUFFICES ASSUME ArchiveInv, CaptureTypeOK PROVE ArchiveTypeOK
  BY DEF TypeOK
<1>1. orphans \subseteq Calls
  <2>1. \A a \in Fetchable : a \in Archives /\ Whole(a) \in SUBSET Days
    BY ArchiveFacts DEF Fetchable
  <2>2. Deferrable \subseteq Calls
    BY <2>1 DEF Deferrable, Calls
  <2> QED
    BY <2>2 DEF ArchiveInv, OrphanInv
<1>2. /\ entry.status \in {"absent", "not_started", "downloading"} \cup Finals
      /\ entry.start \in {0} \cup Starts
      /\ receipts \in [Archives -> {"none", "imported", "failed"}]
      /\ candles \subseteq Days /\ dataset[1] \in 0..dataset[2]
  BY DEF ArchiveInv, StoredInv, EntryStates
<1>3. /\ run.at \in {"none", "answered", "refused", "dropped"} \cup ActiveRun
      /\ run.total \in Nat
  BY DEF ArchiveInv, RunTypes, RunStates
<1>4. /\ today \in Days /\ progress.status \in {"none", "preparing", "running"} \cup Finals
      /\ progress.processed \in 0..progress.total
      /\ answer.status \in {"none"} \cup Finals /\ begun \in 0..MaxRuns
      /\ edit \in {0} \cup Starts
  BY DEF ArchiveInv, ServiceTypes
<1> QED
  BY <1>1, <1>2, <1>3, <1>4 DEF ArchiveInv, OrphanInv, RunInv, ArchiveTypeOK

\* The rows of the market tables, the run of the downloader and the capture have their
\* types: a run never has more archives to go than it counted, its progress never passes
\* its total, and the catalog's range never ends before it begins.
THEOREM StoreTypeCorrect == Spec => []TypeOK
<1>1. ArchiveInv /\ CaptureTypeOK => TypeOK
  BY StoreTypes
<1>2. CaptureInv => CaptureTypeOK
  BY DEF CaptureInv
<1> QED
  BY <1>1, <1>2, ArchiveIsInvariant, CaptureIsInvariant, PTL
=============================================================================
