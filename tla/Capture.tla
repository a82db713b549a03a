------------------------------ MODULE Capture ------------------------------
(***************************************************************************)
(* One live capture: the collector's stream readers feed a bounded queue   *)
(* whose other end is a writer thread with its own SQLite connection       *)
(* (src/collector.rs, src/storage/mod.rs).                                 *)
(*                                                                         *)
(* A message is its stream's n-th one that parses; what it holds is left   *)
(* out but for its kind and, for a trade, its id.  The rows of the capture *)
(* (session, events, typed) survive a crash of the process, the rest does  *)
(* not.  Every statement on the database may fail.                         *)
(***************************************************************************)
EXTENDS Integers, Sequences, FiniteSets

CONSTANTS
  Streams,       \* the WebSocket urls of the market
  KindOf,        \* stream -> sequence of the kinds of its messages
  TradeOf,       \* stream -> sequence of their trade ids, 0 where there is none
  QueueCapacity  \* WRITER_QUEUE_CAPACITY

Kinds == {"trade", "kline", "book_ticker", "depth"}

ASSUME CaptureAssumption ==
  /\ IsFiniteSet(Streams)
  /\ QueueCapacity \in Nat \ {0}
  /\ KindOf \in [Streams -> Seq(Kinds)]
  /\ \A s \in Streams : Len(TradeOf[s]) = Len(KindOf[s])

VARIABLES
  session,    \* status of the live_capture_sessions row, "none" before it is there
  events,     \* rows of live_events
  typed,      \* rows of the table of each kind
  collector,  \* where collector::run is
  reader,     \* stream -> where its reader task is
  connected,  \* connected_streams
  taken,      \* stream -> its messages recorded with Ok
  queue,      \* the channel of WriteCommands
  writer,     \* where writer_loop is
  command     \* the command writer_loop holds

captureRows == <<session, events, typed>>
captureTasks == <<collector, reader, connected, taken>>
captureThread == <<queue, writer, command>>
captureVars == <<captureRows, captureTasks, captureThread>>

-----------------------------------------------------------------------------
Messages == UNION {{<<s, n>> : n \in 1..Len(KindOf[s])} : s \in Streams}
NoCommand == <<"none">>
EventCommand(m) == <<"event", m>>
FinishCommand(status) == <<"finish", status>>

Returned == {"ok", "error", "crashed"}

CaptureTypeOK ==
  /\ session \in {"none", "running", "completed", "failed"}
  /\ events \subseteq Messages
  /\ collector \in {"starting", "sleeping", "joining", "finishing", "awaiting", "answered"}
                     \cup Returned
  /\ reader \in [Streams -> {"connecting", "reading", "recording", "ended"}]
  /\ connected \in 0..Cardinality(Streams)
  /\ taken \in [Streams -> Nat]
  /\ Len(queue) <= QueueCapacity
  /\ writer \in {"absent", "receiving", "inserting", "failing", "finishing", "ok", "error"}

CaptureInit ==
  /\ session = "none" /\ events = {} /\ typed = {}
  /\ collector = "starting"
  /\ reader = [s \in Streams |-> "connecting"]
  /\ connected = 0
  /\ taken = [s \in Streams |-> 0]
  /\ queue = <<>> /\ writer = "absent" /\ command = NoCommand

-----------------------------------------------------------------------------
(* The rows of an event, by kind. *)

Kind(m) == KindOf[m[1]][m[2]]

KlineRows(m) == {<<"live_kline_updates", m>>}
BookTickerRows(m) == {<<"live_book_ticker", m>>}

\* A level of each side stands for them all.
DepthLevelRow(m, side) == <<"live_depth_levels", m, side>>
DepthRows(m) ==
  {<<"live_depth_snapshots", m>>} \cup {DepthLevelRow(m, side) : side \in {"bid", "ask"}}

\* A trade is kept once per capture: a conflict on its id is ignored.
TradeRows(m, rows) ==
  LET id == TradeOf[m[1]][m[2]]
      known == \E row \in rows : row[1] = "live_trades" /\ row[3] = id
  IN IF known THEN {} ELSE {<<"live_trades", m, id>>}

TypedRows(m, rows) ==
  CASE Kind(m) = "kline" -> KlineRows(m)
    [] Kind(m) = "book_ticker" -> BookTickerRows(m)
    [] Kind(m) = "depth" -> DepthRows(m)
    [] Kind(m) = "trade" -> TradeRows(m, rows)

-----------------------------------------------------------------------------
(* The writer thread. *)

WriterGone == writer \in {"ok", "error"}

WriterReceives ==
  /\ writer = "receiving" /\ queue # <<>>
  /\ command' = Head(queue) /\ queue' = Tail(queue)
  /\ writer' = IF command'[1] = "event" THEN "inserting" ELSE "finishing"
  /\ UNCHANGED <<captureRows, captureTasks>>

\* insert_event: the event and its typed rows, in one transaction.
InsertEvent ==
  /\ writer = "inserting"
  /\ \/ /\ events' = events \cup {command[2]}
        /\ typed' = typed \cup TypedRows(command[2], typed)
        /\ writer' = "receiving" /\ command' = NoCommand
     \/ /\ writer' = "failing"
        /\ UNCHANGED <<events, typed, command>>
  /\ UNCHANGED <<session, captureTasks, queue>>

\* The first failed insert ends the thread; what is still queued goes with it.
WriterFails ==
  /\ writer = "failing"
  /\ session' \in {"failed", session}
  /\ writer' = "error" /\ command' = NoCommand /\ queue' = <<>>
  /\ UNCHANGED <<events, typed, captureTasks>>

\* finish_capture and the answer to it.
FinishCapture ==
  /\ writer = "finishing"
  /\ \/ session' = command[2] /\ collector' = "answered"
     \/ session' = session /\ collector' = "error"
  /\ writer' = "ok" /\ command' = NoCommand /\ UNCHANGED queue
  /\ UNCHANGED <<events, typed, reader, connected, taken>>

-----------------------------------------------------------------------------
(* The readers. *)

Connect(s) ==
  /\ collector \in {"sleeping", "joining"} /\ reader[s] = "connecting"
  /\ \/ reader' = [reader EXCEPT ![s] = "reading"] /\ connected' = connected + 1
     \/ reader' = [reader EXCEPT ![s] = "ended"] /\ UNCHANGED connected
  /\ UNCHANGED <<captureRows, collector, taken, captureThread>>

\* The next message that parses; the others are skipped.
Read(s) ==
  /\ reader[s] = "reading" /\ taken[s] < Len(KindOf[s])
  /\ reader' = [reader EXCEPT ![s] = "recording"]
  /\ UNCHANGED <<captureRows, collector, connected, taken, captureThread>>

\* CaptureWriterHandle.record blocks while the queue is full, even when aborted.
Record(s) ==
  /\ reader[s] = "recording"
  /\ \/ /\ ~WriterGone /\ Len(queue) < QueueCapacity
        /\ queue' = Append(queue, EventCommand(<<s, taken[s] + 1>>))
        /\ taken' = [taken EXCEPT ![s] = @ + 1]
        /\ reader' = [reader EXCEPT ![s] = "reading"]
     \/ /\ WriterGone
        /\ reader' = [reader EXCEPT ![s] = "ended"]
        /\ UNCHANGED <<queue, taken>>
  /\ UNCHANGED <<captureRows, collector, connected, writer, command>>

Disconnect(s) ==
  /\ reader[s] = "reading"
  /\ reader' = [reader EXCEPT ![s] = "ended"]
  /\ UNCHANGED <<captureRows, collector, connected, taken, captureThread>>

\* abort_all ends a task where it awaits, never inside record.
Aborted(s) ==
  /\ collector = "joining" /\ reader[s] \in {"connecting", "reading"}
  /\ reader' = [reader EXCEPT ![s] = "ended"]
  /\ UNCHANGED <<captureRows, collector, connected, taken, captureThread>>

-----------------------------------------------------------------------------
(* The collector. *)

\* open_for_capture and the thread: the row may be there without a writer.
StartCapture ==
  /\ collector = "starting"
  /\ \/ session' = "running" /\ collector' = "sleeping" /\ writer' = "receiving"
     \/ session' \in {"none", "running"} /\ collector' = "error" /\ UNCHANGED writer
  /\ UNCHANGED <<events, typed, reader, connected, taken, queue, command>>

DurationElapses ==
  /\ collector = "sleeping"
  /\ collector' = "joining"
  /\ UNCHANGED <<captureRows, reader, connected, taken, captureThread>>

\* Defect: finish without waiting for the readers that abort_all could not end.
JoinNoRecorder ==
  /\ collector = "joining"
  /\ \A s \in Streams : reader[s] \in {"recording", "ended"}
  /\ collector' = "finishing"
  /\ UNCHANGED <<captureRows, reader, connected, taken, captureThread>>
JoinReaders ==
  /\ collector = "joining"
  /\ \A s \in Streams : reader[s] = "ended"
  /\ collector' = "finishing"
  /\ UNCHANGED <<captureRows, reader, connected, taken, captureThread>>

\* CaptureWriter.finish: the last command, behind every event.
SendFinish ==
  /\ collector = "finishing"
  /\ \/ /\ ~WriterGone /\ Len(queue) < QueueCapacity
        /\ queue' = Append(queue, FinishCommand(IF connected > 0 THEN "completed" ELSE "failed"))
        /\ collector' = "awaiting"
     \/ /\ WriterGone
        /\ collector' = "error" /\ UNCHANGED queue
  /\ UNCHANGED <<captureRows, reader, connected, taken, writer, command>>

\* Defect: a lost answer is waited for.
AnswerAwaited == FALSE /\ UNCHANGED captureVars
\* No answer will come from a writer that ended before it got to the command.
AnswerLost ==
  /\ collector = "awaiting" /\ writer = "error"
  /\ collector' = "error"
  /\ UNCHANGED <<captureRows, reader, connected, taken, captureThread>>

CollectorReturns ==
  /\ collector = "answered" /\ WriterGone
  /\ collector' = IF connected = 0 THEN "error" ELSE "ok"
  /\ UNCHANGED <<captureRows, reader, connected, taken, captureThread>>

\* The process dies. Nothing ever looks at the row it leaves.
CaptureCrash ==
  /\ collector \notin {"starting"} \cup Returned
  /\ collector' = "crashed"
  /\ reader' = [s \in Streams |-> "ended"]
  /\ writer' = "error" /\ queue' = <<>> /\ command' = NoCommand
  /\ UNCHANGED <<captureRows, connected, taken>>

WriterStep == WriterReceives \/ InsertEvent \/ WriterFails \/ FinishCapture
ReaderStep(s) == Connect(s) \/ Read(s) \/ Record(s) \/ Disconnect(s) \/ Aborted(s)
CollectorStep ==
  \/ StartCapture \/ DurationElapses \/ JoinReaders \/ SendFinish
  \/ AnswerLost \/ CollectorReturns
CaptureNext ==
  WriterStep \/ CollectorStep \/ CaptureCrash \/ \E s \in Streams : ReaderStep(s)

\* The writer is a thread and the tasks are polled; nothing makes a stream
\* connect or deliver.
CaptureFairness ==
  /\ WF_captureVars(WriterStep) /\ WF_captureVars(CollectorStep)
  /\ \A s \in Streams : WF_captureVars(Record(s)) /\ WF_captureVars(Aborted(s))
CaptureSpec == CaptureInit /\ [][CaptureNext]_captureVars /\ CaptureFairness

-----------------------------------------------------------------------------
\* What is stored of a stream never has a hole, each event with its typed rows
\* and each trade once; a completed capture holds all that was recorded with Ok;
\* and run returns Ok only for a completed capture (collector::run, writer_loop).
CaptureIsWhole ==
  /\ \A m \in events : \A n \in 1..m[2] : <<m[1], n>> \in events
  /\ \A m \in events : Kind(m) # "trade" => TypedRows(m, {}) \subseteq typed
  /\ \A row \in typed : row[2] \in events
  /\ \A row, other \in typed :
       row[1] = "live_trades" /\ other[1] = "live_trades" /\ row[3] = other[3] => row = other
  /\ session = "completed" =>
       \A s \in Streams : \A n \in 1..taken[s] : <<s, n>> \in events
  /\ collector = "ok" => session = "completed"

\* A capture comes to its end whatever its streams do: no reader is left waiting
\* for room in the queue, no collector for an answer (CaptureWriter::finish).
CaptureEnds == (collector = "sleeping") ~> (collector \in Returned)
=============================================================================
