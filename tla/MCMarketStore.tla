--------------------------- MODULE MCMarketStore ---------------------------
(***************************************************************************)
(* The two writers of the market tables: the Data Downloader and a capture *)
(* started from the command line on the same database.  They have no table *)
(* in common but market_instruments, where each adds a row unless it is    *)
(* there, and share SQLite's write lock, whose timeout is a failed         *)
(* statement of either module.  Their steps commute, so a behaviour of both *)
(* is an interleaving of one of each, and active says which is explored.   *)
(***************************************************************************)
EXTENDS Archive, Capture, TLC

CONSTANTS market, public

VARIABLE active

\* USD-M: candles and aggregate trades on one url, quotes and depth on the other.
\* The exchange repeats a trade.
MCKindOf == (market :> <<"trade", "trade", "kline">>) @@ (public :> <<"book_ticker", "depth">>)
MCTradeOf == (market :> <<1, 1, 0>>) @@ (public :> <<0, 0>>)

vars == <<active, archiveVars, captureVars>>

Downloading(A) == active = "archive" /\ A /\ UNCHANGED <<active, captureVars>>
Capturing(A) == active = "capture" /\ A /\ UNCHANGED <<active, archiveVars>>

Init == active \in {"archive", "capture"} /\ ArchiveInit /\ CaptureInit
Next == Downloading(ArchiveNext) \/ Capturing(CaptureNext)

\* ArchiveFairness and CaptureFairness, each of the one that is explored.
Fairness ==
  /\ WF_vars(Downloading(RunStep))
  /\ WF_vars(Capturing(WriterStep)) /\ WF_vars(Capturing(CollectorStep))
  /\ \A s \in Streams : WF_vars(Capturing(Record(s))) /\ WF_vars(Capturing(Aborted(s)))
Spec == Init /\ [][Next]_vars /\ Fairness

TypeOK == ArchiveTypeOK /\ CaptureTypeOK

\* A download that began ends, and a capture that sleeps ends: neither waits for ever
\* for the exchange, the queue or the database.
StoreSettles == DownloadEnds /\ CaptureEnds
=============================================================================
