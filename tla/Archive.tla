------------------------------ MODULE Archive ------------------------------
(***************************************************************************)
(* The Data Downloader for one data entry: planning, fetching and importing *)
(* the public 1-minute archives (src/downloader.rs), the rows it keeps      *)
(* (src/storage/reader.rs) and the requests that reach it (src/api/data.rs). *)
(*                                                                         *)
(* Time is in days and a day's candles are one; a month has MonthLength    *)
(* days.  A request's future is dropped when its client goes away, but the *)
(* blocking storage call it was waiting for goes on: an orphan.  A call is  *)
(* a tuple of its name and arguments.  The provider and interval are the   *)
(* only ones create_download accepts, so UnsupportedEntry is left out.     *)
(***************************************************************************)
EXTENDS Integers, Sequences, FiniteSets

CONSTANTS
  MonthLength,
  FirstToday,  \* the day it is at first
  MaxToday,    \* bound: the last day it becomes
  Starts,      \* the start dates users ask for
  MaxOrphans,  \* bound: dropped calls still to run
  MaxRuns      \* bound: runs begun

ASSUME ArchiveAssumption ==
  /\ MonthLength \in Nat \ {0}
  /\ MaxToday \in Nat /\ FirstToday \in 1..MaxToday
  /\ Starts \subseteq 1..MaxToday
  /\ MaxOrphans \in Nat /\ MaxRuns \in Nat

VARIABLES
  today,
  entry,     \* the data_downloads row
  receipts,  \* archive -> status of its historical_imports row
  candles,   \* days in historical_ohlcv
  dataset,   \* start and end of the historical_datasets row, 0 before it is there
  run,       \* ArchiveDownloader::run, or the way the last one ended
  orphans,   \* calls whose request was dropped
  progress,  \* ArchiveDownloader.progress
  answer,    \* what the last run that returned Ok answered
  begun,     \* runs begun
  edit       \* start date an update_data_download_start_date is about to write

archiveRows == <<entry, receipts, candles, dataset>>
archiveVars == <<today, archiveRows, run, orphans, progress, answer, begun, edit>>

-----------------------------------------------------------------------------
(* The calendar and the plan. *)

Days == 1..MaxToday
SafeArchiveCutoff(day) == day - 2
IsFirstOfMonth(day) == day % MonthLength = 1 % MonthLength
LastDayOfMonth(day) == ((day - 1) \div MonthLength + 1) * MonthLength

Archive(kind, first, last) == [kind |-> kind, first |-> first, last |-> last]
Daily(day) == Archive("daily_zip", day, day)
Monthly(day) == Archive("monthly_zip", day, LastDayOfMonth(day))
Archives ==
  {Daily(d) : d \in Days} \cup {Monthly(d) : d \in {e \in Days : IsFirstOfMonth(e)}}

\* plan_archives: a month that is over from its first day on is one archive.
PlanArchives(start, cutoff) ==
  LET plan[d \in start..(start + MaxToday + MonthLength)] ==
        IF d > cutoff THEN <<>>
        ELSE IF IsFirstOfMonth(d) /\ LastDayOfMonth(d) <= cutoff
             THEN <<Monthly(d)>> \o plan[LastDayOfMonth(d) + 1]
             ELSE <<Daily(d)>> \o plan[d + 1]
  IN plan[start]

-----------------------------------------------------------------------------
(* Fetching. *)

\* What a request for a file may come to, three times at most.
Responses == {"success", "too_large", "body_error", "client_error", "server_error", "request_error"}
Retried == {"server_error", "request_error"}

\* download_bytes gets the file.
DownloadBytes(response) ==
  \E i \in 1..3 : response[i] = "success" /\ \A j \in 1..(i - 1) : response[j] \in Retried
Downloads == {DownloadBytes(response) : response \in [1..3 -> Responses]}

\* Two records that are no candles: the header, and one with a field missing.
Header == 0
Short == -1

\* parse_klines: the rows in the archive's range, {} when it returns an error.
ParseKlines(records, archive) ==
  LET found == {records[i] : i \in 1..Len(records)}
  IN IF Short \in found THEN {} ELSE (found \ {Header}) \cap (archive.first..archive.last)

\* The files Binance may serve for an archive: whole, with a day too many, damaged.
Files(archive) ==
  LET days == [i \in 1..(archive.last - archive.first + 1) |-> archive.first + i - 1]
  IN {<<Header>> \o days, Append(days, archive.last + 1), Append(days, Short), <<>>}

\* download_and_parse: the file and its checksum, both fetched, must agree.
DownloadAndParse(archive, file, fileCame, sumCame, sumAgrees) ==
  IF fileCame /\ sumCame /\ sumAgrees THEN ParseKlines(file, archive) ELSE {}

-----------------------------------------------------------------------------
ActiveRun == {"preparing", "marking", "fetching", "importing", "noting", "finishing"}
NoRun(how) ==
  [at |-> how, requested |-> 0, hadNone |-> FALSE, start |-> 0, cutoff |-> 0, missing |-> <<>>, total |-> 0,
   rows |-> {}, kept |-> FALSE, failed |-> FALSE, clean |-> FALSE]
NoProgress == [status |-> "none", processed |-> 0, total |-> 0]
NoAnswer == [status |-> "none", start |-> 1, cutoff |-> 0]
Finals == {"complete", "partial", "failed"}

Calls ==
  {<<"read", d>> : d \in {0} \cup Starts} \cup {<<"mark", d, none>> : d \in Starts, none \in BOOLEAN}
    \cup {<<"import", a, rows>> : a \in Archives, rows \in SUBSET Days}
    \cup {<<"note", a>> : a \in Archives} \cup {<<"finish", status>> : status \in Finals}

ArchiveTypeOK ==
  /\ today \in Days
  /\ entry.status \in {"absent", "not_started", "downloading"} \cup Finals
  /\ entry.start \in {0} \cup Starts
  /\ receipts \in [Archives -> {"none", "imported", "failed"}]
  /\ candles \subseteq Days
  /\ dataset[1] \in 0..dataset[2]
  /\ run.at \in {"none", "answered", "refused", "dropped"} \cup ActiveRun
  /\ run.total \in Nat /\ Len(run.missing) <= run.total
  /\ orphans \subseteq Calls /\ Cardinality(orphans) <= MaxOrphans
  /\ progress.status \in {"none", "preparing", "running"} \cup Finals
  /\ progress.processed \in 0..progress.total
  /\ answer.status \in {"none"} \cup Finals
  /\ begun \in 0..MaxRuns
  /\ edit \in {0} \cup Starts

\* No entry, or one saved when a start date was not asked for.
ArchiveInit ==
  /\ today = FirstToday
  /\ entry \in {[status |-> s, start |-> 0] : s \in {"absent", "not_started"}}
  /\ receipts = [a \in Archives |-> "none"]
  /\ candles = {} /\ dataset = <<0, 0>>
  /\ run = NoRun("none") /\ orphans = {}
  /\ progress = NoProgress /\ answer = NoAnswer /\ begun = 0 /\ edit = 0

-----------------------------------------------------------------------------
(* The storage calls. *)

\* Defect: the range takes every new start.
EnsureKlineDatasetAnew(first, last) ==
  dataset' = IF dataset = <<0, 0>> THEN <<first, last>> ELSE <<first, dataset[2]>>

\* ensure_kline_dataset widens what the catalog shows, for a failed archive too.
EnsureKlineDataset(first, last) ==
  dataset' = IF dataset = <<0, 0>> THEN <<first, last>>
             ELSE <<IF first < dataset[1] THEN first ELSE dataset[1],
                    IF last > dataset[2] THEN last ELSE dataset[2]>>

FirstOf(rows) == CHOOSE d \in rows : \A e \in rows : d <= e
LastOf(rows) == CHOOSE d \in rows : \A e \in rows : d >= e

\* import_historical_klines: rows and receipt in one transaction.
ImportHistoricalKlines(archive, rows) ==
  /\ EnsureKlineDataset(FirstOf(rows), LastOf(rows))
  /\ candles' = candles \cup rows
  /\ receipts' = [receipts EXCEPT ![archive] = "imported"]
  /\ UNCHANGED entry

RecordArchiveFailure(archive) ==
  /\ EnsureKlineDataset(archive.first, archive.last)
  /\ receipts' = [receipts EXCEPT ![archive] = "failed"]
  /\ UNCHANGED <<entry, candles>>

FinishArchiveDownload(status) ==
  /\ entry' = [entry EXCEPT !.status = status]
  /\ UNCHANGED <<receipts, candles, dataset>>

\* prepare_archive_download up to its checks: the start date it goes by, 0 when refused.
SavedStart(requested) ==
  IF entry.status = "absent" THEN 0
  ELSE IF entry.start = 0 THEN requested
  ELSE IF requested \in {0, entry.start} THEN entry.start ELSE 0

\* ... and its writes. A row that has a start by then keeps it.
MarkDownloading(start, hadNone) ==
  /\ entry' = [status |-> "downloading", start |-> IF hadNone THEN start ELSE entry.start]
  /\ UNCHANGED <<receipts, candles, dataset>>

-----------------------------------------------------------------------------
(* ArchiveDownloader::run. *)

Refuse ==
  /\ run' = NoRun("refused")
  /\ progress' = [progress EXCEPT !.status = "failed"]  \* mark_progress_failed

\* run: a second request is refused by try_lock and changes nothing.
BeginRun(requested) ==
  /\ run.at \notin ActiveRun
  /\ begun < MaxRuns /\ begun' = begun + 1
  /\ run' = [NoRun("preparing") EXCEPT !.requested = requested, !.clean = orphans = {}]
  /\ progress' = [status |-> "preparing", processed |-> 0, total |-> 0]
  /\ UNCHANGED <<edit, today, archiveRows, orphans, answer>>

ReadEntry ==
  /\ run.at = "preparing"
  /\ \/ /\ SavedStart(run.requested) # 0
        /\ run' = [run EXCEPT !.at = "marking", !.requested = 0, !.hadNone = entry.start = 0,
                              !.start = SavedStart(run.requested)]
        /\ UNCHANGED progress
     \/ Refuse
  /\ UNCHANGED <<edit, begun, today, archiveRows, orphans, answer>>

\* Defect: an archive that failed once is never fetched again.
NeverTried(archive) == receipts[archive] = "none"
IsMissing(archive) == receipts[archive] # "imported"

\* The archives of a plan that are missing, in its order.
MissingOf(plan) ==
  LET missing[i \in 0..Len(plan)] ==
        IF i = 0 THEN <<>>
        ELSE IF IsMissing(plan[i]) THEN Append(missing[i - 1], plan[i]) ELSE missing[i - 1]
  IN missing[Len(plan)]

\* The rest of the call, the plan, and what of it is still to be fetched.
PlanRun ==
  /\ run.at = "marking"
  /\ \/ LET cutoff == SafeArchiveCutoff(today)
            plan == PlanArchives(run.start, cutoff)
            missing == MissingOf(plan)
        IN /\ MarkDownloading(run.start, run.hadNone)
           /\ run' = [run EXCEPT !.at = IF missing = <<>> THEN "finishing" ELSE "fetching",
                                 !.cutoff = cutoff, !.missing = missing,
                                 !.total = Len(missing), !.kept = Len(missing) < Len(plan)]
           /\ progress' = [status |-> "running", processed |-> 0, total |-> Len(missing)]
     \/ Refuse /\ UNCHANGED archiveRows
  /\ UNCHANGED <<edit, begun, today, orphans, answer>>

Fetch ==
  /\ run.at = "fetching"
  /\ \E fileCame, sumCame \in Downloads, sumAgrees \in BOOLEAN, file \in Files(Head(run.missing)) :
       LET rows == DownloadAndParse(Head(run.missing), file, fileCame, sumCame, sumAgrees)
       IN run' = [run EXCEPT !.rows = rows, !.at = IF rows = {} THEN "noting" ELSE "importing"]
  /\ UNCHANGED <<edit, begun, today, archiveRows, orphans, progress, answer>>

\* The archive is dealt with: count it, and go on to the next or to the end.
NextArchive(kept, failed) ==
  LET rest == Tail(run.missing)
  IN /\ run' = [run EXCEPT !.missing = rest, !.rows = {},
                           !.kept = run.kept \/ kept, !.failed = run.failed \/ failed,
                           !.at = IF rest = <<>> THEN "finishing" ELSE "fetching"]
     /\ progress' = [progress EXCEPT !.processed = run.total - Len(rest)]

Import ==
  /\ run.at = "importing"
  /\ \/ ImportHistoricalKlines(Head(run.missing), run.rows) /\ NextArchive(TRUE, FALSE)
     \/ Refuse /\ UNCHANGED archiveRows
  /\ UNCHANGED <<edit, begun, today, orphans, answer>>

\* The result of record_archive_failure is not looked at.
NoteFailure ==
  /\ run.at = "noting"
  /\ RecordArchiveFailure(Head(run.missing)) \/ UNCHANGED archiveRows
  /\ NextArchive(FALSE, TRUE)
  /\ UNCHANGED <<edit, begun, today, orphans, answer>>

FinalStatus ==
  IF ~run.failed THEN "complete" ELSE IF run.kept THEN "partial" ELSE "failed"

Finish ==
  /\ run.at = "finishing"
  /\ \/ /\ FinishArchiveDownload(FinalStatus)
        /\ run' = [run EXCEPT !.at = "answered"]
        /\ progress' = [status |-> FinalStatus, processed |-> run.total, total |-> run.total]
        /\ answer' = [status |-> FinalStatus, start |-> run.start, cutoff |-> run.cutoff]
     \/ Refuse /\ UNCHANGED <<archiveRows, answer>>
  /\ UNCHANGED <<edit, begun, today, orphans>>

RunStep == ReadEntry \/ PlanRun \/ Fetch \/ Import \/ NoteFailure \/ Finish

-----------------------------------------------------------------------------
(* Dropped requests, restarts and the other requests. *)

CallOf ==
  CASE run.at = "preparing" -> {<<"read", run.requested>>}
    [] run.at = "marking" -> {<<"mark", run.start, run.hadNone>>}
    [] run.at = "fetching" -> {}
    [] run.at = "importing" -> {<<"import", Head(run.missing), run.rows>>}
    [] run.at = "noting" -> {<<"note", Head(run.missing)>>}
    [] run.at = "finishing" -> {<<"finish", FinalStatus>>}

\* The client goes away: the guard is released, the progress stays as it is.
DropRequest ==
  /\ run.at \in ActiveRun
  /\ orphans' = orphans \cup CallOf
  /\ Cardinality(orphans') <= MaxOrphans
  /\ run' = NoRun("dropped")
  /\ UNCHANGED <<edit, begun, today, archiveRows, progress, answer>>

OrphanCall(call) ==
  /\ call \in orphans
  /\ \/ call[1] = "read" /\ SavedStart(call[2]) # 0
          /\ MarkDownloading(SavedStart(call[2]), entry.start = 0)
     \/ call[1] = "mark" /\ MarkDownloading(call[2], call[3])
     \/ call[1] = "import" /\ ImportHistoricalKlines(call[2], call[3])
     \/ call[1] = "note" /\ RecordArchiveFailure(call[2])
     \/ call[1] = "finish" /\ FinishArchiveDownload(call[2])
     \/ UNCHANGED archiveRows
  /\ orphans' = orphans \ {call}
  /\ UNCHANGED <<edit, begun, today, run, progress, answer>>

\* The process dies. Nothing repairs the row of a download at the next start.
ArchiveCrash ==
  /\ run.at \in ActiveRun \/ orphans # {}
  /\ run' = NoRun("dropped") /\ orphans' = {} /\ progress' = NoProgress /\ edit' = 0
  /\ UNCHANGED <<begun, today, archiveRows, answer>>

\* create_data_download. Of two at once the unique index lets one in.
CreateDownload(start) ==
  /\ entry.status = "absent"
  /\ entry' = [status |-> "not_started", start |-> start]
  /\ UNCHANGED <<edit, begun, today, receipts, candles, dataset, run, orphans, progress, answer>>

\* update_data_download_start_date looks at the status and writes in two
\* statements; a download may begin in between.
CheckStartDate(start) ==
  /\ edit = 0 /\ entry.status \notin {"absent", "downloading"}
  /\ edit' = start
  /\ UNCHANGED <<begun, today, archiveRows, run, orphans, progress, answer>>

UpdateStartDate ==
  /\ edit # 0
  /\ edit' = 0 /\ entry' = [entry EXCEPT !.start = edit]
  /\ UNCHANGED <<begun, today, receipts, candles, dataset, run, orphans, progress, answer>>

NextDay ==
  /\ today < MaxToday
  /\ today' = today + 1
  /\ UNCHANGED <<edit, begun, archiveRows, run, orphans, progress, answer>>

Request ==
  \/ \E requested \in {0} \cup Starts : BeginRun(requested)
  \/ \E start \in Starts : CreateDownload(start) \/ CheckStartDate(start)
  \/ UpdateStartDate

ArchiveNext ==
  \/ RunStep \/ Request \/ DropRequest \/ ArchiveCrash \/ NextDay
  \/ \E call \in orphans : OrphanCall(call)

ArchiveFairness == WF_archiveVars(RunStep)
ArchiveSpec == ArchiveInit /\ [][ArchiveNext]_archiveVars /\ ArchiveFairness

-----------------------------------------------------------------------------
\* An archive that later runs will skip has all its days stored, the catalog's
\* range hides no candle, and a run that answers "complete" leaves no day without
\* candles from its start date to the publication cutoff, whatever runs, drops,
\* crashes and changed dates came before (run_inner, prepare_archive_download).
\* What it answers is what its row says, unless a dropped request's call was
\* still to come when it began.
DownloadIsWhole ==
  /\ \A a \in Archives : receipts[a] = "imported" => a.first..a.last \subseteq candles
  /\ \A d \in candles : dataset[1] <= d /\ d <= dataset[2]
  /\ answer.status = "complete" => answer.start..answer.cutoff \subseteq candles
  /\ run.at = "answered" => progress.status = answer.status
  /\ run.at = "answered" /\ run.clean => entry.status = answer.status
  /\ run.at \in ActiveRun => progress.status \in {"preparing", "running"}

\* A run ends whatever the exchange answers.
DownloadEnds == (run.at = "preparing") ~> (run.at \notin ActiveRun)
=============================================================================
