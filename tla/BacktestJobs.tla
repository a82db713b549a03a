---------------------------- MODULE BacktestJobs ----------------------------
(***************************************************************************)
(* Backtest jobs (src/api/backtests.rs): requests create a job, a spawned  *)
(* task drives one blocking worker through the engine and reports in the   *)
(* jobs map, browsers poll by job id (web/backtests.js) and keep the id in *)
(* local storage across restarts of the service.                           *)
(*                                                                         *)
(* The engine is what Backtest models; here it is the status its run ends  *)
(* with and the progress it calls back.  A ticket stands for one accepted  *)
(* submission; the code has none, it is there to say whose job an answer   *)
(* is about.                                                               *)
(***************************************************************************)
EXTENDS Integers, FiniteSets

CONSTANTS
  Clients,     \* browsers
  MaxTickets,  \* bound on accepted submissions
  MaxIds,      \* bound on ids taken by one process
  MaxRestarts  \* bound on restarts

Tickets == 1..MaxTickets
Ids == 1..MaxIds
Percent == {0, 50, 100}

ASSUME JobsAssumption == MaxTickets \in Nat /\ MaxIds \in Nat /\ MaxRestarts \in Nat

VARIABLES
  jobs,       \* BacktestApiState.jobs: id -> [ticket, status, percent], or NoJob
  nextId,     \* next_job_id
  worker,     \* ticket -> where its task and blocking worker are
  run,        \* ticket -> status of its trading_runs row, "none" without one
  at,         \* client -> where its create request is
  id,         \* client -> job_id its create request took
  holds,      \* client -> job id it polls, 0 for none
  mine,       \* client -> ticket of the submission it polls for
  seen,       \* client -> last job it was answered with
  accepted,   \* tickets given out
  restarts    \* restarts so far

browser == <<holds, mine, seen>>
vars == <<jobs, nextId, worker, run, at, id, browser, accepted, restarts>>

NoJob == [ticket |-> 0, status |-> "none", percent |-> 0]
Statuses == {"queued", "running", "completed", "failed"}
Jobs == [ticket : Tickets, status : Statuses, percent : Percent] \cup {NoJob}
Unfinished == {"queued", "running"}

\* From the spawn of the task to the last update of its job.
Driving == {"spawned", "engine", "view", "ok", "err"}

TypeOK ==
  /\ jobs \in [Ids -> Jobs]
  /\ nextId \in 1..(MaxIds + 1)
  /\ worker \in [Tickets -> {"none", "ended"} \cup Driving]
  /\ run \in [Tickets -> {"none", "created", "running", "completed", "failed"}]
  /\ at \in [Clients -> {"idle", "check", "admit"}]
  /\ id \in [Clients -> 0..MaxIds]
  /\ holds \in [Clients -> 0..MaxIds]
  /\ mine \in [Clients -> 0..MaxTickets]
  /\ seen \in [Clients -> Jobs]
  /\ accepted \in 0..MaxTickets
  /\ restarts \in 0..MaxRestarts

Init ==
  /\ jobs = [i \in Ids |-> NoJob]
  /\ nextId = 1
  /\ worker = [t \in Tickets |-> "none"]
  /\ run = [t \in Tickets |-> "none"]
  /\ at = [c \in Clients |-> "idle"]
  /\ id = [c \in Clients |-> 0]
  /\ holds = [c \in Clients |-> 0]
  /\ mine = [c \in Clients |-> 0]
  /\ seen = [c \in Clients |-> NoJob]
  /\ accepted = 0
  /\ restarts = 0

-----------------------------------------------------------------------------
(* create_job *)

\* A browser with a job in local storage has its form disabled.
Submit(c) ==
  /\ at[c] = "idle" /\ holds[c] = 0
  /\ at' = [at EXCEPT ![c] = "check"]
  /\ UNCHANGED <<jobs, nextId, worker, run, id, browser, accepted, restarts>>

\* The await on historical_dataset_info, where the request may also be dropped or
\* refused; then the id is taken, whether or not the job is admitted.
CheckDataset(c) ==
  /\ at[c] = "check"
  /\ \/ /\ nextId \in Ids
        /\ id' = [id EXCEPT ![c] = nextId]
        /\ nextId' = nextId + 1
        /\ at' = [at EXCEPT ![c] = "admit"]
     \/ at' = [at EXCEPT ![c] = "idle"] /\ UNCHANGED <<id, nextId>>
  /\ UNCHANGED <<jobs, worker, run, browser, accepted, restarts>>

\* Defect: a queued job does not count.
BusyRunning == \E i \in Ids : jobs[i].status = "running"

Busy == \E i \in Ids : jobs[i].status \in Unfinished

\* Under the lock: refused while a job is unfinished, else inserted; the task is
\* spawned before the response is sent, which may never reach the browser.
Admit(c) ==
  /\ at[c] = "admit"
  /\ at' = [at EXCEPT ![c] = "idle"]
  /\ IF Busy
     THEN UNCHANGED <<jobs, worker, browser, accepted>>
     ELSE /\ accepted < MaxTickets
          /\ accepted' = accepted + 1
          /\ jobs' = [jobs EXCEPT ![id[c]] =
               [ticket |-> accepted', status |-> "queued", percent |-> 0]]
          /\ worker' = [worker EXCEPT ![accepted'] = "spawned"]
          /\ \/ /\ holds' = [holds EXCEPT ![c] = id[c]]
                /\ mine' = [mine EXCEPT ![c] = accepted']
                /\ seen' = [seen EXCEPT ![c] = jobs'[id[c]]]
             \/ UNCHANGED browser
  /\ UNCHANGED <<nextId, run, id, restarts>>

-----------------------------------------------------------------------------
(* The spawned task and execute_job *)

Update(t, status, percent) ==
  jobs' = [i \in Ids |-> IF jobs[i].ticket = t
                         THEN [jobs[i] EXCEPT !.status = status, !.percent = percent]
                         ELSE jobs[i]]

PercentOf(t) == (CHOOSE j \in {jobs[i] : i \in Ids} : j.ticket = t).percent

RunTask(t) ==
  /\ worker[t] = "spawned"
  /\ Update(t, "running", PercentOf(t))
  /\ worker' = [worker EXCEPT ![t] = "engine"]
  /\ UNCHANGED <<nextId, run, at, id, browser, accepted, restarts>>

\* Defect: the callback adds to the percentage.
ReportProgressAdds(t) ==
  /\ worker[t] = "engine" /\ run[t] \in {"none", "running"}
  /\ Update(t, "running", PercentOf(t) + 50)
  /\ UNCHANGED <<nextId, worker, run, at, id, browser, accepted, restarts>>

\* The progress callback only raises the percentage.
ReportProgress(t) ==
  /\ worker[t] = "engine" /\ run[t] \in {"none", "running"}
  /\ \E p \in Percent \ {100} :
       /\ p > PercentOf(t)
       /\ Update(t, "running", p)
  /\ UNCHANGED <<nextId, worker, run, at, id, browser, accepted, restarts>>

\* create_trading_run and the running status: a failure of the second leaves created.
BeginReplay(t) ==
  /\ worker[t] = "engine" /\ run[t] = "none"
  /\ \/ run' = [run EXCEPT ![t] = "running"] /\ UNCHANGED worker
     \/ run' = [run EXCEPT ![t] = "created"] /\ worker' = [worker EXCEPT ![t] = "err"]
  /\ UNCHANGED <<jobs, nextId, at, id, browser, accepted, restarts>>

\* The engine returns an error or panics: the run may be failed or left as it is.
ReplayFails(t) ==
  /\ worker[t] = "engine"
  /\ worker' = [worker EXCEPT ![t] = "err"]
  /\ run' \in {run} \cup (IF run[t] = "running" THEN {[run EXCEPT ![t] = "failed"]} ELSE {})
  /\ UNCHANGED <<jobs, nextId, at, id, browser, accepted, restarts>>

\* The last callback, 100, comes after the completed status.
ReplayCompletes(t) ==
  /\ worker[t] = "engine" /\ run[t] = "running"
  /\ run' = [run EXCEPT ![t] = "completed"]
  /\ Update(t, "running", 100)
  /\ worker' = [worker EXCEPT ![t] = "view"]
  /\ UNCHANGED <<nextId, at, id, browser, accepted, restarts>>

\* build_run_view reads the record back; its failure fails the job, not the run.
BuildRunView(t) ==
  /\ worker[t] = "view"
  /\ worker' \in {[worker EXCEPT ![t] = "ok"], [worker EXCEPT ![t] = "err"]}
  /\ UNCHANGED <<jobs, nextId, run, at, id, browser, accepted, restarts>>

\* Defect: a failed job is reported completed.
FinishSwapped(t) ==
  /\ worker[t] \in {"ok", "err"}
  /\ Update(t, "completed", 100)
  /\ worker' = [worker EXCEPT ![t] = "ended"]
  /\ UNCHANGED <<nextId, run, at, id, browser, accepted, restarts>>

\* Defect: failing puts the percentage back to zero.
FinishReset(t) ==
  /\ worker[t] \in {"ok", "err"}
  /\ IF worker[t] = "ok" THEN Update(t, "completed", 100) ELSE Update(t, "failed", 0)
  /\ worker' = [worker EXCEPT ![t] = "ended"]
  /\ UNCHANGED <<nextId, run, at, id, browser, accepted, restarts>>

\* Defect: an error leaves the job as it was.
FinishOnSuccess(t) ==
  /\ worker[t] \in {"ok", "err"}
  /\ IF worker[t] = "ok" THEN Update(t, "completed", 100) ELSE UNCHANGED jobs
  /\ worker' = [worker EXCEPT ![t] = "ended"]
  /\ UNCHANGED <<nextId, run, at, id, browser, accepted, restarts>>

FinishJob(t) ==
  /\ worker[t] \in {"ok", "err"}
  /\ IF worker[t] = "ok" THEN Update(t, "completed", 100)
                         ELSE Update(t, "failed", PercentOf(t))
  /\ worker' = [worker EXCEPT ![t] = "ended"]
  /\ UNCHANGED <<nextId, run, at, id, browser, accepted, restarts>>

Work(t) ==
  \/ RunTask(t) \/ BeginReplay(t) \/ ReplayFails(t) \/ ReplayCompletes(t)
  \/ BuildRunView(t) \/ FinishJob(t)

-----------------------------------------------------------------------------
(* job_status, and pollBacktestJob of the browser *)

\* Not found and a finished job take the id out of local storage.
Poll(c) ==
  /\ holds[c] # 0
  /\ LET job == jobs[holds[c]]
     IN /\ seen' = [seen EXCEPT ![c] = IF job = NoJob THEN @ ELSE job]
        /\ holds' = [holds EXCEPT ![c] = IF job.status \in Unfinished THEN @ ELSE 0]
        /\ UNCHANGED mine
  /\ UNCHANGED <<jobs, nextId, worker, run, at, id, accepted, restarts>>

\* The process starts again: ids count from 1, the map is empty, the worker and every
\* request are gone.  Rows and local storage stay.
Restart ==
  /\ restarts < MaxRestarts
  /\ restarts' = restarts + 1
  /\ jobs' = [i \in Ids |-> NoJob]
  /\ nextId' = 1
  /\ worker' = [t \in Tickets |-> IF worker[t] \in Driving THEN "ended" ELSE worker[t]]
  /\ at' = [c \in Clients |-> "idle"]
  /\ id' = [c \in Clients |-> 0]
  /\ UNCHANGED <<run, browser, accepted>>

Next ==
  \/ \E c \in Clients : Submit(c) \/ CheckDataset(c) \/ Admit(c) \/ Poll(c)
  \/ \E t \in Tickets : ReportProgress(t) \/ Work(t)
  \/ Restart

Spec == Init /\ [][Next]_vars

\* The runtime polls the task and the blocking pool runs the worker; a replay over
\* finitely many candles ends.  Nothing obliges a browser or the host.
FairSpec == Spec /\ \A t \in Tickets : WF_vars(Work(t))

-----------------------------------------------------------------------------
(* Properties *)

\* However requests interleave between the dataset check and the lock, one replay
\* occupies the service at a time.
OneReplayAtATime == Cardinality({t \in Tickets : worker[t] \in Driving}) <= 1

\* A job is reported completed only when its run is completed in the record, and a job
\* whose worker is gone is not reported unfinished.
JobTellsTheTruth ==
  \A i \in Ids :
    /\ jobs[i].status = "completed" => run[jobs[i].ticket] = "completed"
    /\ jobs[i].status \in Unfinished => worker[jobs[i].ticket] \in Driving

Rank(job) == CASE job.status = "queued" -> 0 [] job.status = "running" -> 1 [] OTHER -> 2

\* What a browser is shown of its own job never goes back, in status or percentage, and a
\* final answer does not change.
PollsGoForward ==
  [][\A c \in Clients : seen[c].ticket = seen'[c].ticket =>
       /\ Rank(seen[c]) <= Rank(seen'[c])
       /\ seen[c].percent <= seen'[c].percent
       /\ Rank(seen[c]) = 2 => seen'[c] = seen[c]]_vars

\* No job, failing at whatever step, blocks those after it: the service is again and
\* again ready to admit one.
BusyEnds == []<>~Busy

\* Polling a job id answers about the job that id was given out for.
PollAnswersOwnJob ==
  \A c \in Clients : seen[c].ticket \in {0, mine[c]}
=============================================================================
