------------------------- MODULE BacktestJobsProofs -------------------------
(***************************************************************************)
(* What the backtest service keeps, for every number of browsers,          *)
(* submissions, ids and restarts (BacktestJobs, src/api/backtests.rs).     *)
(***************************************************************************)
EXTENDS BacktestJobs, FiniteSetTheorems, TLAPS

\* A ticket has one job at most, under an id that has been taken.
JobInv ==
  /\ \A i \in Ids : jobs[i] # NoJob => i < nextId /\ jobs[i].ticket <= accepted
  /\ \A i, j \in Ids : jobs[i] # NoJob /\ jobs[i].ticket = jobs[j].ticket => i = j

\* An id taken by a request that is still to be admitted is nobody else's.
IdInv ==
  \A c \in Clients : at[c] = "admit" =>
    /\ id[c] \in Ids /\ id[c] < nextId /\ jobs[id[c]] = NoJob
    /\ \A d \in Clients : at[d] = "admit" /\ id[d] = id[c] => d = c

\* A worker drives the one unfinished job, and a replay that is whole is completed in the
\* record before anything says so.
WorkerInv ==
  /\ \A t \in Tickets : t > accepted => worker[t] = "none" /\ run[t] = "none"
  /\ \A t \in Tickets : worker[t] \in Driving =>
       \E i \in Ids : jobs[i].ticket = t /\ jobs[i].status \in Unfinished
  /\ \A i, j \in Ids : jobs[i].status \in Unfinished /\ jobs[j].status \in Unfinished => i = j
  /\ \A t \in Tickets : worker[t] \in {"view", "ok"} => run[t] = "completed"

\* What a browser was answered with is the job or an earlier state of it.
NotAhead(shown, job) ==
  /\ Rank(shown) <= Rank(job)
  /\ shown.percent <= job.percent
  /\ Rank(shown) = 2 => job = shown

SeenInv ==
  \A c \in Clients :
    /\ seen[c].ticket <= accepted
    /\ \A i \in Ids : jobs[i] # NoJob /\ jobs[i].ticket = seen[c].ticket
                        => NotAhead(seen[c], jobs[i])

IInv == TypeOK /\ JobInv /\ IdInv /\ WorkerInv /\ JobTellsTheTruth /\ SeenInv

-----------------------------------------------------------------------------
(* Jobs *)

\* The fields of an entry of the jobs map, and when there is none.
LEMMA JobFields ==
  ASSUME NEW j \in Jobs
  PROVE  /\ j.ticket \in Nat /\ j.percent \in Percent /\ j.percent \in Nat
         /\ j.status \in Statuses \cup {"none"}
         /\ (j = NoJob) <=> (j.ticket = 0)
         /\ (j = NoJob) <=> (j.status = "none")
         /\ j.ticket # 0 => j.ticket \in Tickets
         /\ j.ticket # 0 => j = [ticket |-> j.ticket, status |-> j.status, percent |-> j.percent]
<1>1. CASE j = NoJob
  BY <1>1 DEF NoJob, Percent
<1>2. CASE j \in [ticket : Tickets, status : Statuses, percent : Percent]
  <2>1. /\ j.ticket \in Tickets /\ j.status \in Statuses /\ j.percent \in Percent
        /\ j = [ticket |-> j.ticket, status |-> j.status, percent |-> j.percent]
    BY <1>2
  <2>2. j.ticket \in Nat /\ j.ticket # 0 /\ j.percent \in Nat /\ j.status # "none"
    BY <2>1 DEF Tickets, Statuses, Percent
  <2>3. j # NoJob
    BY <2>2 DEF NoJob
  <2> QED
    BY <2>1, <2>2, <2>3
<1> QED
  BY <1>1, <1>2 DEF Jobs

\* A job's progress is ordered (Rank), and nothing comes after its end.
LEMMA RankOf ==
  ASSUME NEW j \in Jobs
  PROVE  /\ Rank(j) \in {0, 1, 2}
         /\ j.status = "queued" <=> Rank(j) = 0
         /\ j.status = "running" <=> Rank(j) = 1
BY JobFields DEF Rank, Statuses

\* What a job was is not ahead of what it became of it, over any number of steps.
LEMMA NotAheadChains ==
  ASSUME NEW a \in Jobs, NEW b \in Jobs, NEW c \in Jobs, NotAhead(a, b), NotAhead(b, c)
  PROVE  NotAhead(a, c)
<1>1. /\ a.percent \in Nat /\ b.percent \in Nat /\ c.percent \in Nat
      /\ Rank(a) \in {0, 1, 2} /\ Rank(b) \in {0, 1, 2} /\ Rank(c) \in {0, 1, 2}
  BY JobFields, RankOf
<1>2. Rank(a) = 2 => c = a
  BY <1>1 DEF NotAhead
<1> QED
  BY <1>1, <1>2 DEF NotAhead

\* Updating the job of a ticket changes the one entry that is its (the closures of
\* execute_job).
LEMMA UpdateOne ==
  ASSUME TypeOK, JobInv, NEW i \in Ids, NEW t \in Tickets, jobs[i].ticket = t,
         NEW s \in Statuses, NEW p \in Percent, Update(t, s, p)
  PROVE  /\ jobs' = [jobs EXCEPT ![i] = [ticket |-> t, status |-> s, percent |-> p]]
         /\ jobs' \in [Ids -> Jobs]
<1>1. jobs[i] # NoJob /\ jobs[i] \in Jobs
  BY JobFields DEF TypeOK, Tickets
<1>2. jobs[i] = [ticket |-> t, status |-> jobs[i].status, percent |-> jobs[i].percent]
  BY <1>1, JobFields
<1>3. \A k \in Ids : jobs[k].ticket = t => k = i
  BY <1>1 DEF JobInv
<1>4. [jobs[i] EXCEPT !.status = s, !.percent = p] = [ticket |-> t, status |-> s, percent |-> p]
  <2> DEFINE j == [jobs[i] EXCEPT !.status = s, !.percent = p]
  <2>1. jobs[i] \in [ticket : Tickets, status : Statuses, percent : Percent]
    BY <1>1 DEF Jobs
  <2>2. /\ j \in [ticket : Tickets, status : Statuses, percent : Percent]
        /\ j.ticket = t /\ j.status = s /\ j.percent = p
    BY <2>1
  <2> HIDE DEF j
  <2>3. j = [ticket |-> j.ticket, status |-> j.status, percent |-> j.percent]
    BY <2>2
  <2>4. j = [ticket |-> t, status |-> s, percent |-> p]
    BY <2>2, <2>3
  <2> QED
    BY <2>4 DEF j
<1>5. jobs' = [k \in Ids |-> IF k = i THEN [ticket |-> t, status |-> s, percent |-> p] ELSE jobs[k]]
  BY <1>3, <1>4 DEF Update
<1>6. [ticket |-> t, status |-> s, percent |-> p] \in Jobs
  BY DEF Jobs
<1> QED
  BY <1>5, <1>6 DEF TypeOK

\* The percentage the callbacks compare with is the job's.
LEMMA PercentIsJobs ==
  ASSUME TypeOK, JobInv, NEW i \in Ids, NEW t \in Tickets, jobs[i].ticket = t
  PROVE  PercentOf(t) = jobs[i].percent
<1>1. jobs[i] # NoJob /\ jobs[i] \in Jobs
  BY JobFields DEF TypeOK, Tickets
<1>2. \A j \in {jobs[k] : k \in Ids} : j.ticket = t => j = jobs[i]
  BY <1>1 DEF JobInv
<1>3. (CHOOSE j \in {jobs[k] : k \in Ids} : j.ticket = t) = jobs[i]
  BY <1>2
<1> QED
  BY <1>3 DEF PercentOf

-----------------------------------------------------------------------------
(* The worker *)

\* What a step of a ticket's worker does to its job, entry i of the map: the job moves on
\* or stays, and stops being unfinished when the worker ends.
Moves(t, i, j) ==
  /\ jobs' = [jobs EXCEPT ![i] = j]
  /\ j \in Jobs /\ j.ticket = t /\ NotAhead(jobs[i], j)
  /\ j.status \in Unfinished <=> worker'[t] \in Driving
  /\ j.status = "completed" => run'[t] = "completed"

\* Every step of a worker is taken while it drives an unfinished job, moves that job on and
\* touches nobody else's job, row or worker (execute_job).
LEMMA WorkerStep ==
  ASSUME IInv, NEW t \in Tickets, ReportProgress(t) \/ Work(t)
  PROVE  /\ UNCHANGED <<nextId, at, id, browser, accepted, restarts>>
         /\ worker[t] \in Driving
         /\ worker' \in [Tickets -> {"none", "ended"} \cup Driving]
         /\ run' \in [Tickets -> {"none", "created", "running", "completed", "failed"}]
         /\ \A u \in Tickets \ {t} : worker'[u] = worker[u] /\ run'[u] = run[u]
         /\ run[t] = "completed" => run'[t] = "completed"
         /\ worker'[t] \in {"view", "ok"} => run'[t] = "completed"
         /\ \E i \in Ids : /\ jobs[i].ticket = t /\ jobs[i].status \in Unfinished
                           /\ \E j : Moves(t, i, j)
<1> USE DEF IInv
<1>1. /\ UNCHANGED <<nextId, at, id, browser, accepted, restarts>>
      /\ worker[t] \in Driving
  BY DEF ReportProgress, Work, RunTask, BeginReplay, ReplayFails, ReplayCompletes, BuildRunView,
         FinishJob, Driving
<1>2. PICK i \in Ids : jobs[i].ticket = t /\ jobs[i].status \in Unfinished
  BY <1>1 DEF WorkerInv
<1>3. jobs[i] \in Jobs /\ jobs[i].percent \in Percent /\ PercentOf(t) = jobs[i].percent
  BY <1>2, PercentIsJobs, JobFields DEF TypeOK
<1>4. Rank(jobs[i]) \in {0, 1} /\ jobs[i].percent <= 100 /\ jobs[i].percent <= jobs[i].percent
  BY <1>2, <1>3, RankOf DEF Unfinished, Percent
<1>5. jobs' = jobs => jobs' = [jobs EXCEPT ![i] = jobs[i]]
  BY DEF TypeOK
<1> DEFINE New(s, p) == [ticket |-> t, status |-> s, percent |-> p]
<1>6. ASSUME NEW s \in Statuses, NEW p \in Percent, Update(t, s, p), p >= jobs[i].percent,
             s # "queued", s \in Unfinished <=> worker'[t] \in Driving,
             s = "completed" => run'[t] = "completed"
      PROVE  \E j : Moves(t, i, j)
  <2>1. jobs' = [jobs EXCEPT ![i] = New(s, p)]
    BY <1>2, <1>6, UpdateOne
  <2>2. New(s, p) \in Jobs
    BY DEF Jobs
  <2>3. Rank(New(s, p)) \in {1, 2}
    BY <1>6 DEF Rank, Statuses
  <2>4. NotAhead(jobs[i], New(s, p))
    BY <2>3, <1>4, <1>6 DEF NotAhead
  <2>5. New(s, p).ticket = t /\ New(s, p).status = s
    OBVIOUS
  <2> HIDE DEF New
  <2>6. Moves(t, i, New(s, p))
    BY <2>1, <2>2, <2>4, <2>5, <1>6 DEF Moves
  <2> QED
    BY <2>6
<1>7. ASSUME jobs' = jobs, worker'[t] \in Driving
      PROVE  \E j : Moves(t, i, j)
  <2>1. NotAhead(jobs[i], jobs[i])
    BY <1>4 DEF NotAhead
  <2> QED
    BY <2>1, <1>2, <1>3, <1>5, <1>7 DEF Moves, Unfinished
<1> HIDE DEF New
<1>s. Percent \subseteq Nat /\ 100 \in Percent /\ Unfinished \subseteq Statuses
      /\ "completed" \notin Unfinished /\ "failed" \notin Unfinished /\ "running" \in Unfinished
      /\ "completed" \in Statuses /\ "failed" \in Statuses
      /\ "engine" \in Driving /\ "view" \in Driving /\ "ok" \in Driving /\ "err" \in Driving
      /\ "ended" \notin Driving
  BY DEF Percent, Unfinished, Statuses, Driving
<1>m. \E j : Moves(t, i, j)
  <2>1. CASE ReportProgress(t)
    <3>1. PICK p \in Percent \ {100} : p > PercentOf(t) /\ Update(t, "running", p)
      BY <2>1 DEF ReportProgress
    <3>2. /\ "running" \in Statuses /\ "running" \in Unfinished /\ worker'[t] \in Driving
      BY <2>1, <1>s, <1>1 DEF ReportProgress
    <3>3. p > jobs[i].percent
      BY <3>1, <1>3
    <3>4. p >= jobs[i].percent /\ p \in Percent
      BY <3>3, <1>3 DEF Percent
    <3> QED
      BY <3>1, <3>2, <3>4, <1>6
  <2>2. CASE RunTask(t)
    BY <2>2, <1>3, <1>4, <1>6, <1>s DEF RunTask, TypeOK
  <2>3. CASE BeginReplay(t) \/ ReplayFails(t) \/ BuildRunView(t)
    <3>1. jobs' = jobs /\ worker'[t] \in Driving
      BY <2>3, <1>s, <1>1 DEF BeginReplay, ReplayFails, BuildRunView, TypeOK
    <3> QED
      BY <3>1, <1>7
  <2>4. CASE ReplayCompletes(t)
    BY <2>4, <1>3, <1>4, <1>6, <1>s DEF ReplayCompletes, TypeOK
  <2>5. CASE FinishJob(t)
    <3>1. worker'[t] = "ended" /\ run'[t] = run[t]
      BY <2>5 DEF FinishJob, TypeOK
    <3>2. CASE worker[t] = "ok"
      <4>1. Update(t, "completed", 100) /\ run[t] = "completed"
        BY <2>5, <3>2 DEF FinishJob, WorkerInv
      <4> QED
        BY <3>1, <4>1, <1>4, <1>6, <1>s
    <3>3. CASE worker[t] # "ok"
      <4>1. Update(t, "failed", jobs[i].percent)
        BY <2>5, <3>3, <1>3 DEF FinishJob
      <4> QED
        BY <3>1, <4>1, <1>3, <1>4, <1>6, <1>s
    <3> QED
      BY <3>2, <3>3
  <2> QED
    BY <2>1, <2>2, <2>3, <2>4, <2>5 DEF Work
<1>w. /\ worker' \in [Tickets -> {"none", "ended"} \cup Driving]
      /\ \A u \in Tickets \ {t} : worker'[u] = worker[u]
  BY <1>s DEF ReportProgress, Work, RunTask, BeginReplay, ReplayFails, ReplayCompletes,
              BuildRunView, FinishJob, TypeOK
<1>r. /\ run' \in [Tickets -> {"none", "created", "running", "completed", "failed"}]
      /\ \A u \in Tickets \ {t} : run'[u] = run[u]
      /\ run[t] = "completed" => run'[t] = "completed"
  BY DEF ReportProgress, Work, RunTask, BeginReplay, ReplayFails, ReplayCompletes, BuildRunView,
         FinishJob, TypeOK
<1>v. worker'[t] \in {"view", "ok"} => run'[t] = "completed"
  BY DEF ReportProgress, Work, RunTask, BeginReplay, ReplayFails, ReplayCompletes, BuildRunView,
         FinishJob, TypeOK, WorkerInv
<1> QED
  BY <1>1, <1>2, <1>m, <1>w, <1>r, <1>v

-----------------------------------------------------------------------------
(* The inductive invariant, operation by operation *)

\* A step of a worker keeps the invariant: there is one job it can be about.
LEMMA WorkerKeeps ==
  ASSUME IInv, NEW t \in Tickets, ReportProgress(t) \/ Work(t)
  PROVE  IInv'
<1> USE DEF IInv
<1>1. /\ UNCHANGED <<nextId, at, id, browser, accepted, restarts>>
      /\ worker[t] \in Driving
      /\ worker' \in [Tickets -> {"none", "ended"} \cup Driving]
      /\ run' \in [Tickets -> {"none", "created", "running", "completed", "failed"}]
      /\ \A u \in Tickets \ {t} : worker'[u] = worker[u] /\ run'[u] = run[u]
      /\ run[t] = "completed" => run'[t] = "completed"
      /\ worker'[t] \in {"view", "ok"} => run'[t] = "completed"
  BY WorkerStep
<1>2. PICK i \in Ids : /\ jobs[i].ticket = t /\ jobs[i].status \in Unfinished
                       /\ \E j : Moves(t, i, j)
  BY WorkerStep
<1>3. PICK j : Moves(t, i, j)
  BY <1>2
<1>4. /\ jobs' \in [Ids -> Jobs] /\ jobs'[i] = j
      /\ \A k \in Ids \ {i} : jobs'[k] = jobs[k]
  BY <1>3 DEF Moves, TypeOK
<1>5. \A k \in Ids : jobs'[k].ticket = jobs[k].ticket
  BY <1>2, <1>3, <1>4 DEF Moves
<1>6. \A k \in Ids : jobs[k] \in Jobs /\ (jobs'[k] = NoJob <=> jobs[k] = NoJob)
  BY <1>4, <1>5, JobFields DEF TypeOK
<1>7. t \in Nat /\ t # 0 /\ t <= accepted /\ jobs[i] # NoJob
  <2>1. t \in Nat /\ t # 0
    BY DEF Tickets
  <2>2. jobs[i] # NoJob
    BY <1>2, <1>6, <2>1, JobFields
  <2> QED
    BY <1>2, <2>1, <2>2 DEF JobInv
<1>8. \A k \in Ids : jobs[k].status \in Unfinished => k = i
  BY <1>2 DEF WorkerInv
<1>a. TypeOK'
  BY <1>1, <1>4 DEF TypeOK, browser
<1>b. JobInv'
  BY <1>1, <1>5, <1>6 DEF JobInv
<1>c. IdInv'
  BY <1>1, <1>6 DEF IdInv
<1>d. WorkerInv'
  <2>1. \A u \in Tickets : u > accepted' => worker'[u] = "none" /\ run'[u] = "none"
    BY <1>1, <1>7 DEF WorkerInv, TypeOK, Tickets
  <2>2. ASSUME NEW u \in Tickets, worker'[u] \in Driving
        PROVE  \E k \in Ids : jobs'[k].ticket = u /\ jobs'[k].status \in Unfinished
    <3>1. CASE u = t
      BY <3>1, <2>2, <1>2, <1>3, <1>4 DEF Moves
    <3>2. CASE u # t
      <4>1. PICK k \in Ids : jobs[k].ticket = u /\ jobs[k].status \in Unfinished
        BY <3>2, <2>2, <1>1 DEF WorkerInv
      <4> QED
        BY <4>1, <3>2, <1>2, <1>8
    <3> QED
      BY <3>1, <3>2
  <2>3. \A k, l \in Ids : jobs'[k].status \in Unfinished /\ jobs'[l].status \in Unfinished => k = l
    BY <1>4, <1>8
  <2>4. \A u \in Tickets : worker'[u] \in {"view", "ok"} => run'[u] = "completed"
    BY <1>1 DEF WorkerInv
  <2> QED
    BY <2>1, <2>2, <2>3, <2>4 DEF WorkerInv
<1>e. JobTellsTheTruth'
  <2> SUFFICES ASSUME NEW k \in Ids
               PROVE  /\ jobs'[k].status = "completed" => run'[jobs'[k].ticket] = "completed"
                      /\ jobs'[k].status \in Unfinished => worker'[jobs'[k].ticket] \in Driving
    BY DEF JobTellsTheTruth
  <2>1. CASE k = i
    BY <2>1, <1>3, <1>4 DEF Moves
  <2>2. CASE k # i
    <3>1. jobs'[k] = jobs[k] /\ jobs[k].status \notin Unfinished
      BY <2>2, <1>4, <1>8
    <3>2. jobs[k].status = "completed" => jobs[k].ticket \in Tickets
      BY <1>6, JobFields
    <3> QED
      BY <3>1, <3>2, <1>1 DEF JobTellsTheTruth
  <2> QED
    BY <2>1, <2>2
<1>f. SeenInv'
  <2> SUFFICES ASSUME NEW c \in Clients
               PROVE  /\ seen'[c].ticket <= accepted'
                      /\ \A k \in Ids : jobs'[k] # NoJob /\ jobs'[k].ticket = seen'[c].ticket
                                          => NotAhead(seen'[c], jobs'[k])
    BY DEF SeenInv, NotAhead
  <2>1. seen' = seen /\ accepted' = accepted /\ seen[c] \in Jobs /\ seen[c].ticket <= accepted
    BY <1>1 DEF browser, TypeOK, SeenInv
  <2>2. ASSUME NEW k \in Ids, jobs'[k] # NoJob, jobs'[k].ticket = seen[c].ticket
        PROVE  NotAhead(seen[c], jobs'[k])
    <3>1. NotAhead(seen[c], jobs[k])
      BY <2>2, <1>5, <1>6 DEF SeenInv
    <3>2. CASE k = i
      BY <3>1, <3>2, <2>1, <1>3, <1>4, <1>6, NotAheadChains DEF Moves
    <3>3. CASE k # i
      BY <3>1, <3>3, <1>4
    <3> QED
      BY <3>2, <3>3
  <2> QED
    BY <2>1, <2>2
<1> QED
  BY <1>a, <1>b, <1>c, <1>d, <1>e, <1>f

\* Taking an id keeps it apart from the others (CheckDataset).
LEMMA CheckKeeps ==
  ASSUME IInv, NEW c \in Clients, CheckDataset(c)
  PROVE  IInv'
<1> USE DEF IInv
<1>u. UNCHANGED <<jobs, worker, run, holds, mine, seen, accepted, restarts>>
  BY DEF CheckDataset, browser
<1>1. WorkerInv' /\ JobTellsTheTruth'
  BY <1>u DEF WorkerInv, JobTellsTheTruth
<1>2. SeenInv'
  BY <1>u DEF SeenInv, NotAhead
<1>n. nextId \in Nat /\ MaxIds \in Nat
  BY JobsAssumption DEF TypeOK
<1>3. CASE at' = [at EXCEPT ![c] = "idle"] /\ UNCHANGED <<id, nextId>>
  <2>1. TypeOK' /\ JobInv'
    BY <1>u, <1>3 DEF TypeOK, JobInv
  <2>2. IdInv'
    BY <1>u, <1>3 DEF IdInv, TypeOK
  <2> QED
    BY <1>1, <1>2, <2>1, <2>2
<1>4. CASE /\ nextId \in Ids /\ id' = [id EXCEPT ![c] = nextId] /\ nextId' = nextId + 1
           /\ at' = [at EXCEPT ![c] = "admit"]
  <2>1. TypeOK'
    BY <1>u, <1>n, <1>4 DEF TypeOK, Ids
  <2>2. JobInv'
    BY <1>u, <1>n, <1>4 DEF JobInv, Ids
  <2>3. ASSUME NEW d \in Clients, at'[d] = "admit"
        PROVE  /\ id'[d] \in Ids /\ id'[d] < nextId' /\ jobs'[id'[d]] = NoJob
               /\ \A e \in Clients : at'[e] = "admit" /\ id'[e] = id'[d] => e = d
    <3>1. CASE d = c
      <4>1. id'[d] = nextId /\ jobs[nextId] = NoJob
        BY <3>1, <1>4, <1>n DEF TypeOK, JobInv
      <4>2. \A e \in Clients \ {c} : at'[e] = "admit" => id'[e] < nextId
        BY <1>4 DEF TypeOK, IdInv
      <4>3. \A e \in Clients : at'[e] = "admit" /\ id'[e] = id'[d] => e = d
        BY <3>1, <4>1, <4>2, <1>n
      <4> QED
        BY <4>1, <4>3, <1>4, <1>n, <1>u
    <3>2. CASE d # c
      <4>1. at[d] = "admit" /\ id'[d] = id[d] /\ id[d] \in Ids /\ id[d] < nextId
        BY <3>2, <2>3, <1>4 DEF TypeOK, IdInv
      <4>2. id'[c] = nextId
        BY <1>4 DEF TypeOK
      <4>3. id[d] \in Nat
        BY <4>1 DEF Ids
      <4>4. \A e \in Clients : at'[e] = "admit" /\ id'[e] = id'[d] => e = d
        BY <3>2, <4>1, <4>2, <4>3, <1>4, <1>n DEF TypeOK, IdInv
      <4> QED
        BY <4>1, <4>3, <4>4, <1>4, <1>n, <1>u DEF IdInv
    <3> QED
      BY <3>1, <3>2
  <2>4. IdInv'
    BY <2>3 DEF IdInv
  <2> QED
    BY <1>1, <1>2, <2>1, <2>2, <2>4
<1> QED
  BY <1>3, <1>4 DEF CheckDataset

\* The admission of a job under the lock keeps the invariant: no other is unfinished, and
\* its ticket is new (create_job).
LEMMA AdmitKeeps ==
  ASSUME IInv, NEW c \in Clients, Admit(c)
  PROVE  IInv'
<1> USE DEF IInv
<1>u. at' = [at EXCEPT ![c] = "idle"] /\ UNCHANGED <<nextId, run, id, restarts>>
  BY DEF Admit
<1>i. at[c] = "admit" /\ id[c] \in Ids /\ id[c] < nextId /\ jobs[id[c]] = NoJob
  BY DEF Admit, IdInv
<1>1. CASE Busy
  <2>1. UNCHANGED <<jobs, worker, holds, mine, seen, accepted>>
    BY <1>1 DEF Admit, browser
  <2>2. TypeOK' /\ JobInv' /\ WorkerInv' /\ JobTellsTheTruth'
    BY <1>u, <2>1 DEF TypeOK, JobInv, WorkerInv, JobTellsTheTruth
  <2>3. IdInv'
    BY <1>u, <2>1 DEF IdInv, TypeOK
  <2>4. SeenInv'
    BY <2>1 DEF SeenInv, NotAhead
  <2> QED
    BY <2>2, <2>3, <2>4
<1>2. CASE ~Busy
  <2> DEFINE t == accepted + 1
             job == [ticket |-> t, status |-> "queued", percent |-> 0]
  <2>1. /\ accepted < MaxTickets /\ accepted' = t
        /\ jobs' = [jobs EXCEPT ![id[c]] = job]
        /\ worker' = [worker EXCEPT ![t] = "spawned"]
    BY <1>2 DEF Admit
  <2>2. \/ seen' = [seen EXCEPT ![c] = job] /\ holds' = [holds EXCEPT ![c] = id[c]]
           /\ mine' = [mine EXCEPT ![c] = t]
        \/ UNCHANGED <<holds, mine, seen>>
    <3>1. jobs'[id[c]] = job
      BY <2>1, <1>i DEF TypeOK
    <3> HIDE DEF job
    <3> QED
      BY <1>2, <2>1, <3>1 DEF Admit, browser
  <2>3. t \in Tickets /\ t \in Nat /\ t > accepted /\ accepted \in Nat
    BY <2>1, JobsAssumption DEF TypeOK, Tickets
  <2>4. job \in Jobs /\ job # NoJob /\ job.ticket = t /\ job.status = "queued"
    <3>1. job \in Jobs
      BY <2>3 DEF Jobs, Statuses, Percent
    <3> QED
      BY <3>1, <2>3 DEF NoJob
  <2> HIDE DEF job
  <2>5. \A k \in Ids \ {id[c]} : jobs'[k] = jobs[k]
    BY <2>1 DEF TypeOK
  <2>6. jobs'[id[c]] = job
    BY <2>1, <1>i DEF TypeOK
  <2>7. \A k \in Ids : jobs[k] \in Jobs /\ jobs[k].ticket <= accepted /\ jobs[k].ticket \in Nat
    <3>1. \A k \in Ids : jobs[k] \in Jobs
      BY DEF TypeOK
    <3>2. NoJob.ticket = 0
      BY DEF NoJob
    <3> QED
      BY <3>1, <3>2, <2>3, JobFields DEF JobInv
  <2>8. \A k \in Ids : jobs[k].status \notin Unfinished
    BY <1>2 DEF Busy
  <2> HIDE DEF t
  <2>9. \A k \in Ids : jobs'[k].ticket = t => k = id[c]
    BY <2>3, <2>5, <2>7
  <2>10. \A u \in Tickets \ {t} : worker'[u] = worker[u] /\ worker[u] \notin Driving
    BY <2>1, <2>8 DEF TypeOK, WorkerInv
  <2>a. TypeOK'
    <3>1. jobs' \in [Ids -> Jobs] /\ worker' \in [Tickets -> {"none", "ended"} \cup Driving]
      BY <2>1, <2>4 DEF TypeOK, Driving
    <3>2. accepted' \in 0..MaxTickets
      BY <2>1, <2>3, JobsAssumption DEF Tickets
    <3>3. /\ seen' \in [Clients -> Jobs] /\ holds' \in [Clients -> 0..MaxIds]
          /\ mine' \in [Clients -> 0..MaxTickets]
      <4>1. id[c] \in 0..MaxIds /\ t \in 0..MaxTickets
        BY <1>i, <2>3, JobsAssumption DEF Ids, Tickets
      <4> QED
        BY <4>1, <2>2, <2>4 DEF TypeOK
    <3> QED
      BY <3>1, <3>2, <3>3, <1>u DEF TypeOK
  <2>b. JobInv'
    <3>1. ASSUME NEW k \in Ids, jobs'[k] # NoJob
          PROVE  k < nextId' /\ jobs'[k].ticket <= accepted'
      <4>1. CASE k = id[c]
        BY <4>1, <1>i, <1>u, <2>1, <2>3, <2>4, <2>6
      <4>2. CASE k # id[c]
        BY <4>2, <3>1, <1>u, <2>1, <2>3, <2>5, <2>7 DEF JobInv
      <4> QED
        BY <4>1, <4>2
    <3>2. ASSUME NEW k \in Ids, NEW l \in Ids, jobs'[k] # NoJob, jobs'[k].ticket = jobs'[l].ticket
          PROVE  k = l
      BY <3>2, <2>4, <2>5, <2>6, <2>9 DEF JobInv
    <3> QED
      BY <3>1, <3>2 DEF JobInv
  <2>c. IdInv'
    <3> SUFFICES ASSUME NEW d \in Clients, at'[d] = "admit"
                 PROVE  /\ id[d] \in Ids /\ id[d] < nextId /\ jobs'[id[d]] = NoJob
                        /\ \A e \in Clients : at'[e] = "admit" /\ id[e] = id[d] => e = d
      BY <1>u DEF IdInv
    <3>1. d # c /\ at[d] = "admit"
      BY <1>u DEF TypeOK
    <3>2. id[d] # id[c]
      BY <3>1, <1>i DEF IdInv
    <3>3. \A e \in Clients : at'[e] = "admit" => at[e] = "admit"
      BY <1>u DEF TypeOK
    <3> QED
      BY <3>1, <3>2, <3>3, <2>5 DEF IdInv
  <2>d. WorkerInv'
    <3>1. \A u \in Tickets : u > accepted' => worker'[u] = "none" /\ run'[u] = "none"
      BY <1>u, <2>1, <2>3, <2>10 DEF WorkerInv, Tickets
    <3>2. ASSUME NEW u \in Tickets, worker'[u] \in Driving
          PROVE  \E k \in Ids : jobs'[k].ticket = u /\ jobs'[k].status \in Unfinished
      BY <3>2, <2>4, <2>6, <2>10, <1>i DEF Unfinished
    <3>3. \A k, l \in Ids : jobs'[k].status \in Unfinished /\ jobs'[l].status \in Unfinished
                            => k = l
      BY <2>5, <2>8
    <3>4. \A u \in Tickets : worker'[u] \in {"view", "ok"} => run'[u] = "completed"
      <4>1. worker'[t] = "spawned"
        BY <2>1, <2>3 DEF TypeOK
      <4> QED
        BY <4>1, <1>u, <2>10 DEF WorkerInv
    <3> QED
      BY <3>1, <3>2, <3>3, <3>4 DEF WorkerInv
  <2>e. JobTellsTheTruth'
    <3>1. worker'[t] \in Driving
      BY <2>1, <2>3 DEF TypeOK, Driving
    <3> QED
      BY <3>1, <1>u, <2>4, <2>5, <2>6, <2>8 DEF JobTellsTheTruth
  <2>f. SeenInv'
    <3> SUFFICES ASSUME NEW d \in Clients
                 PROVE  /\ seen'[d].ticket <= accepted'
                        /\ \A k \in Ids : jobs'[k] # NoJob /\ jobs'[k].ticket = seen'[d].ticket
                                            => NotAhead(seen'[d], jobs'[k])
      BY DEF SeenInv, NotAhead
    <3>1. CASE seen'[d] = job
      <4>1. NotAhead(job, job)
        <5>1. Rank(job) = 0
          BY <2>4 DEF Rank
        <5>2. job.percent \in Nat
          BY <2>4, JobFields
        <5> QED
          BY <5>1, <5>2 DEF NotAhead
      <4>2. \A k \in Ids : jobs'[k].ticket = t => jobs'[k] = job
        BY <2>6, <2>9
      <4>3. t <= accepted'
        BY <2>1, <2>3
      <4> QED
        BY <3>1, <4>1, <4>2, <4>3, <2>4
    <3>2. CASE seen'[d] = seen[d]
      <4>1. seen[d].ticket <= accepted /\ seen[d].ticket \in Nat
        BY JobFields DEF SeenInv, TypeOK
      <4>2. \A k \in Ids : jobs'[k].ticket = seen[d].ticket => jobs'[k] = jobs[k]
        BY <4>1, <2>3, <2>4, <2>5, <2>6
      <4> QED
        BY <3>2, <4>1, <4>2, <2>1, <2>3 DEF SeenInv
    <3> QED
      BY <3>1, <3>2, <2>2 DEF TypeOK
  <2> QED
    BY <2>a, <2>b, <2>c, <2>d, <2>e, <2>f
<1> QED
  BY <1>1, <1>2

\* A poll shows the browser the job as it is (job_status, pollBacktestJob).
LEMMA PollKeeps ==
  ASSUME IInv, NEW c \in Clients, Poll(c)
  PROVE  IInv'
<1> USE DEF IInv
<1>1. /\ holds[c] \in Ids /\ jobs[holds[c]] \in Jobs
      /\ seen' = [seen EXCEPT ![c] = IF jobs[holds[c]] = NoJob THEN @ ELSE jobs[holds[c]]]
      /\ holds' = [holds EXCEPT ![c] = IF jobs[holds[c]].status \in Unfinished THEN @ ELSE 0]
      /\ UNCHANGED <<mine, jobs, nextId, worker, run, at, id, accepted, restarts>>
  BY JobsAssumption DEF Poll, TypeOK, Ids
<1>2. TypeOK'
  BY <1>1, JobsAssumption DEF TypeOK
<1>3. JobInv' /\ IdInv' /\ WorkerInv' /\ JobTellsTheTruth'
  BY <1>1 DEF JobInv, IdInv, WorkerInv, JobTellsTheTruth
<1>4. SeenInv'
  <2> SUFFICES ASSUME NEW d \in Clients
               PROVE  /\ seen'[d].ticket <= accepted
                      /\ \A k \in Ids : jobs[k] # NoJob /\ jobs[k].ticket = seen'[d].ticket
                                          => NotAhead(seen'[d], jobs[k])
    BY <1>1 DEF SeenInv, NotAhead
  <2>1. CASE seen'[d] = seen[d]
    BY <2>1 DEF SeenInv
  <2>2. CASE seen'[d] = jobs[holds[c]] /\ jobs[holds[c]] # NoJob
    <3>1. jobs[holds[c]].percent \in Nat /\ Rank(jobs[holds[c]]) \in {0, 1, 2}
      BY <1>1, JobFields, RankOf
    <3>2. NotAhead(jobs[holds[c]], jobs[holds[c]])
      BY <3>1 DEF NotAhead
    <3> QED
      BY <2>2, <3>2, <1>1 DEF JobInv
  <2> QED
    BY <1>1, <2>1, <2>2 DEF TypeOK
<1> QED
  BY <1>2, <1>3, <1>4

\* A new process has no job, no worker and no request (BacktestApiState::new).
LEMMA RestartKeeps ==
  ASSUME IInv, Restart
  PROVE  IInv'
<1> USE DEF IInv
<1>1. /\ jobs' = [i \in Ids |-> NoJob] /\ nextId' = 1
      /\ \A t \in Tickets : worker'[t] \notin Driving
      /\ UNCHANGED <<run, holds, mine, seen, accepted>>
  BY DEF Restart, browser, Driving
<1>2. NoJob \in Jobs /\ NoJob.status = "none"
  BY DEF NoJob, Jobs
<1>3. TypeOK'
  BY <1>1, <1>2, JobsAssumption DEF Restart, TypeOK
<1>4. JobInv' /\ IdInv' /\ JobTellsTheTruth'
  BY <1>1, <1>2 DEF Restart, JobInv, IdInv, JobTellsTheTruth, Unfinished
<1>5. WorkerInv'
  <2>1. \A t \in Tickets : worker'[t] = worker[t] \/ (worker[t] \in Driving /\ worker'[t] = "ended")
    BY DEF Restart
  <2>2. \A t \in Tickets : t > accepted => worker'[t] = "none" /\ run'[t] = "none"
    BY <2>1, <1>1 DEF WorkerInv, Driving
  <2> QED
    BY <2>2, <1>1, <1>2 DEF WorkerInv, Unfinished, Driving
<1>6. SeenInv'
  BY <1>1 DEF SeenInv, NotAhead
<1> QED
  BY <1>3, <1>4, <1>5, <1>6

-----------------------------------------------------------------------------
(* The theorems *)

\* The service keeps its invariant: jobs, workers, rows and what the browsers were told
\* agree in every state (api/backtests.rs).
THEOREM JobsAreInvariant == Spec => []IInv
<1>1. Init => IInv
  <2> SUFFICES ASSUME Init PROVE IInv
    OBVIOUS
  <2>1. NoJob \in Jobs /\ NoJob.status = "none" /\ NoJob.ticket = 0
    BY DEF NoJob, Jobs
  <2>2. TypeOK
    BY <2>1, JobsAssumption DEF Init, TypeOK
  <2>3. JobInv /\ IdInv
    BY DEF Init, JobInv, IdInv
  <2>4. WorkerInv /\ JobTellsTheTruth
    BY <2>1 DEF Init, WorkerInv, JobTellsTheTruth, Unfinished, Driving
  <2>5. SeenInv
    BY <2>1 DEF Init, SeenInv
  <2> QED
    BY <2>2, <2>3, <2>4, <2>5 DEF IInv
<1>2. IInv /\ [Next]_vars => IInv'
  <2> SUFFICES ASSUME IInv, [Next]_vars PROVE IInv'
    OBVIOUS
  <2>1. ASSUME NEW c \in Clients, Submit(c)
        PROVE  IInv'
    BY <2>1 DEF Submit, browser, IInv, TypeOK, JobInv, IdInv, WorkerInv, JobTellsTheTruth,
                SeenInv, NotAhead
  <2>2. CASE UNCHANGED vars
    BY <2>2 DEF vars, browser, IInv, TypeOK, JobInv, IdInv, WorkerInv, JobTellsTheTruth,
                SeenInv, NotAhead
  <2> QED
    BY <2>1, <2>2, CheckKeeps, AdmitKeeps, PollKeeps, WorkerKeeps, RestartKeeps DEF Next
<1> QED
  BY <1>1, <1>2, PTL DEF Spec

\* Every field of the jobs map, the workers, the rows and the browsers has its type.
THEOREM JobsTypeCorrect == Spec => []TypeOK
<1>1. IInv => TypeOK
  BY DEF IInv
<1> QED
  BY <1>1, JobsAreInvariant, PTL

\* Two requests that pass the dataset check together never put two replays to work: the
\* second to take the lock finds the first's job unfinished (create_job).
THEOREM JobsOneReplayAtATime == Spec => []OneReplayAtATime
<1>1. ASSUME IInv
      PROVE  OneReplayAtATime
  <2> DEFINE D == {t \in Tickets : worker[t] \in Driving}
  <2>1. \A t, u \in D : t = u
    BY <1>1 DEF IInv, WorkerInv
  <2>2. CASE D = {}
    BY <2>2, FS_EmptySet DEF OneReplayAtATime
  <2>3. CASE D # {}
    <3>1. PICK t \in D : D = {t}
      BY <2>1, <2>3
    <3>2. Cardinality({t}) = 1
      BY FS_Singleton
    <3> QED
      BY <3>1, <3>2 DEF OneReplayAtATime
  <2> QED
    BY <2>2, <2>3
<1> QED
  BY <1>1, JobsAreInvariant, PTL

\* A job says completed only when its run is completed in the record, and unfinished only
\* while its worker is there (execute_job's order of updates).
THEOREM JobsTellTheTruth == Spec => []JobTellsTheTruth
<1>1. IInv => JobTellsTheTruth
  BY DEF IInv
<1> QED
  BY <1>1, JobsAreInvariant, PTL

\* Only a poll or the answer to a submission changes what a browser shows, and neither
\* shows it less of the same job than it has seen.
LEMMA SeenStep ==
  ASSUME IInv, [Next]_vars, NEW c \in Clients, seen[c].ticket = seen'[c].ticket
  PROVE  seen'[c] = seen[c] \/ NotAhead(seen[c], seen'[c])
<1> USE DEF IInv
<1>1. ASSUME NEW d \in Clients, Poll(d)
      PROVE  seen'[c] = seen[c] \/ NotAhead(seen[c], seen'[c])
  <2>1. holds[d] \in Ids
    BY <1>1, JobsAssumption DEF Poll, TypeOK, Ids
  <2>2. \/ seen'[c] = seen[c]
        \/ seen'[c] = jobs[holds[d]] /\ jobs[holds[d]] # NoJob
    BY <1>1 DEF Poll, TypeOK
  <2>3. ASSUME seen'[c] = jobs[holds[d]], jobs[holds[d]] # NoJob
        PROVE  NotAhead(seen[c], jobs[holds[d]])
    BY <2>1, <2>3 DEF SeenInv
  <2> QED
    BY <2>2, <2>3
<1>2. ASSUME NEW d \in Clients, Admit(d)
      PROVE  seen'[c] = seen[c]
  <2>1. CASE Busy
    BY <1>2, <2>1 DEF Admit, browser
  <2>2. CASE ~Busy
    <3>1. id[d] \in Ids
      BY <1>2 DEF Admit, IdInv
    <3>2. jobs'[id[d]].ticket = accepted + 1
      BY <1>2, <2>2, <3>1 DEF Admit, TypeOK
    <3>3. seen'[c] = seen[c] \/ seen'[c] = jobs'[id[d]]
      BY <1>2, <2>2 DEF Admit, browser, TypeOK
    <3>4. seen[c].ticket <= accepted /\ accepted \in Nat
      BY JobsAssumption DEF SeenInv, TypeOK
    <3>5. seen[c].ticket # accepted + 1
      BY <3>4
    <3> QED
      BY <3>2, <3>3, <3>5
  <2> QED
    BY <2>1, <2>2
<1>3. ASSUME NEW d \in Clients, Submit(d) \/ CheckDataset(d)
      PROVE  seen' = seen
  BY <1>3 DEF Submit, CheckDataset, browser
<1>4. ASSUME NEW t \in Tickets, ReportProgress(t) \/ Work(t)
      PROVE  seen' = seen
  BY <1>4, WorkerStep DEF browser
<1>5. CASE Restart
  BY <1>5 DEF Restart, browser
<1>6. CASE UNCHANGED vars
  BY <1>6 DEF vars, browser
<1> QED
  BY <1>1, <1>2, <1>3, <1>4, <1>5, <1>6 DEF Next

\* What a browser is shown of one job never goes back in status or percentage, and a final
\* answer stays, whatever restarts and other submissions come between its polls.
THEOREM JobsPollsGoForward == Spec => PollsGoForward
<1> DEFINE Forward ==
             \A c \in Clients : seen[c].ticket = seen'[c].ticket =>
               /\ Rank(seen[c]) <= Rank(seen'[c])
               /\ seen[c].percent <= seen'[c].percent
               /\ Rank(seen[c]) = 2 => seen'[c] = seen[c]
<1>1. ASSUME IInv, [Next]_vars
      PROVE  Forward
  <2> SUFFICES ASSUME NEW c \in Clients, seen[c].ticket = seen'[c].ticket
               PROVE  /\ Rank(seen[c]) <= Rank(seen'[c])
                      /\ seen[c].percent <= seen'[c].percent
                      /\ Rank(seen[c]) = 2 => seen'[c] = seen[c]
    BY DEF Forward
  <2>1. seen[c].percent \in Nat /\ Rank(seen[c]) \in {0, 1, 2}
    BY <1>1, JobFields, RankOf DEF IInv, TypeOK
  <2>2. CASE seen'[c] = seen[c]
    BY <2>1, <2>2
  <2>3. CASE NotAhead(seen[c], seen'[c])
    BY <2>3 DEF NotAhead
  <2> QED
    BY <1>1, <2>2, <2>3, SeenStep
<1>2. IInv /\ [Next]_vars => [Forward]_vars
  BY <1>1
<1> QED
  BY <1>2, JobsAreInvariant, PTL DEF Spec, PollsGoForward
=============================================================================
