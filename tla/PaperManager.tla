---------------------------- MODULE PaperManager ----------------------------
(***************************************************************************)
(* The registry of Live-Paper runs: PaperManager's start, stop and         *)
(* admission over the runtimes map (src/paper.rs), for several bots and    *)
(* several API requests at a time.                                         *)
(*                                                                         *)
(* runtimes is a tokio Mutex, which serves its waiters in the order they   *)
(* came: queue holds them and its head holds the lock.  The run itself is  *)
(* only what the registry sees of it; PaperRun has its steps.              *)
(***************************************************************************)
EXTENDS Integers, FiniteSets, SequencesExt

CONSTANTS
  Bots,
  NRuns,   \* bound: runs ever created
  Cap,     \* MAX_ACTIVE_PAPER_RUNS
  Clients, \* API requests in flight at once
  NoBot    \* a value that is no bot

Runs == 1..NRuns

ASSUME ManagerAssumption ==
  /\ NRuns \in Nat
  /\ Cap \in Nat \ {0}
  /\ NoBot \notin Bots

VARIABLES
  row,       \* run -> trading_runs.status, "none" before the row exists
  bot,       \* run -> trading_runs.bot_id
  queue,     \* requests for the runtimes lock, its holder first
  at,        \* request -> where it is
  asks,      \* request -> the bot it starts
  unread,    \* request -> runs whose snapshot admission has still to read
  found,     \* request -> runs admission counted as active
  run,       \* request -> the run it creates or stops, 0 for none
  handles,   \* keys of runtimes
  shown,     \* run -> runtime_status of its snapshot
  actor,     \* run -> where its run_loop is
  stopSent   \* runs whose stop channel holds true

request == <<queue, at, asks, unread, found, run>>
runtime == <<handles, shown, actor, stopSent>>
vars == <<row, bot, request, runtime>>

StartPhase == {"queued", "admission", "create", "subscribe", "begin", "insert"}
Phase == {"idle", "stop_queued"} \cup StartPhase

TypeOK ==
  /\ row \in [Runs -> {"none", "created", "running", "stopped", "failed"}]
  /\ bot \in [Runs -> Bots \cup {NoBot}]
  /\ queue \in Seq(Clients) /\ IsInjective(queue)
  /\ at \in [Clients -> Phase]
  /\ asks \in [Clients -> Bots \cup {NoBot}]
  /\ unread \in [Clients -> SUBSET Runs]
  /\ found \in [Clients -> SUBSET Runs]
  /\ run \in [Clients -> {0} \cup Runs]
  /\ handles \subseteq Runs
  /\ shown \in [Runs -> {"none", "running", "stopped", "failed"}]
  /\ actor \in [Runs -> {"none", "loop", "failing", "stopped", "failed", "done"}]
  /\ stopSent \subseteq handles

Init ==
  /\ row = [r \in Runs |-> "none"]
  /\ bot = [r \in Runs |-> NoBot]
  /\ queue = <<>>
  /\ at = [c \in Clients |-> "idle"]
  /\ asks = [c \in Clients |-> NoBot]
  /\ unread = [c \in Clients |-> {}]
  /\ found = [c \in Clients |-> {}]
  /\ run = [c \in Clients |-> 0]
  /\ handles = {}
  /\ shown = [r \in Runs |-> "none"]
  /\ actor = [r \in Runs |-> "none"]
  /\ stopSent = {}

HasLock(c) == queue # <<>> /\ Head(queue) = c

\* The request ends; the lock, or its place among the waiters, goes with it.
Answer(c) ==
  /\ queue' = RemoveFirst(queue, c)
  /\ at' = [at EXCEPT ![c] = "idle"]
  /\ asks' = [asks EXCEPT ![c] = NoBot]
  /\ unread' = [unread EXCEPT ![c] = {}]
  /\ found' = [found EXCEPT ![c] = {}]
  /\ run' = [run EXCEPT ![c] = 0]

Go(c, phase) == at' = [at EXCEPT ![c] = phase]

-----------------------------------------------------------------------------
(* start *)

\* Everything before the lock reads only; then the request waits for runtimes.
RequestStart(c, b) ==
  /\ at[c] = "idle"
  /\ Go(c, "queued")
  /\ asks' = [asks EXCEPT ![c] = b]
  /\ queue' = Append(queue, c)
  /\ UNCHANGED <<row, bot, unread, found, run, runtime>>

BeginAdmission(c) ==
  /\ at[c] = "queued" /\ HasLock(c)
  /\ Go(c, "admission")
  /\ unread' = [unread EXCEPT ![c] = handles]
  /\ UNCHANGED <<row, bot, queue, asks, found, run, runtime>>

\* active_runtime_admission awaits the snapshots one by one, in any order, while
\* the actors go on.
ReadStatus(c, r) ==
  /\ at[c] = "admission"
  /\ r \in unread[c]
  /\ unread' = [unread EXCEPT ![c] = @ \ {r}]
  /\ found' = [found EXCEPT ![c] = IF shown[r] = "running" THEN @ \cup {r} ELSE @]
  /\ UNCHANGED <<row, bot, queue, at, asks, run, runtime>>

AlreadyActive(c) == \E r \in found[c] : bot[r] = asks[c]

\* Defect: the capacity check is off by one.
BusyAboveCap(c) == Cardinality(found[c]) > Cap

Busy(c) == Cardinality(found[c]) >= Cap

\* Defect: a start waits, with the lock, for the run in its way to end.
RefuseWaits(c) ==
  /\ at[c] = "admission" /\ unread[c] = {}
  /\ AlreadyActive(c) \/ Busy(c)
  /\ \A r \in found[c] : shown[r] # "running"
  /\ Answer(c)
  /\ UNCHANGED <<row, bot, runtime>>

Refuse(c) ==
  /\ at[c] = "admission" /\ unread[c] = {}
  /\ AlreadyActive(c) \/ Busy(c)
  /\ Answer(c)
  /\ UNCHANGED <<row, bot, runtime>>

\* Defect: only admission is done under the lock.
AdmitAndUnlock(c) ==
  /\ at[c] = "admission" /\ unread[c] = {}
  /\ ~AlreadyActive(c) /\ ~Busy(c)
  /\ Go(c, "create")
  /\ queue' = Tail(queue)
  /\ found' = [found EXCEPT ![c] = {}]
  /\ UNCHANGED <<row, bot, asks, unread, run, runtime>>

Admit(c) ==
  /\ at[c] = "admission" /\ unread[c] = {}
  /\ ~AlreadyActive(c) /\ ~Busy(c)
  /\ Go(c, "create")
  /\ found' = [found EXCEPT ![c] = {}]
  /\ UNCHANGED <<row, bot, queue, asks, unread, run, runtime>>

\* create_trading_run; when it fails after its commit the row stays.
Create(c, r) ==
  /\ at[c] = "create"
  /\ row[r] = "none" /\ \A s \in 1..(r - 1) : row[s] # "none"
  /\ row' = [row EXCEPT ![r] = "created"]
  /\ bot' = [bot EXCEPT ![r] = asks[c]]
  /\ \/ /\ Go(c, "subscribe")
        /\ run' = [run EXCEPT ![c] = r]
        /\ UNCHANGED <<queue, asks, unread, found>>
     \/ Answer(c)
  /\ UNCHANGED runtime

CreateFails(c) ==
  /\ at[c] = "create"
  /\ Answer(c)
  /\ UNCHANGED <<row, bot, runtime>>

Subscribe(c) ==
  /\ at[c] = "subscribe"
  /\ Go(c, "begin")
  /\ UNCHANGED <<row, bot, queue, asks, unread, found, run, runtime>>

\* The run is marked failed, if that can be written.
SubscribeFails(c) ==
  /\ at[c] = "subscribe"
  /\ row' \in {row, [row EXCEPT ![run[c]] = "failed"]}
  /\ Answer(c)
  /\ UNCHANGED <<bot, runtime>>

\* core.start: the row says running and the orders are created.  Its error is
\* followed by core.fail, whose own error is ignored.
BeginRun(c) ==
  /\ at[c] = "begin"
  /\ row' = [row EXCEPT ![run[c]] = "running"]
  /\ Go(c, "insert")
  /\ UNCHANGED <<bot, queue, asks, unread, found, run, runtime>>

BeginRunFails(c) ==
  /\ at[c] = "begin"
  /\ \E status \in {"failed", "created", "running"} : row' = [row EXCEPT ![run[c]] = status]
  /\ Answer(c)
  /\ UNCHANGED <<bot, runtime>>

\* The handle is inserted, the lock dropped and run_loop spawned.
Insert(c) ==
  /\ at[c] = "insert"
  /\ handles' = handles \cup {run[c]}
  /\ shown' = [shown EXCEPT ![run[c]] = "running"]
  /\ actor' = [actor EXCEPT ![run[c]] = "loop"]
  /\ Answer(c)
  /\ UNCHANGED <<row, bot, stopSent>>

\* The client goes away while its request waits for a lock or the feed: the future
\* is dropped there.
Drop(c) ==
  /\ at[c] \in {"queued", "stop_queued", "admission", "subscribe"}
  /\ Answer(c)
  /\ UNCHANGED <<row, bot, runtime>>

-----------------------------------------------------------------------------
(* stop *)

RequestStop(c, r) ==
  /\ at[c] = "idle" /\ row[r] # "none"
  /\ Go(c, "stop_queued")
  /\ run' = [run EXCEPT ![c] = r]
  /\ queue' = Append(queue, c)
  /\ UNCHANGED <<row, bot, asks, unread, found, runtime>>

\* Defect: stop shows the run stopped instead of waiting for the loop to do so.
SendStopAndShow(c) ==
  /\ at[c] = "stop_queued" /\ HasLock(c)
  /\ run[c] \in handles /\ shown[run[c]] = "running"
  /\ stopSent' = stopSent \cup {run[c]}
  /\ shown' = [shown EXCEPT ![run[c]] = "stopped"]
  /\ Answer(c)
  /\ UNCHANGED <<row, bot, handles, actor>>

\* Defect: whatever run the request names is sent true.
SendStopUnchecked(c) ==
  /\ at[c] = "stop_queued" /\ HasLock(c)
  /\ stopSent' = stopSent \cup {run[c]}
  /\ Answer(c)
  /\ UNCHANGED <<row, bot, handles, shown, actor>>

\* The handle is looked up under the lock; an active run is sent true.  What
\* follows, polling the snapshot for two seconds, only reads.
SendStop(c) ==
  /\ at[c] = "stop_queued" /\ HasLock(c)
  /\ stopSent' = IF run[c] \in handles /\ shown[run[c]] = "running"
                 THEN stopSent \cup {run[c]} ELSE stopSent
  /\ Answer(c)
  /\ UNCHANGED <<row, bot, handles, shown, actor>>

-----------------------------------------------------------------------------
(* run_loop, as the registry sees it *)

ActorStops(r) ==
  /\ actor[r] = "loop" /\ r \in stopSent
  /\ \/ row' = [row EXCEPT ![r] = "stopped"] /\ actor' = [actor EXCEPT ![r] = "stopped"]
     \/ UNCHANGED row /\ actor' = [actor EXCEPT ![r] = "failing"]
  /\ UNCHANGED <<bot, request, handles, shown, stopSent>>

\* A feed or storage error.  fail may not get its own rows written.
ActorFails(r) ==
  /\ actor[r] \in {"loop", "failing"}
  /\ row' \in {row, [row EXCEPT ![r] = "failed"]}
  /\ actor' = [actor EXCEPT ![r] = "failed"]
  /\ UNCHANGED <<bot, request, handles, shown, stopSent>>

\* The last update_snapshot.  The loop's end of the stop channel goes with it; the
\* handle stays in runtimes.
PublishEnd(r) ==
  /\ actor[r] \in {"stopped", "failed"}
  /\ shown' = [shown EXCEPT ![r] = actor[r]]
  /\ actor' = [actor EXCEPT ![r] = "done"]
  /\ stopSent' = stopSent \ {r}
  /\ UNCHANGED <<row, bot, request, handles>>

-----------------------------------------------------------------------------
\* The process ends at any moment, and the next one fails every unfinished run
\* before it serves a request.
Restart ==
  /\ row' = [r \in Runs |-> IF row[r] \in {"created", "running"} THEN "failed" ELSE row[r]]
  /\ queue' = <<>>
  /\ at' = [c \in Clients |-> "idle"]
  /\ asks' = [c \in Clients |-> NoBot]
  /\ unread' = [c \in Clients |-> {}]
  /\ found' = [c \in Clients |-> {}]
  /\ run' = [c \in Clients |-> 0]
  /\ handles' = {} /\ stopSent' = {}
  /\ shown' = [r \in Runs |-> "none"]
  /\ actor' = [r \in Runs |-> "none"]
  /\ UNCHANGED bot

StartStep(c) ==
  \/ BeginAdmission(c) \/ Refuse(c) \/ Admit(c)
  \/ CreateFails(c) \/ Subscribe(c) \/ SubscribeFails(c)
  \/ BeginRun(c) \/ BeginRunFails(c) \/ Insert(c)
  \/ \E r \in Runs : ReadStatus(c, r) \/ Create(c, r)

ActorStep(r) == ActorStops(r) \/ PublishEnd(r)

Next ==
  \/ \E c \in Clients : StartStep(c) \/ SendStop(c) \/ Drop(c)
  \/ \E c \in Clients, b \in Bots : RequestStart(c, b)
  \/ \E c \in Clients, r \in Runs : RequestStop(c, r)
  \/ \E r \in Runs : ActorStep(r) \/ ActorFails(r)
  \/ Restart

Spec == Init /\ [][Next]_vars

\* The executor polls every request that can go on; nothing obliges a client to ask
\* or to go away, a run to be stopped or fail, or the process to end.
FairSpec == Spec /\ \A c \in Clients : WF_vars(StartStep(c) \/ SendStop(c))

-----------------------------------------------------------------------------
(* Properties *)

\* Runs somebody writes rows for: their loop has not ended, or start is about to
\* spawn it.
Driven ==
  {r \in Runs : actor[r] \notin {"none", "done"}}
    \cup {run[c] : c \in {d \in Clients : at[d] \in {"begin", "insert"}}}

\* Simultaneous starts, a start racing the end of the bot's run and starts given up
\* halfway never leave a bot with two runs writing to the record.
OneRunPerBot == \A r, s \in Driven : bot[r] = bot[s] => r = s

\* ... nor more than MAX_ACTIVE_PAPER_RUNS of them in all.
CapHolds == Cardinality(Driven) <= Cap

\* The lock that start keeps through its awaits never locks anyone out: every
\* request is answered, whatever runs are active.
RequestIsAnswered == \A c \in Clients : at[c] # "idle" ~> at[c] = "idle"

\* The registry, as its snapshots show it, keeps the promise of BotRuns.  A run has
\* ended when its snapshot says so or, without a handle, when its row does.
ActiveOf(b) == {r \in handles : shown[r] = "running" /\ bot[r] = b}
Promise == INSTANCE BotRuns WITH
  active <- [b \in Bots |-> ActiveOf(b)],
  ended <- {r \in Runs : IF r \in handles THEN shown[r] # "running"
                         ELSE row[r] \in {"stopped", "failed"}}
KeepsPromise == Promise!BotSpec

\* runtime_active of list_runs and bot_history: the snapshot of a run that has a
\* handle, the row of one that has none.
ListedActive(r) ==
  IF r \in handles THEN shown[r] = "running" ELSE row[r] = "running"

\* Documents/ARCHITECTURE.md: "A Bot may have at most one active Live-Paper Run in
\* `arming` or `running` state", as the list of runs reports it.
ListedOncePerBot ==
  \A r, s \in Runs : ListedActive(r) /\ ListedActive(s) /\ bot[r] = bot[s] => r = s
=============================================================================
