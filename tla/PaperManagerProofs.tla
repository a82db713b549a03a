------------------------- MODULE PaperManagerProofs -------------------------
(***************************************************************************)
(* What the registry of Live-Paper runs keeps, for every number of bots,   *)
(* runs and requests and every capacity (PaperManager, src/paper.rs).      *)
(***************************************************************************)
EXTENDS PaperManager, FiniteSetTheorems, SequenceTheorems, TLAPS

\* A start that has been given the lock, and one that has been admitted.
Holding == {"admission", "create", "subscribe", "begin", "insert"}
Admitted == Holding \ {"admission"}
Created == {"subscribe", "begin", "insert"}

Live == {r \in Runs : actor[r] \notin {"none", "done"}}

\* Every step of a start after its wait is taken by the head of the queue, and a request
\* that is answered has left it.
QueueInv ==
  /\ \A c \in Clients : at[c] \in Holding => HasLock(c)
  /\ \A i \in 1..Len(queue) : at[queue[i]] # "idle"

\* A run has a handle from its loop's beginning on, and the snapshot shows it running
\* until the loop has ended.
HandleInv ==
  /\ \A r \in Runs : actor[r] # "none" => r \in handles
  /\ \A r \in handles : shown[r] = "running" <=> r \in Live
  /\ \A r \in handles : row[r] # "none" /\ bot[r] \in Bots

\* A start's run is its own until it is inserted.
StartInv ==
  \A c \in Clients :
    /\ at[c] \in StartPhase => asks[c] \in Bots
    /\ at[c] \in Created =>
         /\ run[c] \in Runs \ handles
         /\ bot[run[c]] = asks[c]
         /\ row[run[c]] = IF at[c] = "insert" THEN "running" ELSE "created"

\* Admission has counted every live run or has still to read its snapshot; once it has
\* admitted a start, no live run is of the bot and one more fits.
AdmissionInv ==
  \A c \in Clients :
    /\ at[c] = "admission" => Live \subseteq unread[c] \cup found[c]
    /\ at[c] \in Admitted =>
         /\ \A r \in Live : bot[r] # asks[c]
         /\ Cardinality(Live) < Cap

LiveInv ==
  /\ \A r, s \in Live : bot[r] = bot[s] => r = s
  /\ Cardinality(Live) <= Cap

IInv == TypeOK /\ QueueInv /\ HandleInv /\ StartInv /\ AdmissionInv /\ LiveInv

-----------------------------------------------------------------------------
(* The lock's queue *)

\* A request that leaves a queue in which it waits at most once: nobody else's place
\* changes but to move up, and the holder goes on holding.
LEMMA LeavesQueue ==
  ASSUME NEW S, NEW q \in Seq(S), IsInjective(q), NEW e,
         NEW p, p = RemoveFirst(q, e)
  PROVE  /\ p \in Seq(S) /\ IsInjective(p)
         /\ \A i \in 1..Len(p) : p[i] # e /\ \E j \in 1..Len(q) : q[j] = p[i]
         /\ q # <<>> /\ Head(q) # e => p # <<>> /\ Head(p) = Head(q)
<1>q. Len(q) \in Nat /\ DOMAIN q = 1..Len(q) /\ \A i \in 1..Len(q) : q[i] \in S
  BY LenProperties
<1>inj. \A i, j \in 1..Len(q) : q[i] = q[j] => i = j
  BY <1>q DEF IsInjective
<1>1. CASE \A i \in 1..Len(q) : q[i] # e
  <2>1. p = q
    BY <1>1 DEF RemoveFirst
  <2> QED
    BY <1>1, <2>1
<1>2. CASE \E i \in 1..Len(q) : q[i] = e
  <2>1. PICK k \in 1..Len(q) : q[k] = e
    BY <1>2
  <2>2. {i \in 1..Len(q) : q[i] = e} = {k}
    BY <1>inj, <2>1
  <2>3. Min({k}) = k
    BY <1>q DEF Min
  <2>4. SelectInSeq(q, LAMBDA v : v = e) = k
    BY <2>2, <2>3 DEF SelectInSeq
  <2>5. p = SubSeq(q, 1, k - 1) \o SubSeq(q, k + 1, Len(q))
    BY <2>4, <1>2 DEF RemoveFirst, RemoveAt
  <2> DEFINE a == SubSeq(q, 1, k - 1)
             b == SubSeq(q, k + 1, Len(q))
  <2>k. k \in Nat /\ k >= 1 /\ k <= Len(q)
    BY <1>q
  <2>a. a \in Seq(S) /\ Len(a) = k - 1 /\ \A i \in 1..(k - 1) : a[i] = q[i]
    <3>1. \A i \in 1..(k - 1) : q[i] \in S
      BY <1>q, <2>k
    <3> HIDE DEF a
    <3>2. /\ a \in Seq(S) /\ Len(a) = IF 1 <= k - 1 THEN k - 1 - 1 + 1 ELSE 0
          /\ \A i \in 1..(k - 1 - 1 + 1) : a[i] = q[1 + i - 1]
      BY <3>1, <2>k, SubSeqProperties DEF a
    <3> QED
      BY <3>2, <2>k
  <2>b. b \in Seq(S) /\ Len(b) = Len(q) - k /\ \A i \in 1..(Len(q) - k) : b[i] = q[k + i]
    <3>1. \A i \in (k + 1)..Len(q) : q[i] \in S
      BY <1>q, <2>k
    <3> HIDE DEF b
    <3>2. /\ b \in Seq(S) /\ Len(b) = IF k + 1 <= Len(q) THEN Len(q) - (k + 1) + 1 ELSE 0
          /\ \A i \in 1..(Len(q) - (k + 1) + 1) : b[i] = q[(k + 1) + i - 1]
      BY <3>1, <2>k, <1>q, SubSeqProperties DEF b
    <3> QED
      BY <3>2, <2>k, <1>q
  <2> HIDE DEF a, b
  <2>6. p = a \o b
    BY <2>5 DEF a, b
  <2>7. /\ p \in Seq(S) /\ Len(p) = Len(a) + Len(b)
        /\ \A i \in 1..(Len(a) + Len(b)) : p[i] = IF i <= Len(a) THEN a[i] ELSE b[i - Len(a)]
    <3>1. a \in Seq(S) /\ b \in Seq(S)
      BY <2>a, <2>b
    <3>2. /\ a \o b \in Seq(S) /\ Len(a \o b) = Len(a) + Len(b)
          /\ \A i \in 1..(Len(a) + Len(b)) :
               (a \o b)[i] = IF i <= Len(a) THEN a[i] ELSE b[i - Len(a)]
      BY <3>1, ConcatProperties
    <3> QED
      BY <3>2, <2>6
  <2>8. Len(p) = Len(q) - 1 /\ DOMAIN p = 1..Len(p)
    <3>1. Len(p) = Len(a) + Len(b) /\ Len(a) = k - 1 /\ Len(b) = Len(q) - k
      BY <2>7, <2>a, <2>b
    <3>2. Len(p) = Len(q) - 1
      BY <3>1, <2>k, <1>q
    <3>3. DOMAIN p = 1..Len(p)
      BY <2>7, LenProperties
    <3> QED
      BY <3>2, <3>3
  <2>9. \A i \in 1..Len(p) : p[i] = IF i < k THEN q[i] ELSE q[i + 1]
    <3> SUFFICES ASSUME NEW i \in 1..Len(p)
                 PROVE  p[i] = IF i < k THEN q[i] ELSE q[i + 1]
      OBVIOUS
    <3>1. /\ i \in Nat /\ i >= 1 /\ i <= Len(q) - 1
          /\ p[i] = IF i <= k - 1 THEN a[i] ELSE b[i - (k - 1)]
      BY <2>7, <2>8, <2>a, <2>b, <2>k, <1>q
    <3>2. CASE i < k
      BY <3>1, <3>2, <2>a, <2>k
    <3>3. CASE ~(i < k)
      <4>1. i - (k - 1) \in 1..(Len(q) - k) /\ k + (i - (k - 1)) = i + 1
        BY <3>1, <3>3, <2>k, <1>q
      <4> QED
        BY <4>1, <3>1, <3>3, <2>b, <2>k
    <3> QED
      BY <3>2, <3>3
  <2>10. \A i, j \in 1..Len(p) : p[i] = p[j] => i = j
    BY <2>9, <2>8, <2>k, <1>q, <1>inj
  <2>11. \A i \in 1..Len(p) : p[i] # e /\ \E j \in 1..Len(q) : q[j] = p[i]
    <3> SUFFICES ASSUME NEW i \in 1..Len(p)
                 PROVE  p[i] # e /\ \E j \in 1..Len(q) : q[j] = p[i]
      OBVIOUS
    <3>1. CASE i < k
      BY <3>1, <2>9, <2>8, <2>k, <1>q, <1>inj, <2>1
    <3>2. CASE ~(i < k)
      <4>1. i + 1 \in 1..Len(q) /\ i + 1 # k
        BY <3>2, <2>8, <2>k, <1>q
      <4> QED
        BY <4>1, <3>2, <2>9, <1>inj, <2>1
    <3> QED
      BY <3>1, <3>2
  <2>12. q # <<>> /\ Head(q) # e => p # <<>> /\ Head(p) = Head(q)
    <3> SUFFICES ASSUME q # <<>>, Head(q) # e PROVE p # <<>> /\ Head(p) = Head(q)
      OBVIOUS
    <3>1. Head(q) = q[1]
      OBVIOUS
    <3>2. k # 1
      BY <3>1, <2>1
    <3>3. Len(p) > 0 /\ p[1] = q[1]
      BY <3>2, <2>8, <2>9, <2>k, <1>q
    <3> QED
      BY <3>1, <3>3, <2>7, EmptySeq
  <2>13. IsInjective(p)
    BY <2>10, <2>8 DEF IsInjective
  <2> QED
    BY <2>7, <2>13, <2>11, <2>12
<1> QED
  BY <1>1, <1>2

\* A request that asks for the lock waits behind all who came before it.
LEMMA JoinsQueue ==
  ASSUME NEW S, NEW q \in Seq(S), IsInjective(q), NEW e \in S,
         \A i \in 1..Len(q) : q[i] # e,
         NEW p, p = Append(q, e)
  PROVE  /\ p \in Seq(S) /\ IsInjective(p)
         /\ \A i \in 1..Len(p) : p[i] = e \/ \E j \in 1..Len(q) : q[j] = p[i]
         /\ q # <<>> => p # <<>> /\ Head(p) = Head(q)
<1>q. Len(q) \in Nat /\ DOMAIN q = 1..Len(q)
  BY LenProperties
<1>inj. \A i, j \in 1..Len(q) : q[i] = q[j] => i = j
  BY <1>q DEF IsInjective
<1>1. /\ p \in Seq(S) /\ Len(p) = Len(q) + 1 /\ DOMAIN p = 1..Len(p)
      /\ p[Len(q) + 1] = e /\ \A i \in 1..Len(q) : p[i] = q[i]
  BY <1>q, AppendProperties, LenProperties
<1>2. \A i \in 1..Len(p) : p[i] = e \/ \E j \in 1..Len(q) : q[j] = p[i]
  BY <1>1, <1>q
<1>3. \A i, j \in 1..Len(p) : p[i] = p[j] => i = j
  BY <1>1, <1>q, <1>inj
<1>4. q # <<>> => p # <<>> /\ Head(p) = Head(q)
  <2> SUFFICES ASSUME q # <<>> PROVE p # <<>> /\ Head(p) = Head(q)
    OBVIOUS
  <2>1. Len(q) >= 1
    BY <1>q, EmptySeq
  <2>2. p # <<>> /\ p[1] = q[1]
    BY <2>1, <1>1, <1>q, EmptySeq
  <2> QED
    BY <2>2, <1>1
<1>5. IsInjective(p)
  BY <1>3, <1>1 DEF IsInjective
<1> QED
  BY <1>1, <1>2, <1>4, <1>5

\* What is left of the lock's queue when a request is answered (Answer).
LEMMA AnswerQueue ==
  ASSUME TypeOK, NEW c \in Clients, Answer(c)
  PROVE  /\ queue' \in Seq(Clients) /\ IsInjective(queue')
         /\ \A i \in 1..Len(queue') :
              queue'[i] # c /\ \E j \in 1..Len(queue) : queue[j] = queue'[i]
         /\ queue # <<>> /\ Head(queue) # c => queue' # <<>> /\ Head(queue') = Head(queue)
<1>1. queue \in Seq(Clients) /\ IsInjective(queue) /\ queue' = RemoveFirst(queue, c)
  BY DEF TypeOK, Answer
<1> QED
  BY <1>1, LeavesQueue

\* An answered request is idle and names no bot and no run; nobody else's fields change.
LEMMA AnswerTyped ==
  ASSUME TypeOK, NEW c \in Clients, Answer(c)
  PROVE  /\ queue' \in Seq(Clients) /\ IsInjective(queue')
         /\ at' \in [Clients -> Phase]
         /\ asks' \in [Clients -> Bots \cup {NoBot}]
         /\ unread' \in [Clients -> SUBSET Runs] /\ found' \in [Clients -> SUBSET Runs]
         /\ run' \in [Clients -> {0} \cup Runs]
         /\ at'[c] = "idle"
         /\ \A d \in Clients \ {c} :
              /\ at'[d] = at[d] /\ asks'[d] = asks[d] /\ run'[d] = run[d]
              /\ unread'[d] = unread[d] /\ found'[d] = found[d]
<1>1. queue' \in Seq(Clients) /\ IsInjective(queue')
  BY AnswerQueue
<1>2. "idle" \in Phase
  BY DEF Phase
<1> QED
  BY <1>1, <1>2 DEF Answer, TypeOK

-----------------------------------------------------------------------------
(* The inductive invariant *)

\* A start that is past Create has a run of its own (Create, Insert).
LEMMA HeldRun ==
  ASSUME TypeOK, StartInv, NEW c \in Clients, at[c] \in Created
  PROVE  run[c] \in Runs /\ run[c] \notin handles
BY DEF StartInv

\* Only the holder of the lock is between admission and insertion: no two starts are.
LEMMA OneHolder ==
  ASSUME QueueInv, NEW c \in Clients, NEW d \in Clients, at[c] \in Holding, at[d] \in Holding
  PROVE  c = d
BY DEF QueueInv, HasLock

\* Every step of the registry keeps the types of its state.
LEMMA TypeStays ==
  ASSUME IInv, [Next]_vars
  PROVE  TypeOK'
<1> USE DEF IInv
<1>t. TypeOK
  OBVIOUS
<1>p. /\ "queued" \in Phase /\ "admission" \in Phase /\ "create" \in Phase
      /\ "subscribe" \in Phase /\ "begin" \in Phase /\ "insert" \in Phase
      /\ "stop_queued" \in Phase /\ "idle" \in Phase
  BY DEF Phase, StartPhase
<1>1. ASSUME NEW c \in Clients, BeginAdmission(c) \/ Admit(c) \/ Subscribe(c)
      PROVE  TypeOK'
  BY <1>1, <1>p DEF TypeOK, BeginAdmission, Admit, Subscribe, Go, runtime
<1>2. ASSUME NEW c \in Clients, NEW r \in Runs, ReadStatus(c, r)
      PROVE  TypeOK'
  BY <1>2 DEF TypeOK, ReadStatus, runtime
<1>3. ASSUME NEW c \in Clients, Refuse(c) \/ CreateFails(c) \/ Drop(c)
      PROVE  TypeOK'
  <2>1. Answer(c) /\ UNCHANGED <<row, bot, runtime>>
    BY <1>3 DEF Refuse, CreateFails, Drop
  <2> QED
    BY <2>1, <1>t, AnswerTyped DEF TypeOK, runtime
<1>4. ASSUME NEW c \in Clients, NEW r \in Runs, Create(c, r)
      PROVE  TypeOK'
  <2>1. /\ row' \in [Runs -> {"none", "created", "running", "stopped", "failed"}]
        /\ bot' \in [Runs -> Bots \cup {NoBot}]
    BY <1>4 DEF TypeOK, Create
  <2>2. CASE Answer(c)
    BY <2>1, <2>2, <1>4, AnswerTyped DEF TypeOK, Create, runtime
  <2>3. CASE Go(c, "subscribe") /\ run' = [run EXCEPT ![c] = r]
             /\ UNCHANGED <<queue, asks, unread, found>>
    BY <2>1, <2>3, <1>4, <1>p DEF TypeOK, Create, Go, runtime
  <2> QED
    BY <1>4, <2>2, <2>3 DEF Create
<1>5. ASSUME NEW c \in Clients, SubscribeFails(c) \/ BeginRunFails(c)
      PROVE  TypeOK'
  <2>1. at[c] \in Created /\ Answer(c) /\ UNCHANGED <<bot, runtime>>
    BY <1>5 DEF SubscribeFails, BeginRunFails, Created
  <2>2. run[c] \in Runs
    BY <2>1, HeldRun
  <2>3. row' \in [Runs -> {"none", "created", "running", "stopped", "failed"}]
    BY <1>5, <2>2 DEF SubscribeFails, BeginRunFails, TypeOK
  <2> QED
    BY <2>1, <2>3, AnswerTyped DEF TypeOK, runtime
<1>6. ASSUME NEW c \in Clients, BeginRun(c)
      PROVE  TypeOK'
  BY <1>6, <1>p DEF TypeOK, BeginRun, Go, runtime
<1>7. ASSUME NEW c \in Clients, Insert(c)
      PROVE  TypeOK'
  <2>1. at[c] \in Created /\ Answer(c)
    BY <1>7 DEF Insert, Created
  <2>2. run[c] \in Runs
    BY <2>1, HeldRun
  <2> QED
    BY <2>1, <2>2, <1>7, AnswerTyped DEF TypeOK, Insert
<1>8. ASSUME NEW c \in Clients, SendStop(c)
      PROVE  TypeOK'
  <2>1. stopSent' \subseteq handles /\ Answer(c) /\ UNCHANGED <<row, bot, handles, shown, actor>>
    BY <1>8 DEF SendStop, TypeOK
  <2> QED
    BY <2>1, AnswerTyped DEF TypeOK
<1>9. ASSUME NEW c \in Clients, NEW b \in Bots, RequestStart(c, b)
      PROVE  TypeOK'
  <2>1. /\ queue \in Seq(Clients) /\ IsInjective(queue) /\ queue' = Append(queue, c)
        /\ \A i \in 1..Len(queue) : queue[i] # c
    BY <1>9 DEF TypeOK, RequestStart, QueueInv
  <2>2. queue' \in Seq(Clients) /\ IsInjective(queue')
    BY <2>1, JoinsQueue
  <2> QED
    BY <1>9, <2>2, <1>p DEF TypeOK, RequestStart, Go, runtime
<1>10. ASSUME NEW c \in Clients, NEW r \in Runs, RequestStop(c, r)
       PROVE  TypeOK'
  <2>1. /\ queue \in Seq(Clients) /\ IsInjective(queue) /\ queue' = Append(queue, c)
        /\ \A i \in 1..Len(queue) : queue[i] # c
    BY <1>10 DEF TypeOK, RequestStop, QueueInv
  <2>2. queue' \in Seq(Clients) /\ IsInjective(queue')
    BY <2>1, JoinsQueue
  <2> QED
    BY <1>10, <2>2, <1>p DEF TypeOK, RequestStop, Go, runtime
<1>11. ASSUME NEW r \in Runs, ActorStops(r) \/ ActorFails(r)
       PROVE  TypeOK'
  BY <1>11 DEF TypeOK, ActorStops, ActorFails, request
<1>12. ASSUME NEW r \in Runs, PublishEnd(r)
       PROVE  TypeOK'
  BY <1>12 DEF TypeOK, PublishEnd, request
<1>13. CASE Restart
  <2>1. queue' \in Seq(Clients) /\ IsInjective(queue')
    BY <1>13, EmptySeq DEF Restart, IsInjective
  <2> QED
    BY <1>13, <2>1, <1>p DEF TypeOK, Restart
<1>14. CASE UNCHANGED vars
  BY <1>14 DEF TypeOK, vars, request, runtime
<1> QED
  BY <1>1, <1>2, <1>3, <1>4, <1>5, <1>6, <1>7, <1>8, <1>9, <1>10, <1>11, <1>12, <1>13, <1>14
     DEF Next, StartStep, ActorStep

\* An answer takes the request out of the queue and moves nobody past anybody.
LEMMA AnswerKeepsQueue ==
  ASSUME TypeOK, QueueInv, NEW c \in Clients, Answer(c)
  PROVE  QueueInv'
<1>1. /\ at'[c] = "idle" /\ \A d \in Clients \ {c} : at'[d] = at[d]
      /\ at' \in [Clients -> Phase] /\ queue' \in Seq(Clients)
  BY AnswerTyped
<1>2. ASSUME NEW d \in Clients, at'[d] \in Holding
      PROVE  HasLock(d)'
  <2>1. d # c /\ at[d] \in Holding
    BY <1>1, <1>2 DEF Holding
  <2>2. queue # <<>> /\ Head(queue) = d
    BY <2>1 DEF QueueInv, HasLock
  <2> QED
    BY <2>1, <2>2, AnswerQueue DEF HasLock
<1>3. ASSUME NEW i \in 1..Len(queue')
      PROVE  at'[queue'[i]] # "idle"
  <2>1. queue'[i] # c /\ \E j \in 1..Len(queue) : queue[j] = queue'[i]
    BY AnswerQueue
  <2>2. queue'[i] \in Clients
    BY <1>1, LenProperties
  <2> QED
    BY <2>1, <2>2, <1>1 DEF QueueInv
<1> QED
  BY <1>2, <1>3 DEF QueueInv

\* A request that takes its place in the queue moves nobody who was there.
LEMMA JoinKeepsQueue ==
  ASSUME TypeOK, QueueInv, NEW c \in Clients, at[c] = "idle",
         NEW p \in {"queued", "stop_queued"}, Go(c, p), queue' = Append(queue, c)
  PROVE  QueueInv'
<1>1. /\ queue \in Seq(Clients) /\ IsInjective(queue)
      /\ \A i \in 1..Len(queue) : queue[i] # c
  BY DEF TypeOK, QueueInv
<1>2. /\ queue' \in Seq(Clients)
      /\ \A i \in 1..Len(queue') : queue'[i] = c \/ \E j \in 1..Len(queue) : queue[j] = queue'[i]
      /\ queue # <<>> => queue' # <<>> /\ Head(queue') = Head(queue)
  BY <1>1, JoinsQueue
<1>3. at'[c] = p /\ \A d \in Clients \ {c} : at'[d] = at[d]
  BY DEF Go, TypeOK
<1>4. ASSUME NEW d \in Clients, at'[d] \in Holding
      PROVE  HasLock(d)'
  <2>1. d # c /\ at[d] \in Holding
    BY <1>3, <1>4 DEF Holding
  <2> QED
    BY <2>1, <1>2 DEF QueueInv, HasLock
<1>5. ASSUME NEW i \in 1..Len(queue')
      PROVE  at'[queue'[i]] # "idle"
  <2>1. queue'[i] \in Clients
    BY <1>2, LenProperties
  <2> QED
    BY <2>1, <1>2, <1>3 DEF QueueInv
<1> QED
  BY <1>4, <1>5 DEF QueueInv

\* Every step of the registry leaves the lock with the start that has it.
LEMMA QueueStays ==
  ASSUME IInv, [Next]_vars
  PROVE  QueueInv'
<1> USE DEF IInv
<1>t. TypeOK
  OBVIOUS
<1>m. ASSUME NEW c \in Clients, HasLock(c), NEW p \in Holding, Go(c, p), queue' = queue
      PROVE  QueueInv'
  <2>1. at'[c] = p /\ \A d \in Clients \ {c} : at'[d] = at[d]
    BY <1>m DEF Go, TypeOK
  <2>2. \A d \in Clients : at'[d] \in Holding => HasLock(d)'
    BY <2>1, <1>m DEF QueueInv, HasLock
  <2>3. ASSUME NEW i \in 1..Len(queue')
        PROVE  at'[queue'[i]] # "idle"
    <3>1. queue'[i] \in Clients /\ i \in 1..Len(queue)
      BY <1>m, LenProperties DEF TypeOK
    <3> QED
      BY <3>1, <2>1, <1>m DEF QueueInv, Holding
  <2> QED
    BY <2>2, <2>3 DEF QueueInv
<1>1. ASSUME NEW c \in Clients, BeginAdmission(c) \/ Admit(c) \/ Subscribe(c) \/ BeginRun(c)
      PROVE  QueueInv'
  <2>1. HasLock(c) /\ queue' = queue /\ \E p \in Holding : Go(c, p)
    BY <1>1 DEF BeginAdmission, Admit, Subscribe, BeginRun, QueueInv, Holding
  <2> QED
    BY <2>1, <1>m
<1>2. ASSUME NEW c \in Clients, NEW r \in Runs, ReadStatus(c, r)
      PROVE  QueueInv'
  BY <1>2 DEF ReadStatus, QueueInv, HasLock
<1>3. ASSUME NEW c \in Clients,
             \/ Refuse(c) \/ CreateFails(c) \/ Drop(c) \/ SubscribeFails(c)
             \/ BeginRunFails(c) \/ Insert(c) \/ SendStop(c)
      PROVE  QueueInv'
  <2>1. Answer(c)
    BY <1>3 DEF Refuse, CreateFails, Drop, SubscribeFails, BeginRunFails, Insert, SendStop
  <2> QED
    BY <2>1, AnswerKeepsQueue
<1>4. ASSUME NEW c \in Clients, NEW r \in Runs, Create(c, r)
      PROVE  QueueInv'
  <2>1. CASE Answer(c)
    BY <2>1, AnswerKeepsQueue
  <2>2. CASE Go(c, "subscribe") /\ queue' = queue
    <3>1. HasLock(c) /\ "subscribe" \in Holding
      BY <1>4 DEF Create, QueueInv, Holding
    <3> QED
      BY <3>1, <2>2, <1>m
  <2> QED
    BY <1>4, <2>1, <2>2 DEF Create
<1>5. ASSUME NEW c \in Clients, NEW b \in Bots, RequestStart(c, b)
      PROVE  QueueInv'
  BY <1>5, JoinKeepsQueue DEF RequestStart
<1>6. ASSUME NEW c \in Clients, NEW r \in Runs, RequestStop(c, r)
      PROVE  QueueInv'
  BY <1>6, JoinKeepsQueue DEF RequestStop
<1>7. ASSUME NEW r \in Runs, ActorStops(r) \/ ActorFails(r) \/ PublishEnd(r)
      PROVE  QueueInv'
  BY <1>7 DEF ActorStops, ActorFails, PublishEnd, request, QueueInv, HasLock
<1>8. CASE Restart
  BY <1>8, EmptySeq DEF Restart, QueueInv, Holding
<1>9. CASE UNCHANGED vars
  BY <1>9 DEF vars, request, QueueInv, HasLock
<1> QED
  BY <1>1, <1>2, <1>3, <1>4, <1>5, <1>6, <1>7, <1>8, <1>9 DEF Next, StartStep, ActorStep

\* A step makes no run live but the one a start inserts.
LEMMA LiveStep ==
  ASSUME IInv, [Next]_vars
  PROVE  \/ Live' \subseteq Live
         \/ \E c \in Clients : Insert(c) /\ Live' = Live \cup {run[c]}
<1> USE DEF IInv
<1>1. ASSUME NEW c \in Clients, Insert(c)
      PROVE  Live' = Live \cup {run[c]}
  <2>1. run[c] \in Runs
    BY <1>1, HeldRun DEF Insert, Created
  <2>2. actor' = [actor EXCEPT ![run[c]] = "loop"]
    BY <1>1 DEF Insert
  <2> QED
    BY <2>1, <2>2 DEF Live, TypeOK
<1>2. ASSUME UNCHANGED actor
      PROVE  Live' \subseteq Live
  BY <1>2 DEF Live
<1>3. ASSUME NEW c \in Clients, StartStep(c), ~Insert(c)
      PROVE  UNCHANGED actor
  BY <1>3 DEF StartStep, BeginAdmission, Refuse, Admit, CreateFails, Subscribe, SubscribeFails,
              BeginRun, BeginRunFails, ReadStatus, Create, runtime
<1>4. ASSUME NEW c \in Clients, SendStop(c) \/ Drop(c)
      PROVE  UNCHANGED actor
  BY <1>4 DEF SendStop, Drop, runtime
<1>5. ASSUME NEW c \in Clients, NEW b \in Bots, RequestStart(c, b)
      PROVE  UNCHANGED actor
  BY <1>5 DEF RequestStart, runtime
<1>6. ASSUME NEW c \in Clients, NEW r \in Runs, RequestStop(c, r)
      PROVE  UNCHANGED actor
  BY <1>6 DEF RequestStop, runtime
<1>7. ASSUME NEW r \in Runs, ActorStep(r) \/ ActorFails(r)
      PROVE  Live' \subseteq Live
  BY <1>7 DEF ActorStep, ActorStops, PublishEnd, ActorFails, Live, TypeOK
<1>8. CASE Restart
  BY <1>8 DEF Restart, Live
<1>9. CASE UNCHANGED vars
  BY <1>9 DEF vars, runtime, Live
<1> QED
  BY <1>1, <1>2, <1>3, <1>4, <1>5, <1>6, <1>7, <1>8, <1>9 DEF Next

\* Every step keeps the handles, the snapshots and the loops in agreement.
LEMMA HandleStays ==
  ASSUME IInv, [Next]_vars
  PROVE  HandleInv'
<1> USE DEF IInv
<1>1. ASSUME UNCHANGED <<row, bot, runtime>>
      PROVE  HandleInv'
  BY <1>1 DEF HandleInv, Live, runtime
<1>2. ASSUME NEW c \in Clients, BeginAdmission(c) \/ Refuse(c) \/ Admit(c) \/ CreateFails(c)
                                \/ Subscribe(c) \/ Drop(c)
      PROVE  HandleInv'
  BY <1>1, <1>2 DEF BeginAdmission, Refuse, Admit, CreateFails, Subscribe, Drop
<1>3. ASSUME NEW c \in Clients, NEW r \in Runs, ReadStatus(c, r)
      PROVE  HandleInv'
  BY <1>1, <1>3 DEF ReadStatus
<1>4. ASSUME NEW c \in Clients, NEW r \in Runs, Create(c, r)
      PROVE  HandleInv'
  <2>1. r \notin handles
    BY <1>4 DEF Create, HandleInv
  <2> QED
    BY <2>1, <1>4 DEF Create, HandleInv, Live, TypeOK, runtime
<1>5. ASSUME NEW c \in Clients, SubscribeFails(c) \/ BeginRun(c) \/ BeginRunFails(c)
      PROVE  HandleInv'
  <2>1. run[c] \in Runs /\ run[c] \notin handles
    BY <1>5, HeldRun DEF SubscribeFails, BeginRun, BeginRunFails, Created
  <2>2. UNCHANGED <<bot, runtime>> /\ \A r \in Runs \ {run[c]} : row'[r] = row[r]
    BY <1>5, <2>1 DEF SubscribeFails, BeginRun, BeginRunFails, TypeOK
  <2> QED
    BY <2>1, <2>2 DEF HandleInv, Live, TypeOK, runtime
<1>6. ASSUME NEW c \in Clients, Insert(c)
      PROVE  HandleInv'
  <2>1. /\ run[c] \in Runs /\ run[c] \notin handles
        /\ row[run[c]] = "running" /\ bot[run[c]] \in Bots
    BY <1>6 DEF Insert, Created, StartInv, StartPhase
  <2> QED
    BY <2>1, <1>6 DEF Insert, HandleInv, Live, TypeOK
<1>7. ASSUME NEW c \in Clients, SendStop(c)
      PROVE  HandleInv'
  BY <1>7 DEF SendStop, HandleInv, Live
<1>8. ASSUME NEW c \in Clients, NEW b \in Bots, RequestStart(c, b)
      PROVE  HandleInv'
  BY <1>1, <1>8 DEF RequestStart
<1>9. ASSUME NEW c \in Clients, NEW r \in Runs, RequestStop(c, r)
      PROVE  HandleInv'
  BY <1>1, <1>9 DEF RequestStop
<1>10. ASSUME NEW r \in Runs, ActorStops(r)
       PROVE  HandleInv'
  BY <1>10 DEF ActorStops, HandleInv, Live, TypeOK
<1>11. ASSUME NEW r \in Runs, ActorFails(r)
       PROVE  HandleInv'
  BY <1>11 DEF ActorFails, HandleInv, Live, TypeOK
<1>12. ASSUME NEW r \in Runs, PublishEnd(r)
       PROVE  HandleInv'
  BY <1>12 DEF PublishEnd, HandleInv, Live, TypeOK
<1>13. CASE Restart
  BY <1>13 DEF Restart, HandleInv
<1>14. CASE UNCHANGED vars
  BY <1>1, <1>14 DEF vars
<1> QED
  BY <1>2, <1>3, <1>4, <1>5, <1>6, <1>7, <1>8, <1>9, <1>10, <1>11, <1>12, <1>13, <1>14
     DEF Next, StartStep, ActorStep

\* A start that is answered leaves every other start as it was, as far as its run's row,
\* bot and handle are the same.
LEMMA OthersStart ==
  ASSUME TypeOK, StartInv, NEW c \in Clients, Answer(c),
         \A d \in Clients \ {c} : at[d] \in Created =>
           /\ row'[run[d]] = row[run[d]] /\ bot'[run[d]] = bot[run[d]]
           /\ run[d] \notin handles'
  PROVE  StartInv'
<1>1. /\ at'[c] = "idle"
      /\ \A d \in Clients \ {c} : at'[d] = at[d] /\ asks'[d] = asks[d] /\ run'[d] = run[d]
  BY AnswerTyped
<1> QED
  BY <1>1 DEF StartInv, StartPhase, Created

\* Every step keeps a start's run to itself, of its bot and with the row it should have.
LEMMA StartStays ==
  ASSUME IInv, [Next]_vars
  PROVE  StartInv'
<1> USE DEF IInv
<1>t. TypeOK
  OBVIOUS
<1>h. \A c, d \in Clients : at[c] \in Holding /\ at[d] \in Created => c = d
  BY OneHolder DEF Holding, Created
<1>1. ASSUME NEW c \in Clients, BeginAdmission(c) \/ Admit(c)
      PROVE  StartInv'
  BY <1>1 DEF BeginAdmission, Admit, Go, StartInv, StartPhase, Created, TypeOK, runtime
<1>2. ASSUME NEW c \in Clients, Subscribe(c) \/ BeginRun(c)
      PROVE  StartInv'
  <2>1. at[c] \in Holding /\ at[c] \in Created
    BY <1>2 DEF Subscribe, BeginRun, Holding, Created
  <2>2. run[c] \in Runs /\ bot[run[c]] = asks[c] /\ run[c] \notin handles /\ asks[c] \in Bots
    BY <2>1 DEF StartInv, Created, StartPhase
  <2>3. \A d \in Clients \ {c} : at'[d] = at[d] /\ at[d] \notin Created
    BY <1>2, <1>h, <2>1 DEF Subscribe, BeginRun, Go, TypeOK
  <2>4. at'[c] = (IF at[c] = "subscribe" THEN "begin" ELSE "insert")
        /\ UNCHANGED <<bot, asks, run, handles>>
    BY <1>2 DEF Subscribe, BeginRun, Go, TypeOK, runtime
  <2>5. row'[run[c]] = IF at'[c] = "insert" THEN "running" ELSE "created"
    BY <1>2, <2>2, <2>4 DEF Subscribe, BeginRun, StartInv, Created, TypeOK
  <2> QED
    BY <2>1, <2>2, <2>3, <2>4, <2>5 DEF StartInv, Created, StartPhase
<1>3. ASSUME NEW c \in Clients, NEW r \in Runs, ReadStatus(c, r)
      PROVE  StartInv'
  BY <1>3 DEF ReadStatus, StartInv, runtime
<1>4. ASSUME NEW c \in Clients, Refuse(c) \/ CreateFails(c) \/ Drop(c) \/ SendStop(c)
      PROVE  StartInv'
  <2>1. Answer(c) /\ UNCHANGED <<row, bot, handles>>
    BY <1>4 DEF Refuse, CreateFails, Drop, SendStop, runtime
  <2> QED
    BY <2>1, OthersStart DEF StartInv
<1>5. ASSUME NEW c \in Clients, SubscribeFails(c) \/ BeginRunFails(c) \/ Insert(c)
      PROVE  StartInv'
  <2>1. Answer(c) /\ at[c] \in Holding
    BY <1>5 DEF SubscribeFails, BeginRunFails, Insert, Holding
  <2> QED
    BY <2>1, <1>h, OthersStart
<1>6. ASSUME NEW c \in Clients, NEW r \in Runs, Create(c, r)
      PROVE  StartInv'
  <2>1. at[c] \in Holding /\ at[c] \notin Created /\ asks[c] \in Bots
    BY <1>6 DEF Create, Holding, Created, StartInv, StartPhase
  <2>2. \A d \in Clients : at[d] \notin Created
    BY <1>h, <2>1
  <2>3. CASE Answer(c)
    BY <2>2, <2>3, OthersStart
  <2>4. CASE Go(c, "subscribe") /\ run' = [run EXCEPT ![c] = r] /\ UNCHANGED asks
    <3>1. /\ r \notin handles /\ bot'[r] = asks[c] /\ row'[r] = "created"
          /\ UNCHANGED handles
      BY <1>6 DEF Create, HandleInv, TypeOK, runtime
    <3> QED
      BY <3>1, <2>1, <2>2, <2>4 DEF Go, TypeOK, StartInv, Created, StartPhase
  <2> QED
    BY <1>6, <2>3, <2>4 DEF Create
<1>7. ASSUME NEW c \in Clients, NEW b \in Bots, RequestStart(c, b)
      PROVE  StartInv'
  BY <1>7 DEF RequestStart, Go, TypeOK, StartInv, StartPhase, Created, runtime
<1>8. ASSUME NEW c \in Clients, NEW r \in Runs, RequestStop(c, r)
      PROVE  StartInv'
  BY <1>8 DEF RequestStop, Go, TypeOK, StartInv, StartPhase, Created, runtime
<1>9. ASSUME NEW r \in Runs, ActorStops(r) \/ ActorFails(r) \/ PublishEnd(r)
      PROVE  StartInv'
  <2>1. r \in handles
    BY <1>9 DEF ActorStops, ActorFails, PublishEnd, HandleInv
  <2>2. /\ UNCHANGED <<bot, request, handles>>
        /\ \A s \in Runs \ {r} : row'[s] = row[s]
    BY <1>9 DEF ActorStops, ActorFails, PublishEnd, TypeOK
  <2> QED
    BY <2>1, <2>2 DEF StartInv, request
<1>10. CASE Restart
  BY <1>10 DEF Restart, StartInv, StartPhase, Created
<1>11. CASE UNCHANGED vars
  BY <1>11 DEF vars, request, runtime, StartInv
<1> QED
  BY <1>1, <1>2, <1>3, <1>4, <1>5, <1>6, <1>7, <1>8, <1>9, <1>10, <1>11
     DEF Next, StartStep, ActorStep

\* The registry counts finitely many runs (active_runtime_admission).
LEMMA FiniteRuns ==
  ASSUME NEW A, A \subseteq Runs
  PROVE  IsFiniteSet(A) /\ Cardinality(A) \in Nat
<1>1. IsFiniteSet(Runs)
  BY FS_Interval, ManagerAssumption DEF Runs
<1> QED
  BY <1>1, FS_Subset, FS_CardinalityType

\* Fewer runs are no more of them.
LEMMA FewerRuns ==
  ASSUME NEW A, NEW B, A \subseteq B, B \subseteq Runs
  PROVE  Cardinality(A) <= Cardinality(B)
BY FiniteRuns, FS_Subset

\* What an admission knows of the live runs stays true when no run becomes live, no live
\* run changes its bot and the start itself does not move.
LEMMA OthersAdmission ==
  ASSUME IInv, [Next]_vars, NEW d \in Clients,
         at'[d] = at[d], asks'[d] = asks[d],
         at[d] = "admission" => unread[d] \cup found[d] \subseteq unread'[d] \cup found'[d],
         Live' \subseteq Live, \A r \in Live : bot'[r] = bot[r]
  PROVE  /\ at'[d] = "admission" => Live' \subseteq unread'[d] \cup found'[d]
         /\ at'[d] \in Admitted => /\ \A r \in Live' : bot'[r] # asks'[d]
                                   /\ Cardinality(Live') < Cap
<1>1. Live \subseteq Runs /\ Cardinality(Live) \in Nat /\ Cardinality(Live') \in Nat
  BY FiniteRuns DEF Live
<1>2. Cardinality(Live') <= Cardinality(Live)
  BY <1>1, FewerRuns
<1>3. Cardinality(Live) < Cap => Cardinality(Live') < Cap
  BY <1>1, <1>2, ManagerAssumption
<1> QED
  BY <1>3 DEF IInv, AdmissionInv

\* A live run's bot is the one its row was created with (create_trading_run).
LEMMA LiveKeepsBot ==
  ASSUME IInv, [Next]_vars
  PROVE  \A r \in Live : bot'[r] = bot[r]
<1>1. \A r \in Live : row[r] # "none"
  BY DEF IInv, Live, HandleInv
<1>2. bot' = bot \/ \E c \in Clients, r \in Runs : Create(c, r)
  BY DEF Next, StartStep, ActorStep, BeginAdmission, Refuse, Admit, CreateFails, Subscribe,
         SubscribeFails, BeginRun, BeginRunFails, Insert, ReadStatus, SendStop, Drop,
         RequestStart, RequestStop, ActorStops, ActorFails, PublishEnd, Restart, vars
<1> QED
  BY <1>1, <1>2 DEF IInv, Create, TypeOK, Live

\* Every step keeps what the start with the lock has counted: no run becomes live behind
\* its back.
LEMMA AdmissionStays ==
  ASSUME IInv, [Next]_vars
  PROVE  AdmissionInv'
<1> USE DEF IInv
<1>t. TypeOK
  OBVIOUS
<1> DEFINE Knows(d) ==
             /\ at[d] = "admission" => Live \subseteq unread[d] \cup found[d]
             /\ at[d] \in Admitted =>
                  (\A r \in Live : bot[r] # asks[d]) /\ Cardinality(Live) < Cap
<1>k. AdmissionInv <=> \A d \in Clients : Knows(d)
  BY DEF AdmissionInv
<1>k2. (\A d \in Clients : Knows(d)') => AdmissionInv'
  BY DEF AdmissionInv
<1>b. \A r \in Live : bot'[r] = bot[r]
  BY LiveKeepsBot
<1>h. \A c, d \in Clients : at[c] \in Holding /\ at[d] \in Holding => c = d
  BY OneHolder
<1>a. Admitted \subseteq Holding /\ "admission" \in Holding
  BY DEF Admitted, Holding
<1>o. ASSUME NEW d \in Clients, at'[d] = at[d], asks'[d] = asks[d],
             at[d] = "admission" => unread'[d] = unread[d] /\ found'[d] = found[d],
             Live' \subseteq Live
      PROVE  Knows(d)'
  BY <1>o, <1>b, OthersAdmission
<1>ans. ASSUME NEW c \in Clients, Answer(c), Live' \subseteq Live
        PROVE  AdmissionInv'
  <2>1. /\ at'[c] = "idle"
        /\ \A d \in Clients \ {c} :
             /\ at'[d] = at[d] /\ asks'[d] = asks[d]
             /\ unread'[d] = unread[d] /\ found'[d] = found[d]
    BY <1>ans, AnswerTyped
  <2>2. Knows(c)'
    BY <2>1 DEF Admitted, Holding
  <2>3. \A d \in Clients \ {c} : Knows(d)'
    BY <2>1, <1>ans, <1>o
  <2> QED
    BY <2>2, <2>3, <1>k2
<1> HIDE DEF Knows
<1>1. ASSUME NEW c \in Clients, BeginAdmission(c)
      PROVE  AdmissionInv'
  <2>1. /\ at'[c] = "admission" /\ unread'[c] = handles
        /\ UNCHANGED <<asks, actor, found>>
        /\ \A d \in Clients \ {c} : at'[d] = at[d] /\ unread'[d] = unread[d]
    BY <1>1 DEF BeginAdmission, Go, TypeOK, runtime
  <2>2. Live' = Live /\ Live \subseteq handles
    BY <2>1 DEF Live, HandleInv
  <2>3. Knows(c)'
    BY <2>1, <2>2 DEF Knows, Admitted
  <2>4. \A d \in Clients \ {c} : Knows(d)'
    BY <2>1, <2>2, <1>o
  <2> QED
    BY <2>3, <2>4, <1>k2
<1>2. ASSUME NEW c \in Clients, NEW r \in Runs, ReadStatus(c, r)
      PROVE  AdmissionInv'
  <2>1. /\ at[c] = "admission" /\ UNCHANGED <<at, asks, actor, bot>>
        /\ unread'[c] = unread[c] \ {r}
        /\ found'[c] = IF shown[r] = "running" THEN found[c] \cup {r} ELSE found[c]
        /\ \A d \in Clients \ {c} : unread'[d] = unread[d] /\ found'[d] = found[d]
    BY <1>2 DEF ReadStatus, TypeOK, runtime
  <2>2. Live' = Live
    BY <2>1 DEF Live
  <2>3. r \in Live => shown[r] = "running"
    BY DEF HandleInv, Live
  <2>4. Live \subseteq unread[c] \cup found[c]
    BY <2>1 DEF AdmissionInv
  <2>5. Live' \subseteq unread'[c] \cup found'[c]
    BY <2>1, <2>2, <2>3, <2>4
  <2>6. Knows(c)'
    BY <2>1, <2>5 DEF Knows, Admitted
  <2>7. \A d \in Clients \ {c} : Knows(d)'
    BY <2>1, <2>2, <1>o
  <2> QED
    BY <2>6, <2>7, <1>k2
<1>3. ASSUME NEW c \in Clients, Admit(c)
      PROVE  AdmissionInv'
  <2>1. /\ at[c] = "admission" /\ at'[c] = "create" /\ unread[c] = {}
        /\ UNCHANGED <<asks, actor, bot, unread>>
        /\ \A d \in Clients \ {c} : at'[d] = at[d] /\ found'[d] = found[d]
    BY <1>3 DEF Admit, Go, TypeOK, runtime
  <2>2. Live' = Live /\ Live \subseteq found[c] /\ found[c] \subseteq Runs
    BY <2>1 DEF Live, AdmissionInv, TypeOK
  <2>3. \A r \in Live : bot[r] # asks[c]
    BY <2>2, <1>3 DEF Admit, AlreadyActive
  <2>4. Cardinality(found[c]) < Cap
    BY <2>2, <1>3, FiniteRuns, ManagerAssumption DEF Admit, Busy
  <2>5. /\ Cardinality(Live) <= Cardinality(found[c])
        /\ Cardinality(Live) \in Nat /\ Cardinality(found[c]) \in Nat
    BY <2>2, FewerRuns, FiniteRuns
  <2>6. Cardinality(Live) < Cap
    BY <2>4, <2>5, ManagerAssumption
  <2>7. Knows(c)'
    BY <2>1, <2>2, <2>3, <2>6 DEF Knows
  <2>8. \A d \in Clients \ {c} : Knows(d)'
    BY <2>1, <2>2, <1>o
  <2> QED
    BY <2>7, <2>8, <1>k2
<1>4. ASSUME NEW c \in Clients, Refuse(c) \/ CreateFails(c) \/ Drop(c) \/ SubscribeFails(c)
                                \/ BeginRunFails(c) \/ SendStop(c)
      PROVE  AdmissionInv'
  <2>1. Answer(c) /\ UNCHANGED actor
    BY <1>4 DEF Refuse, CreateFails, Drop, SubscribeFails, BeginRunFails, SendStop, runtime
  <2>2. Live' \subseteq Live
    BY <2>1 DEF Live
  <2> QED
    BY <2>1, <2>2, <1>ans
<1>5. ASSUME NEW c \in Clients, NEW p \in Admitted, at[c] \in Admitted, Go(c, p),
             UNCHANGED <<asks, unread, found, actor>>
      PROVE  AdmissionInv'
  <2>1. at'[c] = p /\ \A d \in Clients \ {c} : at'[d] = at[d]
    BY <1>5 DEF Go, TypeOK
  <2>2. Live' = Live
    BY <1>5 DEF Live
  <2>3. Knows(c)
    BY <1>k
  <2>4. Knows(c)'
    BY <2>1, <2>2, <2>3, <1>b, <1>5 DEF Knows, Admitted
  <2>5. \A d \in Clients \ {c} : Knows(d)'
    BY <2>1, <2>2, <1>5, <1>o
  <2> QED
    BY <2>4, <2>5, <1>k2
<1>6. ASSUME NEW c \in Clients, NEW r \in Runs, Create(c, r)
      PROVE  AdmissionInv'
  <2>1. UNCHANGED actor
    BY <1>6 DEF Create, runtime
  <2>2. Live' \subseteq Live
    BY <2>1 DEF Live
  <2>3. CASE Answer(c)
    BY <2>2, <2>3, <1>ans
  <2>4. CASE Go(c, "subscribe") /\ UNCHANGED <<asks, unread, found>>
    <3>1. at[c] \in Admitted /\ "subscribe" \in Admitted
      BY <1>6 DEF Create, Admitted, Holding
    <3> QED
      BY <3>1, <2>1, <2>4, <1>5
  <2> QED
    BY <1>6, <2>3, <2>4 DEF Create
<1>7. ASSUME NEW c \in Clients, Subscribe(c) \/ BeginRun(c)
      PROVE  AdmissionInv'
  <2>1. /\ at[c] \in Admitted /\ \E p \in Admitted : Go(c, p)
        /\ UNCHANGED <<asks, unread, found, actor>>
    BY <1>7 DEF Subscribe, BeginRun, Admitted, Holding, runtime
  <2> QED
    BY <2>1, <1>5
<1>8. ASSUME NEW c \in Clients, Insert(c)
      PROVE  AdmissionInv'
  <2>1. at[c] \in Holding /\ Answer(c)
    BY <1>8 DEF Insert, Holding
  <2>2. at'[c] = "idle" /\ \A d \in Clients \ {c} : at'[d] = at[d]
    BY <2>1, AnswerTyped
  <2>3. \A d \in Clients : at'[d] \notin Holding
    BY <2>1, <2>2, <1>h DEF Holding
  <2> QED
    BY <2>3, <1>a, <1>k2 DEF Knows
<1>9. ASSUME NEW c \in Clients, NEW p \in {"queued", "stop_queued"}, at[c] = "idle", Go(c, p),
             UNCHANGED <<unread, found, actor>>, \A d \in Clients \ {c} : asks'[d] = asks[d]
      PROVE  AdmissionInv'
  <2>1. at'[c] = p /\ \A d \in Clients \ {c} : at'[d] = at[d]
    BY <1>9 DEF Go, TypeOK
  <2>2. Live' = Live
    BY <1>9 DEF Live
  <2>3. Knows(c)'
    BY <2>1 DEF Knows, Admitted, Holding
  <2>4. \A d \in Clients \ {c} : Knows(d)'
    BY <2>1, <2>2, <1>9, <1>o
  <2> QED
    BY <2>3, <2>4, <1>k2
<1>10. ASSUME NEW c \in Clients, NEW b \in Bots, RequestStart(c, b)
       PROVE  AdmissionInv'
  BY <1>9, <1>10 DEF RequestStart, TypeOK, runtime
<1>11. ASSUME NEW c \in Clients, NEW r \in Runs, RequestStop(c, r)
       PROVE  AdmissionInv'
  BY <1>9, <1>11 DEF RequestStop, runtime
<1>12. ASSUME NEW r \in Runs, ActorStep(r) \/ ActorFails(r)
       PROVE  AdmissionInv'
  <2>1. UNCHANGED request /\ Live' \subseteq Live
    BY <1>12 DEF ActorStep, ActorStops, ActorFails, PublishEnd, Live, TypeOK
  <2> QED
    BY <2>1, <1>o, <1>k2 DEF request
<1>13. CASE Restart
  BY <1>13, <1>k2 DEF Restart, Knows, Admitted, Holding
<1>14. CASE UNCHANGED vars
  <2>1. UNCHANGED request /\ Live' \subseteq Live
    BY <1>14 DEF vars, runtime, Live
  <2> QED
    BY <2>1, <1>o, <1>k2 DEF request
<1> QED
  BY <1>1, <1>2, <1>3, <1>4, <1>6, <1>7, <1>8, <1>10, <1>11, <1>12, <1>13, <1>14
     DEF Next, StartStep

\* Every step keeps the bots of the live runs apart and the number of the runs within the
\* capacity: the one run a step can add has been admitted.
LEMMA LiveStays ==
  ASSUME IInv, [Next]_vars
  PROVE  LiveInv'
<1> USE DEF IInv
<1>1. Live \subseteq Runs /\ IsFiniteSet(Live) /\ Cardinality(Live) \in Nat
  BY FiniteRuns DEF Live
<1>2. CASE \E c \in Clients : Insert(c) /\ Live' = Live \cup {run[c]}
  <2>1. PICK c \in Clients : Insert(c) /\ Live' = Live \cup {run[c]}
    BY <1>2
  <2>2. at[c] = "insert" /\ bot' = bot
    BY <2>1 DEF Insert
  <2>3. run[c] \in Runs \ handles /\ bot[run[c]] = asks[c]
    BY <2>2 DEF StartInv, Created
  <2>4. (\A r \in Live : bot[r] # asks[c]) /\ Cardinality(Live) < Cap
    BY <2>2 DEF AdmissionInv, Admitted, Holding
  <2>5. \A r, s \in Live' : bot'[r] = bot'[s] => r = s
    BY <2>1, <2>2, <2>3, <2>4 DEF LiveInv
  <2>6. run[c] \notin Live
    BY <2>3 DEF HandleInv, Live
  <2>7. Cardinality(Live') = Cardinality(Live) + 1
    BY <2>1, <2>6, <1>1, FS_AddElement
  <2>8. Cardinality(Live') <= Cap
    BY <2>4, <2>7, <1>1, ManagerAssumption
  <2> QED
    BY <2>5, <2>8 DEF LiveInv
<1>3. CASE Live' \subseteq Live
  <2>1. \A r \in Live : bot'[r] = bot[r]
    BY LiveKeepsBot
  <2>2. Cardinality(Live') <= Cardinality(Live) /\ Cardinality(Live') \in Nat
    BY <1>1, <1>3, FewerRuns, FiniteRuns
  <2>3. Cardinality(Live') <= Cap
    BY <2>2, <1>1, ManagerAssumption DEF LiveInv
  <2> QED
    BY <1>3, <2>1, <2>3 DEF LiveInv
<1> QED
  BY <1>2, <1>3, LiveStep

-----------------------------------------------------------------------------
(* The theorems *)

\* The registry starts with no run, no request and no handle (PaperManager::new).
LEMMA InitHolds ==
  ASSUME Init
  PROVE  IInv
<1>1. Live = {}
  BY DEF Live, Init
<1>2. Cardinality(Live) = 0
  BY <1>1, FS_EmptySet
<1>3. TypeOK
  BY EmptySeq DEF Init, TypeOK, Phase, IsInjective
<1>4. QueueInv
  BY EmptySeq DEF Init, QueueInv, Holding
<1>5. HandleInv
  BY DEF Init, HandleInv
<1>6. StartInv
  BY DEF Init, StartInv, StartPhase, Created
<1>7. AdmissionInv
  BY DEF Init, AdmissionInv, Admitted, Holding
<1>8. LiveInv
  BY <1>1, <1>2, ManagerAssumption DEF LiveInv
<1> QED
  BY <1>3, <1>4, <1>5, <1>6, <1>7, <1>8 DEF IInv

\* The registry keeps its invariant: the lock, the handles, the starts under way and the
\* live runs agree in every state (PaperManager's start and stop, run_loop).
THEOREM ManagerIsInvariant == Spec => []IInv
<1>1. Init => IInv
  BY InitHolds
<1>2. IInv /\ [Next]_vars => IInv'
  BY TypeStays, QueueStays, HandleStays, StartStays, AdmissionStays, LiveStays DEF IInv
<1> QED
  BY <1>1, <1>2, PTL DEF Spec

\* Every field of the registry and of its requests has its type, and no request waits for
\* the runtimes lock twice.
THEOREM ManagerTypeCorrect == Spec => []TypeOK
<1>1. IInv => TypeOK
  BY DEF IInv
<1> QED
  BY <1>1, ManagerIsInvariant, PTL

\* The runs that rows are written for are the live ones and, at most, the run of the start
\* that has the lock.
LEMMA DrivenRuns ==
  ASSUME IInv
  PROVE  \/ Driven = Live
         \/ \E c \in Clients :
              at[c] \in {"begin", "insert"} /\ Driven = Live \cup {run[c]}
<1>1. CASE \A c \in Clients : at[c] \notin {"begin", "insert"}
  BY <1>1 DEF Driven, Live
<1>2. ASSUME NEW c \in Clients, at[c] \in {"begin", "insert"}
      PROVE  Driven = Live \cup {run[c]}
  <2>1. \A d \in Clients : at[d] \in {"begin", "insert"} => d = c
    BY <1>2, OneHolder DEF IInv, Holding
  <2> QED
    BY <1>2, <2>1 DEF Driven, Live
<1> QED
  BY <1>1, <1>2

\* However starts, stops and endings interleave, two runs that are written for are never
\* of the same bot (PaperManager::start's check under the runtimes lock).
THEOREM ManagerOneRunPerBot == Spec => []OneRunPerBot
<1>1. ASSUME IInv
      PROVE  OneRunPerBot
  <2>1. \A r, s \in Live : bot[r] = bot[s] => r = s
    BY <1>1 DEF IInv, LiveInv
  <2>2. ASSUME NEW c \in Clients, at[c] \in {"begin", "insert"}, Driven = Live \cup {run[c]}
        PROVE  OneRunPerBot
    <3>1. bot[run[c]] = asks[c] /\ \A r \in Live : bot[r] # asks[c]
      BY <1>1, <2>2 DEF IInv, StartInv, AdmissionInv, Created, Admitted, Holding
    <3> QED
      BY <2>1, <2>2, <3>1 DEF OneRunPerBot
  <2> QED
    BY <1>1, <2>1, <2>2, DrivenRuns DEF OneRunPerBot
<1> QED
  BY <1>1, ManagerIsInvariant, PTL

\* No more than MAX_ACTIVE_PAPER_RUNS runs are ever written for, whatever the number of
\* simultaneous starts (Busy in PaperManager::start).
THEOREM ManagerCapHolds == Spec => []CapHolds
<1>1. ASSUME IInv
      PROVE  CapHolds
  <2>1. /\ Live \subseteq Runs /\ IsFiniteSet(Live)
        /\ Cardinality(Live) \in Nat /\ Cardinality(Live) <= Cap
    BY <1>1, FiniteRuns DEF IInv, LiveInv, Live
  <2>2. ASSUME NEW c \in Clients, at[c] \in {"begin", "insert"}, Driven = Live \cup {run[c]}
        PROVE  CapHolds
    <3>1. Cardinality(Live) < Cap
      BY <1>1, <2>2 DEF IInv, AdmissionInv, Admitted, Holding
    <3>2. run[c] \notin Live
      BY <1>1, <2>2 DEF IInv, StartInv, HandleInv, Created, Live
    <3>3. Cardinality(Driven) = Cardinality(Live) + 1
      BY <2>1, <2>2, <3>2, FS_AddElement
    <3> QED
      BY <2>1, <3>1, <3>3, ManagerAssumption DEF CapHolds
  <2> QED
    BY <1>1, <2>1, <2>2, DrivenRuns DEF CapHolds
<1> QED
  BY <1>1, ManagerIsInvariant, PTL

-----------------------------------------------------------------------------
(* The promise of BotRuns *)

\* The active runs of every bot and the runs that have ended, as KeepsPromise reads them
\* off the registry.
Active == [b \in Bots |-> ActiveOf(b)]
Ended == {r \in Runs : IF r \in handles THEN shown[r] # "running"
                       ELSE row[r] \in {"stopped", "failed"}}

\* The runs the snapshots show running are the live ones.
LEMMA ActiveIsLive ==
  ASSUME IInv
  PROVE  /\ \A b \in Bots : Active[b] = {r \in Live : bot[r] = b}
         /\ Promise!ActiveRuns = Live
<1>1. \A b \in Bots : Active[b] = {r \in Live : bot[r] = b}
  BY DEF Active, ActiveOf, IInv, HandleInv, Live, TypeOK
<1>2. \A r \in Live : bot[r] \in Bots
  BY DEF IInv, HandleInv, Live
<1>3. Promise!ActiveRuns = UNION {Active[b] : b \in Bots}
  BY DEF Promise!ActiveRuns, Active
<1>4. UNION {Active[b] : b \in Bots} = Live
  BY <1>1, <1>2
<1> QED
  BY <1>1, <1>3, <1>4

\* Runs with a handle decide what is active; rows decide only for the others.
LEMMA SameActive ==
  ASSUME UNCHANGED <<handles, shown>>, \A r \in handles : bot'[r] = bot[r]
  PROVE  Active' = Active
BY DEF Active, ActiveOf

\* The insertion of a start's handle is the beginning of an active run (Insert).
LEMMA InsertBegins ==
  ASSUME IInv, NEW c \in Clients, Insert(c)
  PROVE  Promise!Begin(asks[c], run[c])
<1> USE DEF IInv
<1>1. /\ run[c] \in Runs \ handles /\ asks[c] \in Bots
      /\ bot[run[c]] = asks[c] /\ row[run[c]] = "running"
  BY DEF Insert, StartInv, Created, StartPhase
<1>2. (\A r \in Live : bot[r] # asks[c]) /\ Cardinality(Live) < Cap
  BY DEF Insert, AdmissionInv, Admitted, Holding
<1>3. Active[asks[c]] = {} /\ Cardinality(Promise!ActiveRuns) < Cap
  BY <1>1, <1>2, ActiveIsLive
<1>4. run[c] \notin Promise!ActiveRuns \cup Ended
  BY <1>1, ActiveIsLive DEF Ended, HandleInv, Live
<1>5. /\ handles' = handles \cup {run[c]} /\ UNCHANGED <<row, bot>>
      /\ shown' = [shown EXCEPT ![run[c]] = "running"]
  BY DEF Insert
<1>6. ASSUME NEW b \in Bots
      PROVE  ActiveOf(b)' = IF b = asks[c] THEN {run[c]} ELSE ActiveOf(b)
  <2>1. ActiveOf(b)' = ActiveOf(b) \cup (IF b = asks[c] THEN {run[c]} ELSE {})
    BY <1>1, <1>5 DEF ActiveOf, TypeOK
  <2>2. b = asks[c] => ActiveOf(b) = {}
    BY <1>3 DEF Active
  <2> QED
    BY <2>1, <2>2
<1>7. Active' = [Active EXCEPT ![asks[c]] = {run[c]}]
  BY <1>1, <1>6 DEF Active
<1>8. Ended' = Ended
  BY <1>1, <1>5 DEF Ended, TypeOK
<1>9. Promise!Cardinality(Promise!ActiveRuns) = Cardinality(Promise!ActiveRuns)
  BY DEF Promise!Cardinality, Cardinality
<1> QED
  BY <1>3, <1>4, <1>7, <1>8, <1>9 DEF Promise!Begin, Active, Ended

\* The last snapshot of a loop ends its run for good (PublishEnd).
LEMMA PublishEnds ==
  ASSUME IInv, NEW r \in Runs, PublishEnd(r)
  PROVE  bot[r] \in Bots /\ Promise!End(bot[r], r)
<1> USE DEF IInv
<1>1. r \in Live /\ r \in handles /\ bot[r] \in Bots
  BY DEF PublishEnd, Live, HandleInv
<1>2. r \in Active[bot[r]]
  BY <1>1, ActiveIsLive
<1>3. /\ UNCHANGED <<row, bot, handles>> /\ shown'[r] # "running"
      /\ \A s \in Runs \ {r} : shown'[s] = shown[s]
  BY DEF PublishEnd, TypeOK
<1>4. ASSUME NEW b \in Bots
      PROVE  ActiveOf(b)' = IF b = bot[r] THEN {} ELSE ActiveOf(b)
  <2>1. ActiveOf(b)' = ActiveOf(b) \ {r}
    BY <1>3 DEF ActiveOf, TypeOK
  <2>2. ActiveOf(b) = {s \in Live : bot[s] = b}
    BY ActiveIsLive DEF Active
  <2>3. b = bot[r] => ActiveOf(b) = {r}
    BY <2>2, <1>1 DEF LiveInv
  <2>4. b # bot[r] => r \notin ActiveOf(b)
    BY DEF ActiveOf
  <2> QED
    BY <2>1, <2>3, <2>4
<1>5. Active' = [Active EXCEPT ![bot[r]] = {}]
  BY <1>1, <1>4 DEF Active
<1>6. Ended' = Ended \cup {r}
  BY <1>1, <1>3 DEF Ended, TypeOK
<1> QED
  BY <1>1, <1>2, <1>5, <1>6 DEF Promise!End, Active, Ended

\* A start that fails after its row was written either leaves the record as it was or
\* discards the run (SubscribeFails, BeginRunFails).
LEMMA FailedStartDiscards ==
  ASSUME IInv, NEW c \in Clients, SubscribeFails(c) \/ BeginRunFails(c)
  PROVE  Promise!Discard(run[c]) \/ UNCHANGED <<Active, Ended>>
<1> USE DEF IInv
<1>1. /\ run[c] \in Runs \ handles /\ row[run[c]] = "created"
      /\ UNCHANGED <<bot, handles, shown>>
  BY DEF SubscribeFails, BeginRunFails, StartInv, Created, runtime
<1>2. /\ row'[run[c]] \in {"created", "running", "failed"}
      /\ \A s \in Runs \ {run[c]} : row'[s] = row[s]
  BY <1>1 DEF SubscribeFails, BeginRunFails, TypeOK
<1>3. Active' = Active
  BY <1>1, SameActive
<1>4. CASE row'[run[c]] = "failed"
  <2>1. Ended' = Ended \cup {run[c]}
    BY <1>1, <1>2, <1>4 DEF Ended
  <2>2. run[c] \notin Promise!ActiveRuns
    BY <1>1, ActiveIsLive DEF HandleInv, Live
  <2> QED
    BY <1>3, <2>1, <2>2 DEF Promise!Discard, Active, Ended
<1>5. CASE row'[run[c]] # "failed"
  <2>1. Ended' = Ended
    BY <1>1, <1>2, <1>5 DEF Ended
  <2> QED
    BY <1>3, <2>1
<1> QED
  BY <1>4, <1>5

\* The next process fails every run that was unfinished, so nothing that was active or had
\* ended is left open (Restart).
LEMMA RestartEndsAll ==
  ASSUME IInv, Restart
  PROVE  Promise!EndAll
<1> USE DEF IInv
<1>1. Active' = [b \in Bots |-> {}]
  BY DEF Active, ActiveOf, Restart
<1>2. Ended' \in SUBSET Runs
  BY DEF Ended
<1>3. \A r \in Runs : row[r] # "none" => r \in Ended'
  BY DEF Ended, Restart, TypeOK
<1>4. Ended \cup Live \subseteq Ended'
  BY <1>3 DEF Ended, HandleInv, Live
<1>5. Ended' = Ended \cup Promise!ActiveRuns \cup Ended'
  BY <1>4, ActiveIsLive
<1>6. \E S \in SUBSET Runs : Ended' = Ended \cup Promise!ActiveRuns \cup S
  BY <1>2, <1>5
<1> QED
  BY <1>1, <1>6 DEF Promise!EndAll, Active, Ended

\* Every step of the registry is a step of BotRuns or changes nothing it sees.
LEMMA PromiseStep ==
  ASSUME IInv, [Next]_vars
  PROVE  [Promise!BotNext]_(Promise!botVars)
<1> USE DEF IInv
<1>v. UNCHANGED <<Active, Ended>> => UNCHANGED Promise!botVars
  BY DEF Promise!botVars, Active, Ended
<1>1. ASSUME UNCHANGED <<row, bot, handles, shown>>
      PROVE  UNCHANGED <<Active, Ended>>
  BY <1>1 DEF Active, ActiveOf, Ended
<1>2. ASSUME NEW c \in Clients, BeginAdmission(c) \/ Refuse(c) \/ Admit(c) \/ CreateFails(c)
                                \/ Subscribe(c) \/ SendStop(c) \/ Drop(c)
      PROVE  UNCHANGED <<Active, Ended>>
  BY <1>1, <1>2 DEF BeginAdmission, Refuse, Admit, CreateFails, Subscribe, SendStop, Drop, runtime
<1>3. ASSUME NEW c \in Clients, NEW r \in Runs, ReadStatus(c, r) \/ RequestStop(c, r)
      PROVE  UNCHANGED <<Active, Ended>>
  BY <1>1, <1>3 DEF ReadStatus, RequestStop, runtime
<1>4. ASSUME NEW c \in Clients, NEW b \in Bots, RequestStart(c, b)
      PROVE  UNCHANGED <<Active, Ended>>
  BY <1>1, <1>4 DEF RequestStart, runtime
<1>5. ASSUME NEW c \in Clients, NEW r \in Runs, Create(c, r)
      PROVE  UNCHANGED <<Active, Ended>>
  <2>1. r \notin handles /\ row[r] = "none" /\ UNCHANGED <<handles, shown>>
    BY <1>5 DEF Create, HandleInv, runtime
  <2>2. /\ row'[r] = "created"
        /\ \A s \in Runs \ {r} : row'[s] = row[s] /\ bot'[s] = bot[s]
    BY <1>5 DEF Create, TypeOK
  <2>3. Active' = Active
    BY <2>1, <2>2, SameActive DEF TypeOK
  <2>4. Ended' = Ended
    BY <2>1, <2>2 DEF Ended
  <2> QED
    BY <2>3, <2>4
<1>6. ASSUME NEW c \in Clients, BeginRun(c)
      PROVE  UNCHANGED <<Active, Ended>>
  <2>1. /\ run[c] \in Runs \ handles /\ row[run[c]] = "created"
        /\ UNCHANGED <<bot, handles, shown>>
    BY <1>6 DEF BeginRun, StartInv, Created, runtime
  <2>2. row'[run[c]] = "running" /\ \A s \in Runs \ {run[c]} : row'[s] = row[s]
    BY <1>6, <2>1 DEF BeginRun, TypeOK
  <2> QED
    BY <2>1, <2>2, SameActive DEF Ended
<1>7. ASSUME NEW c \in Clients, SubscribeFails(c) \/ BeginRunFails(c)
      PROVE  Promise!BotNext \/ UNCHANGED <<Active, Ended>>
  <2>1. run[c] \in Runs
    BY <1>7, HeldRun DEF SubscribeFails, BeginRunFails, Created
  <2>2. Promise!Discard(run[c]) \/ UNCHANGED <<Active, Ended>>
    BY <1>7, FailedStartDiscards
  <2>3. Promise!Discard(run[c]) => Promise!BotNext
    BY <2>1 DEF Promise!BotNext, Promise!Discard
  <2> QED
    BY <2>2, <2>3
<1>8. ASSUME NEW c \in Clients, Insert(c)
      PROVE  Promise!BotNext
  <2>1. run[c] \in Runs /\ asks[c] \in Bots
    BY <1>8 DEF Insert, StartInv, Created, StartPhase
  <2> QED
    BY <1>8, <2>1, InsertBegins DEF Promise!BotNext
<1>9. ASSUME NEW r \in Runs, ActorStops(r) \/ ActorFails(r)
      PROVE  UNCHANGED <<Active, Ended>>
  <2>1. r \in handles /\ UNCHANGED <<bot, handles, shown>>
    BY <1>9 DEF ActorStops, ActorFails, HandleInv
  <2>2. \A s \in Runs \ {r} : row'[s] = row[s]
    BY <1>9 DEF ActorStops, ActorFails, TypeOK
  <2> QED
    BY <2>1, <2>2, SameActive DEF Ended
<1>10. ASSUME NEW r \in Runs, PublishEnd(r)
       PROVE  Promise!BotNext
  BY <1>10, PublishEnds DEF Promise!BotNext
<1>11. CASE Restart
  BY <1>11, RestartEndsAll DEF Promise!BotNext
<1>12. ASSUME UNCHANGED vars
       PROVE  UNCHANGED <<Active, Ended>>
  BY <1>1, <1>12 DEF vars, runtime
<1> QED
  BY <1>v, <1>2, <1>3, <1>4, <1>5, <1>6, <1>7, <1>8, <1>9, <1>10, <1>11, <1>12
     DEF Next, StartStep, ActorStep

\* Through every interleaving of starts, stops, endings and restarts, the registry as its
\* snapshots show it implements BotRuns: one active run per bot, Cap of them in all, and
\* no run comes back.
THEOREM ManagerKeepsPromise == Spec => KeepsPromise
<1>1. Init => Promise!BotInit
  <2> SUFFICES ASSUME Init PROVE Active = [b \in Bots |-> {}] /\ Ended = {}
    BY DEF Promise!BotInit, Active, Ended
  <2> QED
    BY DEF Init, Active, ActiveOf, Ended
<1>2. IInv /\ [Next]_vars => [Promise!BotNext]_(Promise!botVars)
  BY PromiseStep
<1> QED
  BY <1>1, <1>2, ManagerIsInvariant, PTL DEF Spec, KeepsPromise, Promise!BotSpec
=============================================================================
