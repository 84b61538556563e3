-------------------------- MODULE InstallationProofs --------------------------
(***************************************************************************)
(* Theorems about Installation for every set of servers, job ids and       *)
(* request slots, finite or not, and every number of restarts.             *)
(***************************************************************************)
EXTENDS Installation, FiniteSetTheorems, SequenceTheorems, TLAPS

-----------------------------------------------------------------------------
(* The inductive invariant *)

\* A row of installation_jobs belongs to a server that has one.
ForeignKey == \A j \in Job : job[j] # NoRow => installation[job[j].server] # "absent"

\* There are finitely many rows.
FiniteTable == IsFiniteSet({j \in Job : job[j] # NoRow})

\* The worker and the handlers hold a job exactly where their code has one.
Holding ==
  /\ worker.pc = "waiting" <=> worker.job = NoJob
  /\ \A c \in Client : /\ request[c].pc = "enqueue" <=> request[c].job # NoJob
                       /\ request[c].pc # "idle" => request[c].server \in Server

\* No job is both with a handler and with the worker.
Apart == \A c \in Client : request[c].job = worker.job => worker.job = NoJob

Waiting(j) == job[j].state \in {"queued", "absent"}

\* A job has not begun before the worker begins it, and has not ended then.
InTurn ==
  /\ \A i \in DOMAIN queue : Waiting(queue[i])
  /\ \A c \in Client : request[c].job # NoJob => Waiting(request[c].job)
  /\ worker.pc \in {"load", "begin"} => Waiting(worker.job)
  /\ worker.pc = "prepare" => /\ job[worker.job].state \in {"installing", "absent"}
                              /\ worker.seen = "installing"

Tables == TypeOK /\ ForeignKey /\ FiniteTable /\ Holding
IInv == Tables /\ ActiveJobsScheduled /\ Apart /\ InTurn

-----------------------------------------------------------------------------
(* Type correctness, foreign keys and the finite table *)

\* The rows that are there after a step are those before it and at most one more.
LEMMA TableGrowsByOne ==
  ASSUME FiniteTable, NEW j \in Job, {i \in Job : job'[i] # NoRow} \subseteq {i \in Job : job[i] # NoRow} \cup {j}
  PROVE  FiniteTable'
BY FS_AddElement, FS_Subset DEF FiniteTable

\* So they are when a step adds none.
LEMMA TableGrowsByNone ==
  ASSUME FiniteTable, {i \in Job : job'[i] # NoRow} \subseteq {i \in Job : job[i] # NoRow}
  PROVE  FiniteTable'
BY FS_Subset DEF FiniteTable

\* The order in which the database returns finitely many rows: each one once.
LEMMA EachOnce ==
  ASSUME NEW S, IsFiniteSet(S), NEW q \in SetToSeqs(S)
  PROVE  /\ q \in Seq(S)
         /\ \A i, k \in DOMAIN q : q[i] = q[k] => i = k
         /\ \A x \in S : \E i \in DOMAIN q : q[i] = x
<1> DEFINE D == 1..Cardinality(S)
<1>1. q \in [D -> S] /\ (\A i, k \in D : i # k => q[i] # q[k])
  BY DEF SetToSeqs
<1>2. Cardinality(S) \in Nat
  BY FS_CardinalityType
<1>3. IsFiniteSet(D) /\ Cardinality(D) = Cardinality(S)
  BY <1>2, FS_Interval
<1>4. q \in Injection(D, S)
  BY <1>1 DEF Injection, IsInjective
<1>5. q \in Surjection(D, S)
  BY <1>3, <1>4, FS_Injection
<1> QED BY <1>1, <1>2, <1>5 DEF Surjection

\* ActiveJobs is a part of the table.
LEMMA ActiveJobsFinite ==
  ASSUME TypeOK, FiniteTable
  PROVE  IsFiniteSet(ActiveJobs)
<1>1. ActiveJobs \subseteq {j \in Job : job[j] # NoRow}
  BY DEF ActiveJobs, NoRow, Active
<1> QED BY <1>1, FS_Subset DEF FiniteTable

\* What a commit of the worker leaves in its variable.
LEMMA WorkerAfterWrite ==
  ASSUME TypeOK, NEW state, NEW next, Write(state, next),
         next = Idle \/ next = [worker EXCEPT !.pc = "prepare", !.seen = "installing"]
  PROVE  worker' = IF job[worker.job] = NoRow
                     THEN [pc |-> "dead", job |-> worker.job, seen |-> worker.seen]
                     ELSE IF next = Idle THEN Idle
                     ELSE [pc |-> "prepare", job |-> worker.job, seen |-> "installing"]
<1>1. worker = [pc |-> worker.pc, job |-> worker.job, seen |-> worker.seen]
  BY DEF TypeOK
<1> QED BY <1>1 DEF Write

\* What Load leaves in it.
LEMMA WorkerAfterLoad ==
  ASSUME TypeOK, Load
  PROVE  \/ worker' = Idle /\ job[worker.job].state \in {"absent", "completed"}
         \/ /\ worker' = [pc |-> "begin", job |-> worker.job, seen |-> installation[job[worker.job].server]]
            /\ job[worker.job].state \notin {"absent", "completed"}
<1>1. worker = [pc |-> "load", job |-> worker.job, seen |-> worker.seen]
  BY DEF Load, TypeOK
<1> QED BY <1>1 DEF Load

\* Every step keeps the types and what they rest on: the worker never loads
\* installation_state of a server that is gone.
LEMMA TablesKept ==
  ASSUME Tables, Next
  PROVE  Tables'
<1> USE SentinelAssumption, RestartAssumption
    DEF NoRow, NoRequest, Idle, State, Active
<1>0. TypeOK /\ ForeignKey /\ FiniteTable /\ Holding
  BY DEF Tables
<1>1. ASSUME NEW s \in Server, CreateServer(s)
      PROVE  Tables'
  <2>1. TypeOK' /\ ForeignKey' /\ Holding' BY <1>0, <1>1 DEF CreateServer, TypeOK, ForeignKey, Holding
  <2>2. FiniteTable' BY <1>0, <1>1, TableGrowsByNone DEF CreateServer
  <2> QED BY <2>1, <2>2 DEF Tables
<1>2. ASSUME NEW s \in Server, DeleteServer(s)
      PROVE  Tables'
  <2>1. TypeOK' /\ ForeignKey' /\ Holding' BY <1>0, <1>2 DEF DeleteServer, JobsOf, TypeOK, ForeignKey, Holding
  <2>2. FiniteTable' BY <1>0, <1>2, TableGrowsByNone DEF DeleteServer, JobsOf
  <2> QED BY <2>1, <2>2 DEF Tables
<1>3. ASSUME NEW c \in Client, NEW s \in Server, InstallBegins(c, s)
      PROVE  Tables'
  <2>1. TypeOK' BY <1>0, <1>3 DEF InstallBegins, TypeOK
  <2>2. ForeignKey' /\ Holding' BY <1>0, <1>3 DEF InstallBegins, TypeOK, ForeignKey, Holding
  <2>3. FiniteTable' BY <1>0, <1>3, TableGrowsByNone DEF InstallBegins
  <2> QED BY <2>1, <2>2, <2>3 DEF Tables
<1>4. ASSUME NEW c \in Client, NEW s \in Server, NEW j \in Job, CreateAndInstall(c, s, j)
      PROVE  Tables'
  <2>1. TypeOK' BY <1>0, <1>4 DEF CreateAndInstall, TypeOK
  <2>2. ForeignKey' BY <1>0, <1>4 DEF CreateAndInstall, TypeOK, ForeignKey
  <2>3. Holding' BY <1>0, <1>4 DEF CreateAndInstall, TypeOK, Holding
  <2>4. FiniteTable' BY <1>0, <1>4, TableGrowsByOne DEF CreateAndInstall
  <2> QED BY <2>1, <2>2, <2>3, <2>4 DEF Tables
<1>5. ASSUME NEW c \in Client, InstallLooks(c)
      PROVE  Tables'
  <2>1. TypeOK' BY <1>0, <1>5 DEF InstallLooks, TypeOK
  <2>2. ForeignKey' /\ Holding' BY <1>0, <1>5 DEF InstallLooks, TypeOK, ForeignKey, Holding
  <2>3. FiniteTable' BY <1>0, <1>5, TableGrowsByNone DEF InstallLooks
  <2> QED BY <2>1, <2>2, <2>3 DEF Tables
<1>6. ASSUME NEW c \in Client, NEW j \in Job, InstallInserts(c, j)
      PROVE  Tables'
  <2>0. request[c].server \in Server BY <1>0, <1>6 DEF InstallInserts, Holding
  <2>a. job' = job \/ job' = [job EXCEPT ![j] = [server |-> request[c].server, state |-> "queued"]]
    BY <1>6 DEF InstallInserts
  <2>b. \/ request' = [request EXCEPT ![c] = NoRequest]
        \/ request' = [request EXCEPT ![c] = [pc |-> "enqueue", server |-> request[c].server,
                                              seen |-> request[c].seen, job |-> j]]
    BY <1>6 DEF InstallInserts
  <2>1. TypeOK'
    <3>1. installation' \in [Server -> State \cup {"absent"}]
      BY <1>0, <1>6 DEF InstallInserts, TypeOK
    <3>2. job' \in [Job -> [server : Server, state : State \ {"none"}] \cup {NoRow}]
      BY <1>0, <2>0, <2>a DEF TypeOK
    <3>3. request' \in [Client -> [pc : {"idle", "look", "insert", "enqueue"},
                                   server : Server \cup {NoServer}, seen : State, job : Job \cup {NoJob}]]
      BY <1>0, <2>0, <2>b DEF TypeOK
    <3> QED BY <1>0, <1>6, <3>1, <3>2, <3>3 DEF InstallInserts, TypeOK
  <2>2. ForeignKey' BY <1>0, <1>6, <2>0 DEF InstallInserts, TypeOK, ForeignKey
  <2>3. Holding'
    <3>1. UNCHANGED worker BY <1>6 DEF InstallInserts
    <3> QED BY <1>0, <2>0, <2>b, <3>1 DEF TypeOK, Holding
  <2>4. FiniteTable' BY <1>0, <2>a, TableGrowsByOne DEF TypeOK
  <2> QED BY <2>1, <2>2, <2>3, <2>4 DEF Tables
<1>7. ASSUME NEW c \in Client, Enqueue(c)
      PROVE  Tables'
  <2>0. request[c].job \in Job BY <1>0, <1>7 DEF Enqueue, Holding, TypeOK
  <2>1. TypeOK' BY <1>0, <1>7, <2>0 DEF Enqueue, TypeOK
  <2>2. ForeignKey' /\ Holding' BY <1>0, <1>7 DEF Enqueue, TypeOK, ForeignKey, Holding
  <2>3. FiniteTable' BY <1>0, <1>7, TableGrowsByNone DEF Enqueue
  <2> QED BY <2>1, <2>2, <2>3 DEF Tables
<1>8. CASE Take
  <2>0. Head(queue) \in Job /\ Tail(queue) \in Seq(Job) BY <1>0, <1>8 DEF Take, TypeOK
  <2>1. TypeOK' BY <1>0, <1>8, <2>0 DEF Take, TypeOK
  <2>2. ForeignKey' /\ Holding' BY <1>0, <1>8, <2>0 DEF Take, TypeOK, ForeignKey, Holding
  <2>3. FiniteTable' BY <1>0, <1>8, TableGrowsByNone DEF Take
  <2> QED BY <2>1, <2>2, <2>3 DEF Tables
<1>9. CASE Load
  <2>0. worker.job \in Job BY <1>0, <1>9 DEF Load, Holding, TypeOK
  <2>1. job[worker.job].state \notin {"absent", "completed"} =>
          installation[job[worker.job].server] \in State
    BY <1>0, <2>0 DEF TypeOK, ForeignKey
  <2>a. \/ worker' = Idle
        \/ /\ worker' = [pc |-> "begin", job |-> worker.job,
                          seen |-> installation[job[worker.job].server]]
           /\ job[worker.job].state \notin {"absent", "completed"}
    BY <1>0, <1>9, WorkerAfterLoad
  <2>2. TypeOK' BY <1>0, <1>9, <2>0, <2>1, <2>a DEF Load, TypeOK
  <2>3. ForeignKey' /\ Holding' BY <1>0, <1>9, <2>0, <2>a DEF Load, TypeOK, ForeignKey, Holding
  <2>4. FiniteTable' BY <1>0, <1>9, TableGrowsByNone DEF Load
  <2> QED BY <2>2, <2>3, <2>4 DEF Tables
<1>10. ASSUME NEW state \in {"installing", "completed", "failed"}, NEW next, worker.pc # "waiting",
              \/ next = Idle
              \/ next = [worker EXCEPT !.pc = "prepare", !.seen = "installing"],
              Write(state, next), UNCHANGED <<queue, request, restarts>>
       PROVE  Tables'
  <2>0. worker.job \in Job BY <1>0, <1>10 DEF Holding, TypeOK
  <2>a. worker' \in {Idle, [pc |-> "dead", job |-> worker.job, seen |-> worker.seen],
                     [pc |-> "prepare", job |-> worker.job, seen |-> "installing"]}
    BY <1>0, <1>10, WorkerAfterWrite
  <2>1. TypeOK'
    <3>1. worker' \in [pc : {"waiting", "load", "begin", "prepare", "dead"}, job : Job \cup {NoJob}, seen : State]
      BY <1>0, <2>a DEF TypeOK
    <3>2. installation' \in [Server -> State \cup {"absent"}]
      BY <1>0, <1>10 DEF Write, TypeOK
    <3>3. job' \in [Job -> [server : Server, state : State \ {"none"}] \cup {NoRow}]
      <4>1. CASE job[worker.job] = NoRow
        BY <1>0, <1>10, <4>1 DEF Write, TypeOK
      <4>2. CASE job[worker.job] # NoRow
        <5>1. [job[worker.job] EXCEPT !.state = state] \in [server : Server, state : State \ {"none"}]
          BY <1>0, <2>0, <4>2 DEF TypeOK
        <5>2. job' = [job EXCEPT ![worker.job] = [job[worker.job] EXCEPT !.state = state]]
          BY <1>10, <4>2 DEF Write
        <5> QED BY <1>0, <2>0, <5>1, <5>2 DEF TypeOK
      <4> QED BY <4>1, <4>2
    <3> QED BY <1>0, <1>10, <3>1, <3>2, <3>3 DEF TypeOK
  <2>2. ForeignKey' BY <1>0, <1>10, <2>0 DEF Write, TypeOK, ForeignKey
  <2>3. Holding' BY <1>0, <1>10, <2>0, <2>a DEF TypeOK, Holding
  <2>4. FiniteTable' BY <1>0, <1>10, <2>0, TableGrowsByNone DEF Write, TypeOK
  <2> QED BY <2>1, <2>2, <2>3, <2>4 DEF Tables
<1>11. CASE Begin BY <1>10, <1>11 DEF Begin
<1>12. CASE Prepare BY <1>10, <1>12 DEF Prepare
<1>13. CASE PanelRestarts
  <2>0. ActiveJobs \subseteq Job BY DEF ActiveJobs
  <2>1. queue' \in Seq(Job)
    BY <1>0, <1>13, <2>0, ActiveJobsFinite, EachOnce DEF PanelRestarts
  <2>2. job' \in [Job -> [server : Server, state : State \ {"none"}] \cup {NoRow}]
    BY <1>0, <1>13 DEF PanelRestarts, Restart, ActiveJobs, TypeOK
  <2>3. TypeOK' BY <1>0, <1>13, <2>1, <2>2 DEF PanelRestarts, Restart, TypeOK
  <2>4. ForeignKey' BY <1>0, <1>13 DEF PanelRestarts, Restart, ActiveJobs, TypeOK, ForeignKey
  <2>5. Holding' BY <1>13 DEF PanelRestarts, Restart, Holding
  <2>6. FiniteTable'
    BY <1>0, <1>13, TableGrowsByNone DEF PanelRestarts, Restart, ActiveJobs
  <2> QED BY <2>3, <2>4, <2>5, <2>6 DEF Tables
<1> QED BY <1>1, <1>2, <1>3, <1>4, <1>5, <1>6, <1>7, <1>8, <1>9, <1>11, <1>12, <1>13
        DEF Next, RequestStep, WorkerStep

-----------------------------------------------------------------------------
(* Every active job is in one place *)

\* Taking the head of the queue, position by position.
LEMMA TailPositions ==
  ASSUME NEW q \in Seq(Job), q # <<>>
  PROVE  /\ \A i \in DOMAIN Tail(q) : i + 1 \in DOMAIN q /\ Tail(q)[i] = q[i + 1]
         /\ 1 \in DOMAIN q /\ Head(q) = q[1]
         /\ \A i \in DOMAIN q : i = 1 \/ (i - 1 \in DOMAIN Tail(q) /\ Tail(q)[i - 1] = q[i])
         /\ DOMAIN q \subseteq Nat
<1>1. Len(q) \in Nat /\ Len(q) > 0 /\ DOMAIN q = 1..Len(q)
  BY EmptySeq, LenProperties
<1>2. Len(Tail(q)) = Len(q) - 1 /\ DOMAIN Tail(q) = 1..(Len(q) - 1)
      /\ \A i \in 1..(Len(q) - 1) : Tail(q)[i] = q[i + 1]
  BY HeadTailProperties
<1> QED BY <1>1, <1>2

\* Appending to it.
LEMMA AppendPositions ==
  ASSUME NEW q \in Seq(Job), NEW j \in Job
  PROVE  \E n : /\ n \notin DOMAIN q /\ DOMAIN Append(q, j) = DOMAIN q \cup {n}
               /\ \A i \in DOMAIN q : Append(q, j)[i] = q[i]
               /\ Append(q, j)[n] = j
<1>1. Len(q) \in Nat /\ DOMAIN q = 1..Len(q)
  BY LenProperties
<1>2. /\ Len(q) + 1 \notin DOMAIN q
      /\ DOMAIN Append(q, j) = DOMAIN q \cup {Len(q) + 1}
      /\ \A i \in DOMAIN q : Append(q, j)[i] = q[i]
      /\ Append(q, j)[Len(q) + 1] = j
  BY <1>1, AppendProperties
<1> QED BY <1>2

\* No step forgets an active job: a handler and the worker let go of one only
\* into the queue or when it has ended, and a restart queues them all.
LEMMA NoneForgotten ==
  ASSUME Tables, Forgotten = {}, Next
  PROVE  Forgotten' = {}
<1> USE SentinelAssumption DEF NoRow, NoRequest, Idle, Active
<1>0. TypeOK /\ FiniteTable /\ Holding
  BY DEF Tables
<1>a. \A j \in Job : job[j].state \in Active => Scheduled(j)
  BY DEF Forgotten, ActiveJobs
<1> SUFFICES ASSUME NEW k \in Job, job'[k].state \in Active
             PROVE  Scheduled(k)'
  BY DEF Forgotten, ActiveJobs
<1>b. \A c \in Client : request[c].job = k => request[c].pc = "enqueue"
  BY <1>0 DEF Holding
<1>c. worker.job = k => worker.pc # "waiting"
  BY <1>0 DEF Holding
<1> USE DEF Scheduled, InHand
<1>1. ASSUME NEW s \in Server, CreateServer(s)
      PROVE  Scheduled(k)'
  BY <1>a, <1>1 DEF CreateServer
<1>2. ASSUME NEW s \in Server, DeleteServer(s)
      PROVE  Scheduled(k)'
  BY <1>a, <1>2 DEF DeleteServer
<1>3. ASSUME NEW c \in Client, NEW s \in Server, InstallBegins(c, s)
      PROVE  Scheduled(k)'
  BY <1>0, <1>a, <1>b, <1>3 DEF InstallBegins, TypeOK
<1>4. ASSUME NEW c \in Client, NEW s \in Server, NEW j \in Job, CreateAndInstall(c, s, j)
      PROVE  Scheduled(k)'
  BY <1>0, <1>a, <1>b, <1>4 DEF CreateAndInstall, TypeOK
<1>5. ASSUME NEW c \in Client, InstallLooks(c)
      PROVE  Scheduled(k)'
  BY <1>0, <1>a, <1>b, <1>5 DEF InstallLooks, TypeOK
<1>6. ASSUME NEW c \in Client, NEW j \in Job, InstallInserts(c, j)
      PROVE  Scheduled(k)'
  <2>1. k = j \/ job[k].state \in Active
    BY <1>0, <1>6 DEF InstallInserts, TypeOK
  <2>2. request'[c].job = j \/ (job' = job /\ request' = [request EXCEPT ![c] = NoRequest])
    BY <1>0, <1>6 DEF InstallInserts, TypeOK
  <2>3. \A d \in Client : d # c => request'[d] = request[d]
    BY <1>0, <1>6 DEF InstallInserts, TypeOK
  <2>4. UNCHANGED <<queue, worker>> /\ request[c].job # k
    BY <1>0, <1>b, <1>6 DEF InstallInserts
  <2>5. CASE k = j
    BY <1>a, <2>2, <2>3, <2>4, <2>5
  <2>6. CASE k # j
    BY <1>a, <2>1, <2>3, <2>4, <2>6
  <2> QED BY <2>5, <2>6
<1>7. ASSUME NEW c \in Client, Enqueue(c)
      PROVE  Scheduled(k)'
  <2>1. request[c].job \in Job /\ queue \in Seq(Job)
    BY <1>0, <1>7 DEF Enqueue, Holding, TypeOK
  <2>2. CASE request[c].job = k
    BY <1>7, <2>1, <2>2, AppendPositions DEF Enqueue
  <2>3. CASE request[c].job # k
    <3>1. Scheduled(k) BY <1>a, <1>7 DEF Enqueue
    <3>2. InHand(k) => InHand(k)' BY <1>0, <1>7, <2>3 DEF Enqueue, TypeOK
    <3>3. ASSUME NEW i \in DOMAIN queue, queue[i] = k
          PROVE  i \in DOMAIN queue' /\ queue'[i] = k
      BY <1>7, <2>1, <3>3, AppendPositions DEF Enqueue
    <3> QED BY <3>1, <3>2, <3>3
  <2> QED BY <2>2, <2>3
<1>8. CASE Take
  <2>1. queue \in Seq(Job) /\ queue # <<>> BY <1>0, <1>8 DEF Take, TypeOK
  <2>2. Scheduled(k) BY <1>a, <1>8 DEF Take
  <2>3. InHand(k) => InHand(k)' BY <1>8, <1>c DEF Take
  <2>4. ASSUME NEW i \in DOMAIN queue, queue[i] = k
        PROVE  worker'.job = k \/ \E n \in DOMAIN queue' : queue'[n] = k
    BY <1>8, <2>1, <2>4, TailPositions DEF Take
  <2> QED BY <2>2, <2>3, <2>4
<1>9. CASE Load
  BY <1>0, <1>a, <1>9 DEF Load, TypeOK
<1>10. ASSUME NEW state \in {"installing", "completed", "failed"}, NEW next, worker.pc # "waiting",
              \/ next = Idle /\ state # "installing"
              \/ next = [worker EXCEPT !.pc = "prepare", !.seen = "installing"],
              Write(state, next), UNCHANGED <<queue, request, restarts>>
       PROVE  Scheduled(k)'
  <2>0. worker.job \in Job BY <1>0, <1>10 DEF Holding, TypeOK
  <2>1. job[k].state \in Active \/ k = worker.job
    BY <1>0, <1>10, <2>0 DEF Write, TypeOK
  <2>2. worker' = Idle => job'[worker.job].state \notin Active
    <3>1. CASE job[worker.job] = NoRow
      BY <1>0, <1>10, <3>1, WorkerAfterWrite
    <3>2. CASE next # Idle
      BY <1>0, <1>10, <3>2, WorkerAfterWrite
    <3>3. CASE job[worker.job] # NoRow /\ next = Idle
      <4>1. [worker EXCEPT !.pc = "prepare", !.seen = "installing"].pc = "prepare"
        BY <1>0 DEF TypeOK
      <4>2. state # "installing"
        BY <1>10, <3>3, <4>1
      <4>3. job'[worker.job].state = state
        BY <1>0, <1>10, <2>0, <3>3 DEF Write, TypeOK
      <4> QED BY <4>2, <4>3
    <3> QED BY <3>1, <3>2, <3>3
  <2>3. worker' = Idle \/ worker'.job = worker.job
    BY <1>0, <1>10, WorkerAfterWrite
  <2> QED BY <1>a, <1>10, <2>0, <2>1, <2>2, <2>3
<1>11. CASE Begin BY <1>10, <1>11 DEF Begin
<1>12. CASE Prepare BY <1>10, <1>12 DEF Prepare
<1>13. CASE PanelRestarts
  <2>1. k \in ActiveJobs BY <1>0, <1>13 DEF PanelRestarts, Restart, ActiveJobs, TypeOK
  <2> QED BY <1>0, <1>13, <2>1, ActiveJobsFinite, EachOnce DEF PanelRestarts
<1> QED BY <1>1, <1>2, <1>3, <1>4, <1>5, <1>6, <1>7, <1>8, <1>9, <1>11, <1>12, <1>13
        DEF Next, RequestStep, WorkerStep

Places == Once /\ Apart

\* No step puts a job in a second place.
LEMMA PlacesKept ==
  ASSUME Tables, Places, Next
  PROVE  Places'
<1> USE SentinelAssumption DEF NoRequest, Idle
<1>0. TypeOK /\ FiniteTable /\ Holding
  BY DEF Tables
<1>a. /\ \A i, k \in DOMAIN queue : queue[i] = queue[k] => i = k
      /\ \A i \in DOMAIN queue : ~InHand(queue[i])
      /\ \A c, d \in Client : request[c].job = request[d].job /\ c # d => request[c].job = NoJob
      /\ \A c \in Client : request[c].job = worker.job => worker.job = NoJob
  BY DEF Places, Once, Apart
<1>b. \A i \in DOMAIN queue : queue[i] \in Job /\ queue[i] # NoJob
  BY <1>0, ElementOfSeq, LenProperties DEF TypeOK
<1> USE DEF InHand, Once, Apart, Places
<1>1. CASE UNCHANGED <<queue, worker, request>>
  BY <1>1
\* A handler that lets go of its job, or had none.
<1>2. ASSUME NEW c \in Client, UNCHANGED <<queue, worker>>,
             \A d \in Client : d # c => request'[d] = request[d],
             request'[c].job = NoJob
      PROVE  Places'
  BY <1>a, <1>b, <1>2
\* A handler that takes up a fresh one.
<1>3. ASSUME NEW c \in Client, NEW j \in Job, Fresh(j), UNCHANGED <<queue, worker>>,
             \A d \in Client : d # c => request'[d] = request[d],
             request'[c].job = j
      PROVE  Places'
  BY <1>a, <1>3 DEF Fresh, Scheduled
\* The worker lets go of its job or keeps it.
<1>4. ASSUME UNCHANGED <<queue, request>>, worker'.job = NoJob \/ worker'.job = worker.job
      PROVE  Places'
  BY <1>a, <1>b, <1>4
<1>5. ASSUME NEW s \in Server, CreateServer(s) \/ DeleteServer(s)
      PROVE  Places'
  BY <1>1, <1>5 DEF CreateServer, DeleteServer
<1>6. ASSUME NEW c \in Client, NEW s \in Server, InstallBegins(c, s)
      PROVE  Places'
  BY <1>0, <1>2, <1>6 DEF InstallBegins, TypeOK
<1>7. ASSUME NEW c \in Client, NEW s \in Server, NEW j \in Job, CreateAndInstall(c, s, j)
      PROVE  Places'
  BY <1>0, <1>3, <1>7 DEF CreateAndInstall, TypeOK
<1>8. ASSUME NEW c \in Client, InstallLooks(c)
      PROVE  Places'
  BY <1>0, <1>2, <1>8 DEF InstallLooks, TypeOK, Holding
<1>9. ASSUME NEW c \in Client, NEW j \in Job, InstallInserts(c, j)
      PROVE  Places'
  BY <1>0, <1>2, <1>3, <1>9 DEF InstallInserts, TypeOK
<1>10. ASSUME NEW c \in Client, Enqueue(c)
       PROVE  Places'
  <2>1. request[c].job \in Job /\ queue \in Seq(Job)
    BY <1>0, <1>10 DEF Enqueue, Holding, TypeOK
  <2>2. \A d \in Client : request'[d] = IF d = c THEN NoRequest ELSE request[d]
    BY <1>0, <1>10 DEF Enqueue, TypeOK
  <2>3. \A i \in DOMAIN queue : queue[i] # request[c].job
    BY <1>a
  <2>4. PICK n : /\ n \notin DOMAIN queue /\ DOMAIN queue' = DOMAIN queue \cup {n}
                 /\ \A i \in DOMAIN queue : queue'[i] = queue[i]
                 /\ queue'[n] = request[c].job
    BY <1>10, <2>1, AppendPositions DEF Enqueue
  <2>5. UNCHANGED worker
    BY <1>10 DEF Enqueue
  <2>6. \A i, k \in DOMAIN queue' : queue'[i] = queue'[k] => i = k
    BY <1>a, <2>3, <2>4
  <2>7. (\A i \in DOMAIN queue : ~InHand(queue[i]))'
    BY <1>a, <1>b, <2>1, <2>2, <2>4, <2>5
  <2>8. (\A d, e \in Client : request[d].job = request[e].job /\ d # e => request[d].job = NoJob)' /\ Apart'
    BY <1>a, <2>2, <2>5
  <2> QED BY <2>6, <2>7, <2>8
<1>11. CASE Take
  <2>1. queue \in Seq(Job) /\ queue # <<>> BY <1>0, <1>11 DEF Take, TypeOK
  <2>2. UNCHANGED request /\ worker'.job = queue[1] /\ queue' = Tail(queue)
    BY <1>11, <2>1, TailPositions DEF Take
  <2>3. \A i \in DOMAIN queue' : i + 1 \in DOMAIN queue /\ queue'[i] = queue[i + 1] /\ i + 1 # 1
        /\ i \in Nat /\ 1 \in DOMAIN queue
    <3>1. \A i \in DOMAIN Tail(queue) : i \in Nat /\ i # 0
      BY <2>1, HeadTailProperties, LenProperties
    <3> QED BY <2>1, <2>2, <3>1, TailPositions
  <2>4. \A i, k \in DOMAIN queue' : queue'[i] = queue'[k] => i = k
    BY <1>a, <2>3
  <2>5. (\A i \in DOMAIN queue : ~InHand(queue[i]))'
    BY <1>a, <2>2, <2>3
  <2>6. Apart'
    BY <1>a, <1>b, <2>1, <2>2, TailPositions
  <2>7. (\A c, d \in Client : request[c].job = request[d].job /\ c # d => request[c].job = NoJob)'
    BY <1>a, <2>2
  <2> QED BY <2>4, <2>5, <2>6, <2>7
<1>12. CASE Load
  <2>1. UNCHANGED <<queue, request>> BY <1>12 DEF Load
  <2>2. worker'.job = NoJob \/ worker'.job = worker.job BY <1>0, <1>12, WorkerAfterLoad
  <2> QED BY <1>4, <2>1, <2>2
<1>13. CASE Begin
  BY <1>0, <1>4, <1>13, WorkerAfterWrite DEF Begin
<1>14. CASE Prepare
  BY <1>0, <1>4, <1>14, WorkerAfterWrite DEF Prepare
<1>15. CASE PanelRestarts
  <2>1. \A i, k \in DOMAIN queue' : queue'[i] = queue'[k] => i = k
    BY <1>0, <1>15, ActiveJobsFinite, EachOnce DEF PanelRestarts
  <2>2. \A i \in DOMAIN queue' : queue'[i] \in Job
    <3>1. queue' \in Seq(Job) BY TablesKept DEF Tables, TypeOK
    <3> QED BY <3>1, ElementOfSeq, LenProperties
  <2>3. worker'.job = NoJob /\ \A c \in Client : request'[c].job = NoJob
    BY <1>15 DEF PanelRestarts, Restart
  <2> QED BY <2>1, <2>2, <2>3
<1> QED BY <1>5, <1>6, <1>7, <1>8, <1>9, <1>10, <1>11, <1>12, <1>13, <1>14, <1>15
        DEF Next, RequestStep, WorkerStep

-----------------------------------------------------------------------------
(* Jobs begin and end in turn, and servers are queued with a job *)

\* Only the worker moves a job on, and only the one it holds.
LEMMA TurnKept ==
  ASSUME Tables, Places, InTurn, Next
  PROVE  InTurn'
<1> USE SentinelAssumption DEF NoRow, NoRequest, Idle, Active
<1>0. TypeOK /\ FiniteTable /\ Holding
  BY DEF Tables
<1>a. \A i \in DOMAIN queue : queue[i] \in Job /\ queue[i] # NoJob /\ queue[i] # worker.job
  BY <1>0, ElementOfSeq, LenProperties DEF TypeOK, Places, Once, InHand
<1>b. \A c \in Client : request[c].job # NoJob => request[c].job \in Job /\ request[c].job # worker.job
  BY <1>0 DEF Places, Apart, TypeOK
<1>c. worker.pc # "waiting" => worker.job \in Job
  BY <1>0 DEF Holding, TypeOK
<1>d. /\ \A i \in DOMAIN queue : Waiting(queue[i])
      /\ \A c \in Client : request[c].job # NoJob => Waiting(request[c].job)
      /\ worker.pc \in {"load", "begin"} => Waiting(worker.job)
      /\ worker.pc = "prepare" => /\ job[worker.job].state \in {"installing", "absent"}
                                  /\ worker.seen = "installing"
  BY DEF InTurn
<1> USE DEF InTurn, Waiting
\* Handlers change a job to queued or absent at most, and take up those only.
<1>1. ASSUME UNCHANGED <<queue, worker>>,
             \A j \in Job : job'[j] = job[j] \/ job'[j].state = "absent" \/ (job'[j].state = "queued" /\ Fresh(j)),
             \A c \in Client : request'[c].job \in {request[c].job, NoJob}
                              \/ (request'[c].job \in Job /\ Waiting(request[c].job)')
      PROVE  InTurn'
  <2>1. \A j \in Job : Waiting(j) => Waiting(j)'
    BY <1>1
  <2>2. \A i \in DOMAIN queue' : Waiting(queue[i])'
    BY <1>a, <1>d, <1>1, <2>1
  <2>3. \A c \in Client : request'[c].job # NoJob => Waiting(request[c].job)'
    BY <1>b, <1>d, <1>1, <2>1
  <2>4. worker'.pc \in {"load", "begin"} => Waiting(worker.job)'
    BY <1>c, <1>d, <1>1, <2>1
  <2>5. worker.pc # "waiting" => ~Fresh(worker.job)
    BY DEF Fresh, Scheduled, InHand
  <2>6. worker'.pc = "prepare" => job'[worker'.job].state \in {"installing", "absent"} /\ worker'.seen = "installing"
    BY <1>c, <1>d, <1>1, <2>5
  <2> QED BY <2>2, <2>3, <2>4, <2>6
<1>2. ASSUME NEW s \in Server, CreateServer(s)
      PROVE  InTurn'
  BY <1>1, <1>2 DEF CreateServer
<1>3. ASSUME NEW s \in Server, DeleteServer(s)
      PROVE  InTurn'
  BY <1>1, <1>3 DEF DeleteServer
<1>4. ASSUME NEW c \in Client, NEW s \in Server, InstallBegins(c, s)
      PROVE  InTurn'
  BY <1>0, <1>1, <1>4 DEF InstallBegins, TypeOK
<1>5. ASSUME NEW c \in Client, NEW s \in Server, NEW j \in Job, CreateAndInstall(c, s, j)
      PROVE  InTurn'
  <2>1. job'[j].state = "queued" /\ \A k \in Job : k # j => job'[k] = job[k]
    BY <1>0, <1>5 DEF CreateAndInstall, TypeOK
  <2>2. request'[c].job = j /\ \A d \in Client : d # c => request'[d] = request[d]
    BY <1>0, <1>5 DEF CreateAndInstall, TypeOK
  <2>3. Fresh(j) /\ UNCHANGED <<queue, worker>>
    BY <1>5 DEF CreateAndInstall
  <2> QED BY <1>1, <2>1, <2>2, <2>3
<1>6. ASSUME NEW c \in Client, InstallLooks(c)
      PROVE  InTurn'
  BY <1>0, <1>1, <1>6 DEF InstallLooks, TypeOK
<1>7. ASSUME NEW c \in Client, NEW j \in Job, InstallInserts(c, j)
      PROVE  InTurn'
  <2>1. Fresh(j) /\ UNCHANGED <<queue, worker>> /\ \A d \in Client : d # c => request'[d] = request[d]
    BY <1>0, <1>7 DEF InstallInserts, TypeOK
  <2>2. CASE installation[request[c].server] = "absent"
    <3>1. request'[c] = NoRequest /\ job' = job
      BY <1>0, <1>7, <2>2 DEF InstallInserts, TypeOK
    <3> QED BY <1>1, <2>1, <3>1
  <2>3. CASE installation[request[c].server] # "absent"
    <3>1. job'[j].state = "queued" /\ \A k \in Job : k # j => job'[k] = job[k]
      BY <1>0, <1>7, <2>3 DEF InstallInserts, TypeOK
    <3>2. request'[c].job = j
      BY <1>0, <1>7, <2>3 DEF InstallInserts, TypeOK
    <3> QED BY <1>1, <2>1, <3>1, <3>2
  <2> QED BY <2>2, <2>3
<1>8. ASSUME NEW c \in Client, Enqueue(c)
      PROVE  InTurn'
  <2>1. request[c].job \in Job /\ queue \in Seq(Job) /\ Waiting(request[c].job)
    BY <1>0, <1>d, <1>8 DEF Enqueue, Holding, TypeOK
  <2>2. \A i \in DOMAIN queue' : \/ i \in DOMAIN queue /\ queue'[i] = queue[i]
                                \/ queue'[i] = request[c].job
    BY <1>8, <2>1, AppendPositions DEF Enqueue
  <2>3. \A d \in Client : request'[d] = IF d = c THEN NoRequest ELSE request[d]
    BY <1>0, <1>8 DEF Enqueue, TypeOK
  <2>4. UNCHANGED <<job, worker>> BY <1>8 DEF Enqueue
  <2> QED BY <1>d, <2>1, <2>2, <2>3, <2>4
<1>9. CASE Take
  <2>1. queue \in Seq(Job) /\ queue # <<>> BY <1>0, <1>9 DEF Take, TypeOK
  <2>2. worker' = [pc |-> "load", job |-> queue[1], seen |-> "none"] /\ queue' = Tail(queue)
    BY <1>9, <2>1, TailPositions DEF Take
  <2>3. 1 \in DOMAIN queue /\ \A i \in DOMAIN queue' : i + 1 \in DOMAIN queue /\ queue'[i] = queue[i + 1]
    BY <2>1, <2>2, TailPositions
  <2>4. UNCHANGED <<job, request>> BY <1>9 DEF Take
  <2> QED BY <1>d, <2>2, <2>3, <2>4
<1>10. CASE Load
  <2>1. UNCHANGED <<job, queue, request>> BY <1>10 DEF Load
  <2>2. worker.pc = "load" BY <1>10 DEF Load
  <2> QED BY <1>0, <1>d, <1>10, <2>1, <2>2, WorkerAfterLoad
<1>11. ASSUME NEW state, NEW next, worker.pc # "waiting", UNCHANGED <<queue, request>>,
              Write(state, next),
              \/ next = Idle
              \/ state = "installing" /\ next = [worker EXCEPT !.pc = "prepare", !.seen = "installing"]
       PROVE  InTurn'
  <2>1. \A j \in Job : j # worker.job => job'[j] = job[j]
    BY <1>0, <1>c, <1>11 DEF Write, TypeOK
  <2>2. /\ \A i \in DOMAIN queue' : Waiting(queue[i])'
        /\ \A c \in Client : request'[c].job # NoJob => Waiting(request[c].job)'
    BY <1>a, <1>b, <1>d, <1>11, <2>1
  <2>3. worker'.pc \notin {"load", "begin"}
    BY <1>0, <1>11, WorkerAfterWrite
  <2>4. ASSUME worker'.pc = "prepare"
        PROVE  job'[worker'.job].state = "installing" /\ worker'.seen = "installing"
    <3>1. job[worker.job] # NoRow /\ next # Idle /\ worker'.job = worker.job /\ worker'.seen = "installing"
      BY <1>0, <1>11, <2>4, WorkerAfterWrite
    <3>2. job'[worker.job].state = "installing"
      BY <1>0, <1>c, <1>11, <3>1 DEF Write, TypeOK
    <3> QED BY <3>1, <3>2
  <2> QED BY <2>2, <2>3, <2>4
<1>12. CASE Begin BY <1>11, <1>12 DEF Begin
<1>13. CASE Prepare BY <1>11, <1>13 DEF Prepare
<1>14. CASE PanelRestarts
  <2>1. queue' \in Seq(ActiveJobs)
    BY <1>0, <1>14, ActiveJobsFinite, EachOnce DEF PanelRestarts
  <2>2. \A i \in DOMAIN queue' : queue'[i] \in ActiveJobs
    BY <2>1, ElementOfSeq, LenProperties
  <2>3. \A j \in ActiveJobs : job'[j].state = "queued"
    BY <1>0, <1>14 DEF PanelRestarts, Restart, ActiveJobs, TypeOK
  <2> QED BY <1>14, <2>2, <2>3 DEF PanelRestarts, Restart
<1> QED BY <1>2, <1>3, <1>4, <1>5, <1>6, <1>7, <1>8, <1>9, <1>10, <1>12, <1>13, <1>14
        DEF Next, RequestStep, WorkerStep

Covered == \A s \in Server : installation[s] \in Active => JobsOf(s) \cap ActiveJobs # {}

\* No server says queued or installing without a job that is.
LEMMA CoveredKept ==
  ASSUME Tables, InTurn, Covered, Next
  PROVE  Covered'
<1> USE SentinelAssumption DEF NoRow, NoRequest, Idle, Active, Covered
<1>0. TypeOK /\ FiniteTable /\ Holding /\ ForeignKey
  BY DEF Tables
<1> SUFFICES ASSUME NEW t \in Server, installation'[t] \in Active
             PROVE  \E j \in Job : job'[j].server = t /\ job'[j].state \in Active
  BY DEF JobsOf, ActiveJobs
<1>a. installation[t] \in Active => \E j \in Job : job[j].server = t /\ job[j].state \in Active
  BY DEF JobsOf, ActiveJobs
<1>1. CASE UNCHANGED <<installation, job>>
  BY <1>a, <1>1
<1>2. ASSUME NEW s \in Server, CreateServer(s) \/ DeleteServer(s)
      PROVE  \E j \in Job : job'[j].server = t /\ job'[j].state \in Active
  <2>1. t # s BY <1>0, <1>2 DEF CreateServer, DeleteServer, TypeOK
  <2>2. installation'[t] = installation[t] BY <1>0, <1>2, <2>1 DEF CreateServer, DeleteServer, TypeOK
  <2>3. \A j \in Job : job[j].server = t => job'[j] = job[j]
    BY <1>2, <2>1 DEF CreateServer, DeleteServer, JobsOf
  <2> QED BY <1>a, <2>2, <2>3
\* A job inserted for a server.
<1>3. ASSUME NEW s \in Server, NEW j \in Job, Fresh(j),
             job' = [job EXCEPT ![j] = [server |-> s, state |-> "queued"]],
             \A r \in Server : r # s => installation'[r] = installation[r]
      PROVE  \E k \in Job : job'[k].server = t /\ job'[k].state \in Active
  <2>1. job'[j] = [server |-> s, state |-> "queued"] BY <1>0, <1>3 DEF TypeOK
  <2>2. \A k \in Job : job[k].state \in Active => job'[k] = job[k]
    BY <1>0, <1>3 DEF TypeOK, Fresh
  <2> QED BY <1>a, <1>3, <2>1, <2>2
<1>4. ASSUME NEW c \in Client, NEW s \in Server, NEW j \in Job, CreateAndInstall(c, s, j)
      PROVE  \E k \in Job : job'[k].server = t /\ job'[k].state \in Active
  BY <1>0, <1>3, <1>4 DEF CreateAndInstall, TypeOK
<1>5. ASSUME NEW c \in Client, NEW j \in Job, InstallInserts(c, j)
      PROVE  \E k \in Job : job'[k].server = t /\ job'[k].state \in Active
  <2>1. request[c].server \in Server /\ Fresh(j) BY <1>0, <1>5 DEF InstallInserts, Holding
  <2>2. CASE installation[request[c].server] = "absent"
    BY <1>1, <1>5, <2>2 DEF InstallInserts
  <2>3. CASE installation[request[c].server] # "absent"
    <3>1. job' = [job EXCEPT ![j] = [server |-> request[c].server, state |-> "queued"]]
      BY <1>5, <2>3 DEF InstallInserts
    <3>2. \A r \in Server : r # request[c].server => installation'[r] = installation[r]
      BY <1>0, <1>5, <2>3 DEF InstallInserts, TypeOK
    <3> QED BY <1>3, <2>1, <3>1, <3>2
  <2> QED BY <2>2, <2>3
<1>6. ASSUME NEW state \in {"installing", "completed", "failed"}, NEW next,
             Write(state, next), worker.pc # "waiting",
             state = "installing" \/ worker.seen # state
      PROVE  \E k \in Job : job'[k].server = t /\ job'[k].state \in Active
  <2>0. worker.job \in Job BY <1>0, <1>6 DEF Holding, TypeOK
  <2>1. CASE job[worker.job] = NoRow BY <1>1, <1>6, <2>1 DEF Write
  <2>2. CASE job[worker.job] # NoRow
    <3> DEFINE s == job[worker.job].server
    <3>0. s \in Server BY <1>0, <2>0, <2>2 DEF TypeOK
    <3>1. job'[worker.job].server = s /\ job'[worker.job].state = state
      BY <1>0, <1>6, <2>0, <2>2 DEF Write, TypeOK
    <3>2. \A k \in Job : k # worker.job => job'[k] = job[k]
      BY <1>0, <1>6, <2>0, <2>2 DEF Write, TypeOK
    <3>3. CASE state = "installing"
      <4>1. \A r \in Server : r # s => installation'[r] = installation[r]
        BY <1>0, <1>6, <2>2 DEF Write, TypeOK
      <4> QED BY <1>a, <2>0, <3>1, <3>2, <3>3, <4>1
    <3>4. CASE state # "installing"
      <4>1. installation'[s] = state /\ \A r \in Server : r # s => installation'[r] = installation[r]
        BY <1>0, <1>6, <2>2, <3>0, <3>4 DEF Write, TypeOK
      <4>2. t # s BY <1>6, <3>4, <4>1
      <4> HIDE DEF s
      <4> QED BY <1>a, <2>0, <3>2, <4>1, <4>2 DEF s
    <3> QED BY <3>3, <3>4
  <2> QED BY <2>1, <2>2
<1>7. CASE Begin BY <1>6, <1>7 DEF Begin
<1>8. CASE Prepare
  <2>1. worker.seen = "installing" BY <1>8 DEF Prepare, InTurn
  <2> QED BY <1>6, <1>8, <2>1 DEF Prepare
<1>9. CASE PanelRestarts
  <2>1. \A j \in Job : job[j].state \in Active => job'[j].server = job[j].server /\ job'[j].state = "queued"
    BY <1>0, <1>9 DEF PanelRestarts, Restart, ActiveJobs, TypeOK
  <2>2. UNCHANGED installation BY <1>9 DEF PanelRestarts, Restart
  <2> QED BY <1>a, <2>1, <2>2
<1>10. CASE \E c \in Client, s \in Server : InstallBegins(c, s)
  BY <1>1, <1>10 DEF InstallBegins
<1>11. CASE \E c \in Client : InstallLooks(c) \/ Enqueue(c)
  BY <1>1, <1>11 DEF InstallLooks, Enqueue
<1>12. CASE Take \/ Load
  BY <1>1, <1>12 DEF Take, Load
<1> QED BY <1>2, <1>4, <1>5, <1>7, <1>8, <1>9, <1>10, <1>11, <1>12 DEF Next, RequestStep, WorkerStep

-----------------------------------------------------------------------------
(* The theorems *)

\* The inductive invariant holds in the initial state.
LEMMA Initially == Init => IInv
<1> SUFFICES ASSUME Init PROVE IInv
  OBVIOUS
<1> USE SentinelAssumption, RestartAssumption DEF Init, NoRow, NoRequest, State, Active
<1>1. TypeOK BY DEF TypeOK
<1>2. ForeignKey /\ Holding /\ Apart /\ InTurn BY DEF ForeignKey, Holding, Apart, InTurn
<1>3. FiniteTable
  <2>1. {j \in Job : job[j] # NoRow} = {} OBVIOUS
  <2> QED BY <2>1, FS_EmptySet DEF FiniteTable
<1>4. ActiveJobsScheduled
  BY DEF ActiveJobsScheduled, Forgotten, ActiveJobs, Once
<1> QED BY <1>1, <1>2, <1>3, <1>4 DEF IInv, Tables

\* Every step keeps it.
LEMMA Inductively == IInv /\ [Next]_vars => IInv'
<1> SUFFICES ASSUME IInv, [Next]_vars PROVE IInv'
  OBVIOUS
<1>0. Tables /\ Places /\ InTurn /\ Forgotten = {} /\ Covered
  BY DEF IInv, Places, ActiveJobsScheduled, Covered
<1>1. CASE Next
  <2>1. Tables' BY <1>0, <1>1, TablesKept
  <2>2. Places' BY <1>0, <1>1, PlacesKept
  <2>3. InTurn' BY <1>0, <1>1, TurnKept
  <2>4. Forgotten' = {} BY <1>0, <1>1, NoneForgotten
  <2>5. Covered' BY <1>0, <1>1, CoveredKept
  <2> QED BY <2>1, <2>2, <2>3, <2>4, <2>5 DEF IInv, Places, ActiveJobsScheduled, Covered
<1>2. CASE UNCHANGED vars
  BY <1>0, <1>2 DEF vars, IInv, Tables, TypeOK, ForeignKey, FiniteTable, Holding, Apart, Once, InTurn, Waiting,
     ActiveJobsScheduled, Forgotten, ActiveJobs, Scheduled, InHand, JobsOf
<1> QED BY <1>1, <1>2

\* Every variable has its type: the worker never loads a state that no row has.
THEOREM TypeCorrect == Spec => []TypeOK
<1>1. IInv => TypeOK BY DEF IInv, Tables
<1> QED BY <1>1, Initially, Inductively, PTL DEF Spec

\* No accepted job is forgotten and none is in two places, across every
\* interleaving of the handlers with the worker and every restart
\* (InstallationManager.enqueue, start, _worker, _run), and no server says
\* queued or installing without a job that is.
THEOREM Scheduling == Spec => []ActiveJobsScheduled
<1>1. IInv => ActiveJobsScheduled BY DEF IInv
<1> QED BY <1>1, Initially, Inductively, PTL DEF Spec

-----------------------------------------------------------------------------
(* The installation service implements the job board *)

\* What the board shows of a job.
Shown == [j \in Job |-> IF job[j].state \in Active THEN "accepted" ELSE job[j].state]

\* The board is empty at first.
LEMMA BoardInitially == Init => Board!Init
BY DEF Init, Board!Init, NoRow, Active

\* Every step is one of the board, or leaves it as it is: inserting a job
\* accepts it, the second commit of _run finishes it, the deletion of a server
\* withdraws its jobs, and nothing else shows.
LEMMA BoardStep == IInv /\ [Next]_vars => [Board!Next]_Shown
<1> SUFFICES ASSUME IInv, [Next]_vars PROVE [Board!Next]_Shown
  OBVIOUS
<1> USE DEF NoRow, Active
<1>0. TypeOK /\ InTurn /\ Holding /\ Places
  BY DEF IInv, Tables, Places, ActiveJobsScheduled
<1>a. \A j \in Job : Shown[j] = IF job[j].state \in Active THEN "accepted" ELSE job[j].state
  BY DEF Shown
<1>1. CASE UNCHANGED job
  BY <1>1 DEF Shown
<1>2. ASSUME NEW s \in Server, DeleteServer(s)
      PROVE  Board!Next
  <2>1. Shown' = [j \in Job |-> IF j \in JobsOf(s) THEN "absent" ELSE Shown[j]]
    BY <1>0, <1>2 DEF DeleteServer, Shown, TypeOK
  <2>2. JobsOf(s) \in SUBSET Job BY DEF JobsOf
  <2> QED BY <2>1, <2>2 DEF Board!Next, Board!Withdraw, Shown
\* A job inserted.
<1>3. ASSUME NEW s \in Server, NEW j \in Job, Fresh(j),
             job' = [job EXCEPT ![j] = [server |-> s, state |-> "queued"]]
      PROVE  Board!Next
  <2>1. Shown[j] = "absent" BY <1>3 DEF Fresh, Shown
  <2>2. Shown' = [Shown EXCEPT ![j] = "accepted"]
    BY <1>0, <1>3 DEF Shown, TypeOK
  <2> QED BY <2>1, <2>2 DEF Board!Next, Board!Accept, Shown
<1>4. ASSUME NEW c \in Client, NEW s \in Server, NEW j \in Job, CreateAndInstall(c, s, j)
      PROVE  Board!Next
  BY <1>3, <1>4 DEF CreateAndInstall
<1>5. ASSUME NEW c \in Client, NEW j \in Job, InstallInserts(c, j)
      PROVE  Board!Next \/ UNCHANGED Shown
  <2>1. request[c].server \in Server BY <1>0, <1>5 DEF InstallInserts, Holding
  <2> QED BY <1>1, <1>3, <1>5, <2>1 DEF InstallInserts
\* The worker writes a state for its job.
<1>6. ASSUME NEW state, NEW next, Write(state, next), worker.pc \in {"begin", "prepare"},
             job[worker.job] # NoRow
      PROVE  /\ worker.job \in Job /\ Shown[worker.job] = "accepted"
             /\ state \in Active => Shown' = Shown
             /\ state \notin Active => Shown' = [Shown EXCEPT ![worker.job] = state]
  <2>0. worker.job \in Job BY <1>0, <1>6 DEF Holding, TypeOK
  <2>1. job[worker.job].state \in Active
    <3>1. job[worker.job].state # "absent" BY <1>0, <1>6, <2>0, SentinelAssumption DEF TypeOK, State
    <3> QED BY <1>0, <1>6, <3>1 DEF InTurn, Waiting
  <2>2. job' = [job EXCEPT ![worker.job].state = state] BY <1>6 DEF Write
  <2>3. job'[worker.job].state = state /\ \A j \in Job : j # worker.job => job'[j] = job[j]
    BY <1>0, <2>0, <2>2, <1>6 DEF TypeOK
  <2> QED BY <2>0, <2>1, <2>3 DEF Shown
<1>7. ASSUME NEW state, NEW next, Write(state, next), job[worker.job] = NoRow
      PROVE  UNCHANGED Shown
  BY <1>7 DEF Write, Shown
<1>8. CASE Begin BY <1>6, <1>7, <1>8 DEF Begin
<1>9. CASE Prepare
  <2>1. PICK outcome \in {"completed", "failed"} : Write(outcome, Idle) BY <1>9 DEF Prepare
  <2>2. CASE job[worker.job] = NoRow BY <1>7, <2>1, <2>2
  <2>3. CASE job[worker.job] # NoRow
    <3>1. /\ worker.job \in Job /\ Shown[worker.job] = "accepted"
          /\ Shown' = [Shown EXCEPT ![worker.job] = outcome]
      BY <1>6, <1>9, <2>1, <2>3 DEF Prepare
    <3> QED BY <3>1 DEF Board!Next, Board!Finish, Shown
  <2> QED BY <2>2, <2>3
<1>10. CASE PanelRestarts
  BY <1>0, <1>10 DEF PanelRestarts, Restart, ActiveJobs, Shown, TypeOK
<1>11. CASE \E s \in Server : CreateServer(s) BY <1>1, <1>11 DEF CreateServer
<1>12. CASE \E c \in Client, s \in Server : InstallBegins(c, s) BY <1>1, <1>12 DEF InstallBegins
<1>13. CASE \E c \in Client : InstallLooks(c) \/ Enqueue(c) BY <1>1, <1>13 DEF InstallLooks, Enqueue
<1>14. CASE Take \/ Load BY <1>1, <1>14 DEF Take, Load
<1>15. CASE UNCHANGED vars BY <1>1, <1>15 DEF vars
<1> QED BY <1>2, <1>4, <1>5, <1>8, <1>9, <1>10, <1>11, <1>12, <1>13, <1>14, <1>15
        DEF Next, RequestStep, WorkerStep

\* What the installation service accepted finishes once and keeps its outcome,
\* also when the panel restarts between the two commits of _run.
THEOREM FinishOnce == Spec => JobsFinishOnce
BY BoardInitially, BoardStep, Initially, Inductively, PTL DEF Spec, JobsFinishOnce, Board!Spec, Shown
=============================================================================
