----------------------------- MODULE Installation -----------------------------
(***************************************************************************)
(* The installation of servers: the handlers that create installation jobs *)
(* (web.py create_server, api.py create_server and install_server), the    *)
(* queue and the worker of InstallationManager (install_service.py), the   *)
(* deletion of servers and restarts of the panel.                          *)
(*                                                                         *)
(* The queue lives in memory, the jobs in the database.  An element of Job *)
(* is the id of a row of installation_jobs; a handler picks a fresh one.   *)
(***************************************************************************)
EXTENDS Naturals, Sequences, SequencesExt, FiniteSets

CONSTANTS
  Server, Job,
  Client,        \* slots in which requests to install run
  NoJob, NoServer,
  MaxRestarts    \* bound: restarts of the panel
ASSUME SentinelAssumption == NoJob \notin Job /\ NoServer \notin Server
ASSUME RestartAssumption == MaxRestarts \in Nat

VARIABLES
  installation,  \* installation_state of each server's row, or "absent"
  job,           \* the rows of installation_jobs
  queue,         \* InstallationManager.queue
  worker,        \* the task installation-worker
  request,       \* the install requests in progress
  restarts

vars == <<installation, job, queue, worker, request, restarts>>

State == {"none", "queued", "installing", "completed", "failed"}
Active == {"queued", "installing"}

NoRow == [server |-> NoServer, state |-> "absent"]
NoRequest == [pc |-> "idle", server |-> NoServer, seen |-> "none", job |-> NoJob]

JobsOf(s) == {j \in Job : job[j].server = s}
ActiveJobs == {j \in Job : job[j].state \in Active}
InHand(j) ==
  \/ worker.job = j
  \/ \E c \in Client : request[c].job = j
Scheduled(j) == InHand(j) \/ \E i \in DOMAIN queue : queue[i] = j
Fresh(j) == job[j] = NoRow /\ ~Scheduled(j)

Init ==
  /\ installation = [s \in Server |-> "absent"]
  /\ job = [j \in Job |-> NoRow]
  /\ queue = <<>>
  /\ worker = [pc |-> "waiting", job |-> NoJob, seen |-> "none"]
  /\ request = [c \in Client |-> NoRequest]
  /\ restarts = 0
-----------------------------------------------------------------------------
(* Creating and deleting servers *)

\* create_server of the API: a server without a job.
CreateServer(s) ==
  /\ installation[s] = "absent"
  /\ installation' = [installation EXCEPT ![s] = "none"]
  /\ UNCHANGED <<job, queue, worker, request, restarts>>

\* create_server of the web interface commits server and job together; it
\* enqueues the job after the commit.
CreateAndInstall(c, s, j) ==
  /\ request[c].pc = "idle" /\ installation[s] = "absent" /\ Fresh(j)
  /\ installation' = [installation EXCEPT ![s] = "queued"]
  /\ job' = [job EXCEPT ![j] = [server |-> s, state |-> "queued"]]
  /\ request' = [request EXCEPT ![c] =
                   [pc |-> "enqueue", server |-> s, seen |-> "queued", job |-> j]]
  /\ UNCHANGED <<queue, worker, restarts>>

\* Jobs go with their server (cascade).
DeleteServer(s) ==
  /\ installation[s] # "absent"
  /\ installation' = [installation EXCEPT ![s] = "absent"]
  /\ job' = [j \in Job |-> IF j \in JobsOf(s) THEN NoRow ELSE job[j]]
  /\ UNCHANGED <<queue, worker, request, restarts>>
-----------------------------------------------------------------------------
(* install_server: load the server, look for an active job, insert, enqueue *)

\* require_server_access
InstallBegins(c, s) ==
  /\ request[c].pc = "idle" /\ installation[s] # "absent"
  /\ request' = [request EXCEPT ![c] =
                   [pc |-> "look", server |-> s, seen |-> installation[s], job |-> NoJob]]
  /\ UNCHANGED <<installation, job, queue, worker, restarts>>

\* An active job is returned as it is; an installed server is refused.
InstallLooks(c) ==
  /\ request[c].pc = "look"
  /\ request' = IF JobsOf(request[c].server) \cap ActiveJobs # {} \/ request[c].seen = "completed"
                THEN [request EXCEPT ![c] = NoRequest]
                ELSE [request EXCEPT ![c].pc = "insert"]
  /\ UNCHANGED <<installation, job, queue, worker, restarts>>

\* The commit writes installation_state only if the loaded value was another,
\* and fails with a foreign key error when the server is gone.
InstallInserts(c, j) ==
  /\ request[c].pc = "insert" /\ Fresh(j)
  /\ LET s == request[c].server IN
       IF installation[s] = "absent"
         THEN /\ request' = [request EXCEPT ![c] = NoRequest]
              /\ UNCHANGED <<installation, job>>
         ELSE /\ job' = [job EXCEPT ![j] = [server |-> s, state |-> "queued"]]
              /\ installation' = IF request[c].seen = "queued" THEN installation
                                 ELSE [installation EXCEPT ![s] = "queued"]
              /\ request' = [request EXCEPT ![c] =
                   [pc |-> "enqueue", server |-> s, seen |-> request[c].seen, job |-> j]]
  /\ UNCHANGED <<queue, worker, restarts>>

\* InstallationManager.enqueue
Enqueue(c) ==
  /\ request[c].pc = "enqueue"
  /\ queue' = Append(queue, request[c].job)
  /\ request' = [request EXCEPT ![c] = NoRequest]
  /\ UNCHANGED <<installation, job, worker, restarts>>
-----------------------------------------------------------------------------
(* InstallationManager._worker and _run *)

Idle == [pc |-> "waiting", job |-> NoJob, seen |-> "none"]

Take ==
  /\ worker.pc = "waiting" /\ queue # <<>>
  /\ worker' = [pc |-> "load", job |-> Head(queue), seen |-> "none"]
  /\ queue' = Tail(queue)
  /\ UNCHANGED <<installation, job, request, restarts>>

\* Mutant: a server that says installing is taken for one in other hands.
LoadOthersOnly ==
  /\ worker.pc = "load"
  /\ IF \/ job[worker.job].state \in {"absent", "completed"}
        \/ installation[job[worker.job].server] = "installing"
       THEN worker' = Idle
       ELSE worker' = [worker EXCEPT !.pc = "begin", !.seen = installation[job[worker.job].server]]
  /\ UNCHANGED <<installation, job, queue, request, restarts>>

\* A job that is gone or completed is dropped.
Load ==
  /\ worker.pc = "load"
  /\ IF job[worker.job].state \in {"absent", "completed"}
       THEN worker' = Idle
       ELSE worker' = [worker EXCEPT !.pc = "begin", !.seen = installation[job[worker.job].server]]
  /\ UNCHANGED <<installation, job, queue, request, restarts>>

\* Mutant: writing a deleted row creates it again.
WriteUpserts(state, next) ==
  /\ job' = [job EXCEPT ![worker.job].state = state]
  /\ installation' = [installation EXCEPT ![job[worker.job].server] = state]
  /\ worker' = next

\* Both rows get the new state in one commit, the server only if the loaded
\* value was another.  The UPDATE of a row that was deleted meanwhile raises
\* StaleDataError, which _run does not catch and which ends the worker.
Write(state, next) ==
  LET s == job[worker.job].server IN
    IF job[worker.job] = NoRow
      THEN worker' = [worker EXCEPT !.pc = "dead"] /\ UNCHANGED <<installation, job>>
      ELSE /\ job' = [job EXCEPT ![worker.job].state = state]
           /\ installation' = IF worker.seen = state THEN installation
                              ELSE [installation EXCEPT ![s] = state]
           /\ worker' = next

Begin ==
  /\ worker.pc = "begin"
  /\ Write("installing", [worker EXCEPT !.pc = "prepare", !.seen = "installing"])
  /\ UNCHANGED <<queue, request, restarts>>

\* The directory is made and the Java version chosen; either may fail.
Prepare ==
  /\ worker.pc = "prepare"
  /\ \E outcome \in {"completed", "failed"} : Write(outcome, Idle)
  /\ UNCHANGED <<queue, request, restarts>>
-----------------------------------------------------------------------------
\* The panel is back with an empty memory and these jobs to do.
Restart(jobs) ==
  /\ restarts < MaxRestarts
  /\ job' = [j \in Job |-> IF j \in jobs THEN [job[j] EXCEPT !.state = "queued"] ELSE job[j]]
  /\ worker' = Idle
  /\ request' = [c \in Client |-> NoRequest]
  /\ restarts' = restarts + 1
  /\ UNCHANGED installation

\* Mutant: only the jobs that were queued are queued again.
PanelRestartsQueuedOnly ==
  LET jobs == {j \in Job : job[j].state = "queued"}
  IN Restart(jobs) /\ queue' \in SetToSeqs(jobs)

\* Mutant: failed jobs are queued again as well.
PanelRestartsFailed ==
  LET jobs == {j \in Job : job[j].state \in Active \cup {"failed"}}
  IN Restart(jobs) /\ queue' \in SetToSeqs(jobs)

\* The panel stops or dies and InstallationManager.start queues every active
\* job again, in the order in which the database returns them.
PanelRestarts == Restart(ActiveJobs) /\ queue' \in SetToSeqs(ActiveJobs)

RequestStep(c) == InstallLooks(c) \/ (\E j \in Job : InstallInserts(c, j)) \/ Enqueue(c)
WorkerStep == Take \/ Load \/ Begin \/ Prepare

Next ==
  \/ \E s \in Server : CreateServer(s) \/ DeleteServer(s)
  \/ \E c \in Client, s \in Server : InstallBegins(c, s) \/ \E j \in Job : CreateAndInstall(c, s, j)
  \/ \E c \in Client : RequestStep(c)
  \/ WorkerStep
  \/ PanelRestarts

Spec == Init /\ [][Next]_vars

\* asyncio runs every handler and the worker to their ends.
FairSpec == Spec /\ WF_vars(WorkerStep) /\ \A c \in Client : WF_vars(RequestStep(c))
-----------------------------------------------------------------------------
\* Every variable has its type.
TypeOK ==
  /\ installation \in [Server -> State \cup {"absent"}]
  /\ job \in [Job -> [server : Server, state : State \ {"none"}] \cup {NoRow}]
  /\ queue \in Seq(Job)
  /\ worker \in [pc : {"waiting", "load", "begin", "prepare", "dead"}, job : Job \cup {NoJob}, seen : State]
  /\ request \in [Client -> [pc : {"idle", "look", "insert", "enqueue"},
                             server : Server \cup {NoServer}, seen : State, job : Job \cup {NoJob}]]
  /\ restarts \in 0..MaxRestarts

Forgotten == {j \in ActiveJobs : ~Scheduled(j)}

\* Is every job in one place at most?
Once ==
  /\ \A i, k \in DOMAIN queue : queue[i] = queue[k] => i = k
  /\ \A i \in DOMAIN queue : ~InHand(queue[i])
  /\ \A c, d \in Client : request[c].job = request[d].job /\ c # d => request[c].job = NoJob

\* No accepted job is forgotten and none is carried out twice: an active job is
\* in one place, the queue, the worker, or the handler that is about to enqueue
\* it, also after a restart emptied the queue (InstallationManager.start; _run
\* would run a failed job again if it met it again).  And no server is queued
\* for ever: if it says queued or installing, then it has such a job (web.py and
\* api.py commit the server and its job together, as does _run).
ActiveJobsScheduled ==
  /\ Forgotten = {} /\ Once
  /\ \A s \in Server : installation[s] \in Active => JobsOf(s) \cap ActiveJobs # {}

\* The installation service implements the job board: what it accepted
\* finishes once and keeps its outcome.
Board ==
  INSTANCE JobBoard WITH
    board <- [j \in Job |-> IF job[j].state \in Active THEN "accepted" ELSE job[j].state]
JobsFinishOnce == Board!Spec

\* Installations make progress: every active job finishes or goes with its
\* server, as long as the worker lives.
WorkerLives == [](worker.pc # "dead")
ActiveJobsFinish ==
  WorkerLives => \A j \in Job : job[j].state \in Active ~> job[j].state \notin Active
-----------------------------------------------------------------------------
(* What the interface says, and the code does not do *)

\* An installation continues in the background (i18n.py, installation page),
\* whatever happens to other servers.
InstallationsContinue ==
  \A j \in Job : job[j].state \in Active ~> job[j].state \notin Active

\* A server that is installed stays installed (install_server refuses it).
InstalledForGood ==
  [][\A s \in Server : installation[s] = "completed" => installation'[s] \in {"completed", "absent"}]_vars
=============================================================================
