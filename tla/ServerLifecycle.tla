--------------------------- MODULE ServerLifecycle ---------------------------
(***************************************************************************)
(* The life of a Minecraft server under the panel: its row of the table    *)
(* minecraft_servers, its container (DockerRuntime), the HTTP handlers     *)
(* that start, stop, restart, configure and delete it (web.py, api.py),    *)
(* and the maintenance pass of operations_service.py that restarts it      *)
(* after a crash.                                                          *)
(*                                                                         *)
(* Each element of Request is a slot in which one handler runs at a time;  *)
(* Worker is the client through which the maintenance pass calls the       *)
(* runtime.  A session of SQLAlchemy keeps the row it loaded and, when it  *)
(* commits, writes the columns it changed and no others.                   *)
(***************************************************************************)
EXTENDS DockerRuntime, Integers

CONSTANTS
  Worker,      \* the client that stands for the operations worker
  Limit,       \* settings.crash_restart_limit
  MaxAborts,   \* the counter of rolled-back passes stops here
  Handlers     \* the handlers that operators use (bounds an instance)

ASSUME WorkerAssumption == Worker \in Client
ASSUME LimitAssumption == Limit \in Nat /\ MaxAborts \in Nat

Request == Client \ {Worker}

VARIABLES
  rows,        \* the servers whose row exists
  db,          \* the committed columns of each row
  pass,        \* the session of the maintenance pass
  quiet,       \* history: how the last undisturbed stop or delete went
  tries,       \* history: automatic restarts since the server was last seen up
  aborts       \* history: passes rolled back (saturates at MaxAborts)

tables == <<rows, db>>
history == <<quiet, tries, aborts>>
vars == <<runtimeVars, tables, pass, history>>

ASSUME HandlersAssumption ==
  Handlers \subseteq {"start", "restart", "stop", "stop_ui", "delete"}

Desired == {"STOPPED", "RUNNING"}
Operation == {"start", "restart", "stop", "stop_ui", "delete", "auto_restart"}

\* last_running stands for last_runtime_state = "running", all that is asked
\* of that column; installed for installation_state = COMPLETED.
Row == [desired_state : Desired, auto_restart : BOOLEAN,
        restart_failures : 0..Limit, last_running : BOOLEAN, installed : BOOLEAN]

\* seen is the desired_state the session of a request believes to be stored.
Call == [op : Operation, server : Server, seen : Desired,
         pc : DockerSteps \cup Results]

\* A row as create_server commits it.
FreshRow == [desired_state |-> "STOPPED", auto_restart |-> FALSE,
             restart_failures |-> 0, last_running |-> FALSE, installed |-> FALSE]

\* loaded: the rows as the pass read them; staged: as it is about to write them.
NoPass == [active |-> FALSE, todo |-> {}, sampled |-> {},
           loaded |-> [s \in Server |-> FreshRow],
           staged |-> [s \in Server |-> FreshRow]]

Quiet == {"none", "stopping", "stopped", "deleting", "deleted"}

Init ==
  /\ RuntimeInit
  /\ rows = Server
  /\ db = [s \in Server |-> FreshRow]
  /\ pass = NoPass
  /\ quiet = [s \in Server |-> "none"]
  /\ tries = [s \in Server |-> 0]
  /\ aborts = 0

-----------------------------------------------------------------------------
(* What the sessions of the database do to each other *)

\* A deletion holds the row from flush() to commit() or rollback().
Locked(s) == \E r \in Request : WorksOn(r, s) /\ call[r].op = "delete"

HeldByPass(s) == pass.active /\ s \in pass.todo \cup pass.sampled

\* Assigning the value that was loaded is no change and writes nothing; an
\* UPDATE waits for the row's lock; the UPDATE of a deleted row raises
\* StaleDataError, so nothing is stored either.
SaveDesired(s, seen, new) ==
  IF seen = new
    THEN UNCHANGED db
    ELSE /\ ~Locked(s)
         /\ db' = IF s \in rows THEN [db EXCEPT ![s].desired_state = new] ELSE db

\* A column as a commit leaves it: written only where the session changed it.
Column(stored, loaded, staged) == IF staged = loaded THEN stored ELSE staged

Capped(n, max) == IF n < max THEN n ELSE max
-----------------------------------------------------------------------------
(* The handlers of web.py and api.py *)

\* Nothing but request r works on s, and no pass has read its row.
Alone(r, s) ==
  /\ \A c \in Client \ {r} : ~WorksOn(c, s)
  /\ ~HeldByPass(s)

Begin(r, s, op, pc, seen) ==
  /\ op \in Handlers
  /\ ~Busy(r)
  /\ s \in rows
  /\ call' = [call EXCEPT ![r] = [op |-> op, server |-> s, seen |-> seen, pc |-> pc]]
  /\ UNCHANGED <<container, directory, rows, pass, tries, aborts>>

Finish(r) == call' = [call EXCEPT ![r] = Idle]

Disturb(s) == quiet' = [quiet EXCEPT ![s] = "none"]

\* The undisturbed operation on s ended well (end) or not.
Settle(s, from, end) ==
  quiet' = [quiet EXCEPT ![s] = IF @ = from THEN end ELSE "none"]

\* start_server_ui, start_server
StartRequest(r, s) ==
  /\ db[s].installed
  /\ Begin(r, s, "start", "prepare", db[s].desired_state)
  /\ Disturb(s)
  /\ UNCHANGED db

\* restart_server_ui, restart_server
RestartRequest(r, s) ==
  /\ db[s].installed
  /\ Begin(r, s, "restart", "stop_inspect", db[s].desired_state)
  /\ Disturb(s)
  /\ UNCHANGED db

MarkAlone(r, s, mark) ==
  quiet' = [quiet EXCEPT ![s] = IF Alone(r, s) THEN mark ELSE "none"]

\* stop_server of the API: the container first, the row afterwards.
StopRequest(r, s) ==
  /\ Begin(r, s, "stop", "stop_inspect", db[s].desired_state)
  /\ MarkAlone(r, s, "stopping")
  /\ UNCHANGED db

\* stop_server_ui: the row first, committed, then the container.
StopUiRequest(r, s) ==
  /\ Begin(r, s, "stop_ui", "stop_inspect", "STOPPED")
  /\ SaveDesired(s, db[s].desired_state, "STOPPED")
  /\ MarkAlone(r, s, "stopping")

\* delete_server_ui, delete_server: the DELETE is flushed, and takes the row's
\* lock, before the container is removed.
DeleteRequest(r, s) ==
  /\ ~Locked(s)
  /\ Begin(r, s, "delete", "remove_inspect", db[s].desired_state)
  /\ MarkAlone(r, s, "deleting")
  /\ UNCHANGED db

\* The end of start and restart: desired_state becomes RUNNING.
StartDone(r) ==
  /\ call[r].pc = "started"
  /\ SaveDesired(call[r].server, call[r].seen, "RUNNING")
  /\ Finish(r)
  /\ Disturb(call[r].server)
  /\ UNCHANGED <<container, directory, rows, pass, tries, aborts>>

StopDone(r) ==
  /\ call[r].pc = "stopped" /\ call[r].op \in {"stop", "stop_ui"}
  /\ SaveDesired(call[r].server, call[r].seen, "STOPPED")
  /\ Finish(r)
  /\ Settle(call[r].server, "stopping", "stopped")
  /\ UNCHANGED <<container, directory, rows, pass, tries, aborts>>

\* stop_server_ui puts RUNNING back, whatever the row said before.
StopUiFailed(r) ==
  /\ call[r].pc = "failed" /\ call[r].op = "stop_ui"
  /\ SaveDesired(call[r].server, call[r].seen, "RUNNING")
  /\ Finish(r)
  /\ Disturb(call[r].server)
  /\ UNCHANGED <<container, directory, rows, pass, tries, aborts>>

\* Every other handler just raises; a deletion is rolled back.
RequestFailed(r) ==
  /\ call[r].pc = "failed" /\ call[r].op # "stop_ui"
  /\ Finish(r)
  /\ Disturb(call[r].server)
  /\ UNCHANGED <<container, directory, tables, pass, tries, aborts>>

DeleteDone(r) ==
  /\ call[r].pc = "removed"
  /\ LET s == call[r].server IN
       /\ rows' = rows \ {s}
       /\ db' = [db EXCEPT ![s] = FreshRow]
       /\ Settle(s, "deleting", "deleted")
  /\ Finish(r)
  /\ UNCHANGED <<container, directory, pass, tries, aborts>>

\* update_restart_policy
SetRestartPolicy(s, on) ==
  /\ s \in rows /\ ~Locked(s)
  /\ db' = [db EXCEPT ![s].auto_restart = on,
                      ![s].restart_failures = IF on THEN @ ELSE 0]
  /\ tries' = IF on THEN tries ELSE [tries EXCEPT ![s] = 0]
  /\ UNCHANGED <<runtimeVars, rows, pass, quiet, aborts>>

\* The commit with which InstallationManager._run completes an installation.
InstallationCompleted(s) ==
  /\ s \in rows /\ ~Locked(s) /\ ~db[s].installed
  /\ db' = [db EXCEPT ![s].installed = TRUE]
  /\ UNCHANGED <<runtimeVars, rows, pass, history>>
-----------------------------------------------------------------------------
(* OperationsManager.run_once: one session, one transaction, all servers *)

PassBegin ==
  /\ ~pass.active
  /\ LET read == [s \in Server |-> IF s \in rows THEN db[s] ELSE FreshRow] IN
       pass' = [active |-> TRUE, todo |-> rows, sampled |-> {},
                loaded |-> read, staged |-> read]
  /\ quiet' = [s \in Server |-> IF s \in rows /\ quiet[s] \in {"stopping", "deleting"}
                                THEN "none" ELSE quiet[s]]
  /\ UNCHANGED <<runtimeVars, tables, tries, aborts>>

\* Mutants: no limit; whatever the operator wants; only what was up last time.
ShouldRetryForever(s) ==
  /\ container[s] \notin {"running", "created"}
  /\ pass.loaded[s].desired_state = "RUNNING" /\ pass.loaded[s].auto_restart

ShouldRetryStopped(s) ==
  /\ container[s] \notin {"running", "created"}
  /\ pass.loaded[s].auto_restart /\ pass.loaded[s].restart_failures < Limit

ShouldRetryOnce(s) ==
  /\ ShouldRetryForever(s)
  /\ pass.loaded[s].restart_failures < Limit /\ pass.loaded[s].last_running

ShouldRetry(s) ==
  /\ container[s] \notin {"running", "created"}
  /\ pass.loaded[s].desired_state = "RUNNING"
  /\ pass.loaded[s].auto_restart
  /\ pass.loaded[s].restart_failures < Limit

\* _sample_and_recover up to its call of runtime.start.
Sample(s) ==
  /\ pass.active /\ s \in pass.todo /\ ~Busy(Worker)
  /\ LET up == container[s] = "running"
         failures == IF up THEN 0
                     ELSE pass.loaded[s].restart_failures + (IF ShouldRetry(s) THEN 1 ELSE 0)
     IN /\ pass' = [pass EXCEPT !.todo = @ \ {s}, !.sampled = @ \cup {s},
                                !.staged[s].restart_failures = failures,
                                !.staged[s].last_running = up]
        /\ tries' = [tries EXCEPT ![s] =
                       IF up THEN 0
                       ELSE IF ShouldRetry(s) THEN Capped(@ + 1, Limit + MaxAborts + 1) ELSE @]
  /\ call' = IF ShouldRetry(s)
             THEN [call EXCEPT ![Worker] =
                     [op |-> "auto_restart", server |-> s, seen |-> "RUNNING", pc |-> "prepare"]]
             ELSE call
  /\ UNCHANGED <<container, directory, tables, quiet, aborts>>

\* Mutant: a restart that succeeded clears the counter at once.
AutoRestartReturnsForgiving ==
  /\ call[Worker].pc \in {"started", "failed"}
  /\ LET s == call[Worker].server IN
       pass' = [pass EXCEPT !.staged[s].restart_failures =
                              IF call[Worker].pc = "started" THEN 0 ELSE @]
  /\ Finish(Worker)
  /\ UNCHANGED <<container, directory, tables, history>>

\* runtime.start returned or raised; both end in the audit log.
AutoRestartReturns ==
  /\ call[Worker].pc \in {"started", "failed"}
  /\ pass' = [pass EXCEPT !.staged[call[Worker].server].last_running =
                             call[Worker].pc = "started"]
  /\ Finish(Worker)
  /\ UNCHANGED <<container, directory, tables, history>>

PassFinished == pass.active /\ pass.todo = {} /\ ~Busy(Worker)

\* Mutant: the pass writes the rows back as it read them.
PassCommitWhole ==
  /\ PassFinished
  /\ pass.sampled \subseteq rows
  /\ \A s \in pass.sampled : ~Locked(s)
  /\ db' = [s \in Server |-> IF s \in pass.sampled THEN pass.staged[s] ELSE db[s]]
  /\ pass' = NoPass
  /\ UNCHANGED <<runtimeVars, rows, history>>

\* The commit inserts a metric sample for every server, so that it needs all
\* their rows, and updates the changed columns.
PassCommit ==
  /\ PassFinished
  /\ pass.sampled \subseteq rows
  /\ \A s \in pass.sampled : ~Locked(s)
  /\ db' = [s \in Server |->
       IF s \in pass.sampled
         THEN LET old == pass.loaded[s]
                  new == pass.staged[s]
              IN [db[s] EXCEPT
                    !.restart_failures = Column(@, old.restart_failures, new.restart_failures),
                    !.last_running = Column(@, old.last_running, new.last_running)]
         ELSE db[s]]
  /\ pass' = NoPass
  /\ UNCHANGED <<runtimeVars, rows, history>>

\* _worker logs whatever a pass raises and waits for the next one; the session
\* is closed, and with it everything the pass staged is gone.
Abort ==
  /\ pass' = NoPass
  /\ aborts' = Capped(aborts + 1, MaxAborts)
  /\ UNCHANGED <<runtimeVars, tables, quiet, tries>>

\* The sample of a server that was deleted meanwhile violates its foreign key.
CommitFails == PassFinished /\ ~(pass.sampled \subseteq rows) /\ Abort

\* Docker or a scheduled backup raised what the pass does not catch.
PassRaises == pass.active /\ ~Busy(Worker) /\ Abort
-----------------------------------------------------------------------------
\* The panel process dies or is stopped and comes back: sessions are rolled
\* back, containers live on.
PanelRestarts ==
  /\ pass.active \/ \E c \in Client : Busy(c)
  /\ call' = [c \in Client |-> Idle]
  /\ pass' = NoPass
  /\ aborts' = IF pass.active THEN Capped(aborts + 1, MaxAborts) ELSE aborts
  /\ quiet' = [s \in Server |-> IF quiet[s] \in {"stopping", "deleting"}
                                THEN "none" ELSE quiet[s]]
  /\ UNCHANGED <<container, directory, tables, tries>>

RuntimeStep(c) == StepSucceeds(c) /\ UNCHANGED <<tables, pass, history>>
RuntimeFailure(c) == CallFails(c) /\ UNCHANGED <<tables, pass, history>>
Crash(s) == ContainerExits(s) /\ UNCHANGED <<tables, pass, history>>

RequestBegins(r, s) ==
  \/ StartRequest(r, s) \/ RestartRequest(r, s) \/ StopRequest(r, s)
  \/ StopUiRequest(r, s) \/ DeleteRequest(r, s)

RequestEnds(r) ==
  StartDone(r) \/ StopDone(r) \/ StopUiFailed(r) \/ RequestFailed(r) \/ DeleteDone(r)

PassStep ==
  (\E s \in Server : Sample(s)) \/ AutoRestartReturns \/ PassCommit \/ CommitFails

Next ==
  \/ \E r \in Request, s \in Server : RequestBegins(r, s)
  \/ \E r \in Request : RequestEnds(r)
  \/ \E s \in Server, on \in BOOLEAN : SetRestartPolicy(s, on)
  \/ \E s \in Server : InstallationCompleted(s)
  \/ PassBegin \/ PassStep \/ PassRaises
  \/ \E c \in Client : RuntimeStep(c) \/ RuntimeFailure(c)
  \/ \E s \in Server : Crash(s)
  \/ PanelRestarts

Spec == Init /\ [][Next]_vars

\* asyncio keeps every handler going, each Docker call returns (stop() gives
\* up after 30 seconds), and the worker begins a pass after every poll.  The
\* database grants a row lock in the order it was asked for: a commit that
\* waits for one is not overtaken for ever, hence the strong fairness.
FairSpec ==
  /\ Spec
  /\ \A c \in Client : WF_vars(RuntimeStep(c))
  /\ \A r \in Request : SF_vars(RequestEnds(r))
  /\ WF_vars(PassBegin)
  /\ WF_vars(PassStep)
  /\ SF_vars(PassCommit)
-----------------------------------------------------------------------------
\* Every variable has its type.
TypeOK ==
  /\ container \in [Server -> ContainerState]
  /\ directory \subseteq Server
  /\ call \in [Client -> Call \cup {Idle}]
  /\ rows \subseteq Server
  /\ db \in [Server -> Row]
  /\ pass \in [active : BOOLEAN, todo : SUBSET Server, sampled : SUBSET Server,
               loaded : [Server -> Row], staged : [Server -> Row]]
  /\ quiet \in [Server -> Quiet]
  /\ tries \in [Server -> Nat]
  /\ aborts \in Nat

\* A stop that nothing disturbed lasts: from its answer to the next request
\* for that server the row says STOPPED and the container stays down, through
\* maintenance passes, policy changes and restarts of the panel
\* (web.py stop_server_ui, api.py stop_server).
QuietStopHolds ==
  \A s \in Server : quiet[s] = "stopped" =>
    /\ s \in rows
    /\ db[s].desired_state = "STOPPED"
    /\ container[s] # "running"

\* A deletion that nothing disturbed is final: no row, no container and no live
\* directory come back (web.py delete_server_ui, api.py delete_server).
QuietDeleteHolds ==
  \A s \in Server : quiet[s] = "deleted" =>
    s \notin rows /\ container[s] = "not_created" /\ s \notin directory

\* Crash recovery gives up: between two sightings of the running server the
\* panel restarts it at most crash_restart_limit times, and once more for each
\* pass that was rolled back and so forgot its attempt (_sample_and_recover).
AttemptsBounded ==
  aborts < MaxAborts => \A s \in Server : tries[s] <= Limit + aborts

\* The maintenance pass writes its own columns only: what the operator decides
\* (desired_state, auto_restart) and the installer's state survive a pass that
\* read the row before the decision and commits after it.
PassKeepsDecisions ==
  [][PassCommit => \A s \in Server :
       /\ db'[s].desired_state = db[s].desired_state
       /\ db'[s].auto_restart = db[s].auto_restart
       /\ db'[s].installed = db[s].installed]_vars

\* A stop() that waits for a container never waits for one that is down: each
\* way a container can stop releases it (runtime.py stop).
WaitersHaveRunningContainer ==
  \A c \in Client : call[c].pc = "waiting" => container[call[c].server] = "running"

\* The panel keeps its orders: what an undisturbed stop or deletion has brought
\* about, no handler, pass, crash or restart of the panel changes, until a
\* request ends the stop; and nothing but a request ends it.
Orders ==
  INSTANCE ServerOrders WITH
    known <- rows,
    wanted <- {s \in Server : db[s].desired_state = "RUNNING"},
    state <- [s \in Server |->
                IF container[s] = "running" THEN "up"
                ELSE IF container[s] = "not_created" /\ s \notin directory THEN "none"
                ELSE "down"],
    order <- [s \in Server |-> IF quiet[s] \in {"stopped", "deleted"} THEN quiet[s] ELSE "open"]
OrdersKept == Orders!Spec

\* Every handler answers: no interleaving of handlers, passes and deletions
\* leaves a request blocked on a row or on Docker.
RequestsFinish == \A r \in Request : Busy(r) ~> ~Busy(r)

\* Crash recovery happens: a server that should run, is allowed restarts and is
\* down is brought up, or the limit is reached, or an operator steps in, or
\* its container is left behind in state "created", which no pass retries
\* (_sample_and_recover), provided that only so many passes are rolled back.
Recovers(s) ==
  \/ s \notin rows
  \/ db[s].desired_state = "STOPPED" \/ ~db[s].auto_restart
  \/ db[s].restart_failures >= Limit
  \/ container[s] \in {"running", "created"}
FewAborts == [](aborts < MaxAborts)
CrashedServerRecovers == FewAborts => \A s \in Server : []<>Recovers(s)
-----------------------------------------------------------------------------
(* What the documentation and the tests say, and the code does not do *)

\* Automatic restarts follow crashes (README.md, the option on the monitoring
\* page): a pass restarts no server that its operator has stopped, that is,
\* whose row says STOPPED at that moment.
RestartsFollowCrashes ==
  [][\A s \in Server : Sample(s) /\ ShouldRetry(s) => db[s].desired_state = "RUNNING"]_vars

\* Recovery stops at the configured limit (test_operations_service.py).
StopsAtLimit == \A s \in Server : tries[s] <= Limit

\* A server whose installation is not complete is not started (web.py
\* start_server_ui, api.py start_server refuse it).
RunningIsInstalled ==
  \A s \in rows : container[s] = "running" => db[s].installed

\* Recovery retries until a start succeeds (test_operations_service.py).
RetriesUntilUp ==
  FewAborts => \A s \in Server :
    []<>(\/ s \notin rows
         \/ db[s].desired_state = "STOPPED" \/ ~db[s].auto_restart
         \/ db[s].restart_failures >= Limit
         \/ container[s] = "running")
-----------------------------------------------------------------------------
(* What the properties above rest on: the inductive invariant *)

\* Each operation is somewhere in its own part of the runtime, and the worker
\* starts only what its pass has sampled and read as wanted.
StepsOf(op) ==
  IF op \in {"start", "auto_restart"} THEN StartSteps \cup {"started", "failed"}
  ELSE IF op = "restart" THEN StartSteps \cup StopSteps \cup {"started", "stopped", "failed"}
  ELSE IF op = "delete" THEN RemoveSteps \cup {"removed", "failed"}
  ELSE StopSteps \cup {"stopped", "failed"}

CallsOK ==
  /\ \A c \in Client : Busy(c) =>
       /\ (c = Worker) <=> (call[c].op = "auto_restart")
       /\ call[c].pc \in StepsOf(call[c].op)
  /\ Busy(Worker) => LET s == call[Worker].server IN
       pass.active /\ s \in pass.sampled /\ pass.loaded[s].desired_state = "RUNNING"

Nobody(s) == \A c \in Client : ~WorksOn(c, s)

QuietOK(s) ==
  /\ quiet[s] = "stopping" =>
       /\ s \in rows
       /\ \E r \in Request :
            /\ WorksOn(r, s) /\ Alone(r, s)
            /\ call[r].op \in {"stop", "stop_ui"}
            /\ call[r].seen = db[s].desired_state
            /\ call[r].op = "stop_ui" => db[s].desired_state = "STOPPED"
            /\ call[r].pc = "stopped" => container[s] # "running"
  /\ quiet[s] = "stopped" =>
       /\ s \in rows /\ Nobody(s)
       /\ db[s].desired_state = "STOPPED"
       /\ container[s] # "running"
       /\ HeldByPass(s) => pass.loaded[s].desired_state = "STOPPED"
  /\ quiet[s] = "deleting" =>
       /\ s \in rows
       /\ \E r \in Request :
            /\ WorksOn(r, s) /\ Alone(r, s)
            /\ call[r].op = "delete"
            /\ call[r].pc \in {"archive", "removed"} => container[s] = "not_created"
            /\ call[r].pc = "removed" => s \notin directory
  /\ quiet[s] = "deleted" =>
       /\ s \notin rows /\ Nobody(s) /\ ~HeldByPass(s)
       /\ container[s] = "not_created" /\ s \notin directory

\* How many attempts the counter of a server accounts for, now and when the
\* pass commits.
AttemptsOK(s) ==
  LET stored == db[s].restart_failures
      loaded == pass.loaded[s].restart_failures
      staged == pass.staged[s].restart_failures
      forgiven == IF aborts < MaxAborts THEN aborts ELSE tries[s]
  IN /\ s \in pass.todo => s \notin pass.sampled /\ staged = loaded
     /\ HeldByPass(s) =>
          /\ stored <= loaded
          /\ staged <= loaded + 1
          /\ s \in rows => tries[s] = 0 \/ tries[s] <= forgiven + stored + staged - loaded
          /\ s \notin rows => tries[s] <= forgiven + staged
     /\ ~HeldByPass(s) =>
          tries[s] <= forgiven + (IF s \in rows THEN stored ELSE Limit)

IInv ==
  /\ CallsOK
  /\ \A s \in Server : QuietOK(s) /\ AttemptsOK(s)
=============================================================================
