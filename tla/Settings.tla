------------------------------ MODULE Settings ------------------------------
(***************************************************************************)
(* The settings of one server: the handler update_server_settings_ui of    *)
(* web.py, update_server_settings of api.py, server_settings.py, and the   *)
(* start of the container with the settings that are stored.               *)
(*                                                                         *)
(* A request works on three stores in turn, and awaits between any two     *)
(* steps: the file server.properties, the row of the database, and the     *)
(* running server.  Of the nine keys that the panel writes two stand for   *)
(* all: plan needs a restart, live has a console command.  The host port   *)
(* stands for the profile of the container (memory_mb is such a column     *)
(* without the constraint), and other for the keys of everyone else.       *)
(***************************************************************************)
EXTENDS Integers, FiniteSets

CONSTANTS
  Handler,     \* requests served at the same time
  Value,       \* values of a setting
  Port,
  Taken,       \* the ports of other servers
  FirstPort,
  MaxRequests, \* bound: requests
  MaxFaults,   \* bound: failures of the disk and the database, crashes of the panel
  None

ASSUME PortAssumption == FirstPort \in Port /\ Taken \subseteq Port \ {FirstPort}
ASSUME NoneAssumption == None \notin Handler
ASSUME BoundAssumption == {MaxRequests, MaxFaults} \subseteq Nat

VARIABLES
  file,        \* server.properties
  row,         \* host_port as committed
  lock,        \* the request whose transaction has updated the row
  container,   \* its profile, and the settings that its server has loaded
  task,        \* the request of each handler
  requests, faults,
  asked,       \* the pairs of settings that were ever asked for
  unpaired     \* has the file been written by a request that leaves the profile alone?

history == <<asked, unpaired>>
vars == <<file, row, lock, container, task, requests, faults, history>>

File == [plan : Value, live : Value, other : 0 .. MaxRequests, by : 0 .. MaxRequests]
Row == [port : Port, by : 0 .. MaxRequests]
Container == [is : {"none", "exited", "running"}, plan : Value, live : Value, port : Port]
Kind == {"ui", "api", "edit", "start", "restart"}
Writer == {"ui", "api", "edit"}

Pair(f) == <<f.plan, f.live>>
Running == container.is = "running"

\* A running server uses what is saved.
InStep == Running => Pair(container) = Pair(file) /\ container.port = row.port

Idle == [kind |-> "none", step |-> "done"]

Init ==
  /\ file \in [plan : Value, live : Value, other : {0}, by : {0}]
  /\ row = [port |-> FirstPort, by |-> 0] /\ lock = None
  /\ container = [is |-> "none", plan |-> file.plan, live |-> file.live, port |-> FirstPort]
  /\ task = [h \in Handler |-> Idle]
  /\ requests = 0 /\ faults = 0
  /\ asked = {Pair(file)} /\ unpaired = FALSE
-----------------------------------------------------------------------------
(* Requests *)

Active(h) == task[h].kind # "none"
At(h, step) == task[h].step = step
Goto(h, step) == [task EXCEPT ![h].step = step]
End(h) == [task EXCEPT ![h] = Idle]

FirstStep(kind) ==
  [ui |-> "previous", api |-> "flush", edit |-> "save", start |-> "start", restart |-> "stop"][kind]

\* Two requests that are served at the same time disturb each other.
Disturbed(a) ==
  IF a = Idle THEN a
  ELSE [a EXCEPT !.disturbed = TRUE, !.file0 = None, !.row0 = None, !.inStep0 = FALSE]

\* loaded, previous and stored are what the request reads: the row, and the
\* file twice.  The fields from file0 on are history.
New(kind, plan, live, port) ==
  [kind |-> kind, step |-> FirstStep(kind), n |-> requests',
   want |-> [plan |-> plan, live |-> live, by |-> requests',
             other |-> IF kind = "edit" THEN requests' ELSE 0],
   port |-> port, loaded |-> row.port, previous |-> None, stored |-> None,
   up |-> FALSE, applied |-> FALSE,
   file0 |-> file, row0 |-> row, inStep0 |-> InStep, disturbed |-> FALSE]

\* The row is loaded at once.  An edit is open in the file manager from its
\* first step on, with the text of the file at that time.
Begin(h, kind, plan, live, port) ==
  /\ ~Active(h) /\ requests < MaxRequests
  /\ requests' = requests + 1
  /\ LET new == New(kind, plan, live, port)
         alone == \A g \in Handler : ~Active(g)
     IN task' = [g \in Handler |->
                   IF g # h THEN Disturbed(task[g]) ELSE IF alone THEN new ELSE Disturbed(new)]
  /\ asked' = IF kind \in Writer THEN asked \cup {<<plan, live>>} ELSE asked
  /\ UNCHANGED <<file, row, lock, container, faults, unpaired>>

\* Forms carry every setting, an edit a key of its own, a start nothing.
Request(h) ==
  \/ \E kind \in {"ui", "api"}, plan \in Value, live \in Value, port \in Port :
       Begin(h, kind, plan, live, port)
  \/ \E kind \in {"edit", "start", "restart"} : Begin(h, kind, file.plan, file.live, row.port)

After == [previous |-> "flush", flush |-> "read", read |-> "replace", replace |-> "commit"]

\* read_server_properties
Previous(h) ==
  /\ At(h, "previous")
  /\ task' = [task EXCEPT ![h].previous = Pair(file), ![h].step = After["previous"]]
  /\ UNCHANGED <<file, row, lock, container, requests, faults, history>>

ProfileChanged(h) == task[h].port # task[h].loaded

\* The UPDATE holds the columns that differ from the loaded row: with none
\* there is no statement, and no lock.
Flush(h) ==
  /\ At(h, "flush") /\ (ProfileChanged(h) => lock = None)
  /\ IF ProfileChanged(h) /\ task[h].port \in Taken
     THEN task' = Goto(h, "refused") /\ UNCHANGED lock
     ELSE task' = Goto(h, After["flush"]) /\ lock' = IF ProfileChanged(h) THEN h ELSE lock
  /\ UNCHANGED <<file, row, container, requests, faults, history>>

\* write_server_properties reads the file, ...
Read(h) ==
  /\ At(h, "read")
  /\ task' = [task EXCEPT ![h].stored = file, ![h].step = After["read"]]
  /\ UNCHANGED <<file, row, lock, container, requests, faults, history>>

\* Mutant: the keys that the panel does not know are dropped.
SerializedOnly(h) == [task[h].want EXCEPT !.other = 0]

\* Mutant: a request writes the settings that it changes, and keeps the others.
ChangedOnly(h) ==
  LET a == task[h]
      set(v, w, old) == IF v = w THEN old ELSE v
  IN IF a.kind = "api" THEN [a.want EXCEPT !.other = a.stored.other]
     ELSE [a.stored EXCEPT !.plan = set(a.want.plan, a.previous[1], @),
                           !.live = set(a.want.live, a.previous[2], @), !.by = a.n]

\* ... sets its own keys and keeps the other lines, ...
Output(h) == [task[h].want EXCEPT !.other = task[h].stored.other]

\* ... and replaces it by a whole new file.
Replace(h) ==
  /\ At(h, "replace")
  /\ file' = Output(h)
  /\ task' = [task EXCEPT ![h].stored = None, ![h].step = After["replace"]]
  /\ unpaired' = (unpaired \/ ~ProfileChanged(h))
  /\ UNCHANGED <<row, lock, container, requests, faults, asked>>

\* Mutant: a rollback or a commit that keeps its lock.
ReleaseNever(h) == lock

Release(h) == IF lock = h THEN None ELSE lock

Commit(h) ==
  /\ At(h, "commit")
  /\ row' = IF ProfileChanged(h) THEN [port |-> task[h].port, by |-> task[h].n] ELSE row
  /\ lock' = Release(h)
  /\ task' = Goto(h, IF task[h].kind = "ui" THEN "status" ELSE "answer")
  /\ UNCHANGED <<file, container, requests, faults, history>>

\* runtime.status, once, before the live commands
Status(h) ==
  /\ At(h, "status")
  /\ task' = [task EXCEPT ![h].up = Running, ![h].step = "command"]
  /\ UNCHANGED <<file, row, lock, container, requests, faults, history>>

LiveChanged(h) == task[h].previous[2] # task[h].want.live

\* Mutant: a command that could not be sent counts as applied.
CommandBelieved(h) ==
  /\ At(h, "command")
  /\ LET sends == task[h].up /\ LiveChanged(h)
     IN \E sent \in {FALSE, sends /\ Running} :
          /\ container' = IF sent THEN [container EXCEPT !.live = task[h].want.live] ELSE container
          /\ task' = [task EXCEPT ![h].applied = sends, ![h].step = "answer"]
  /\ UNCHANGED <<file, row, lock, requests, faults, history>>

\* live_setting_commands: what cannot be sent waits for a restart.
Command(h) ==
  /\ At(h, "command")
  /\ \E sent \in {FALSE, task[h].up /\ LiveChanged(h) /\ Running} :
       /\ container' = IF sent THEN [container EXCEPT !.live = task[h].want.live] ELSE container
       /\ task' = [task EXCEPT ![h].applied = sent, ![h].step = "answer"]
  /\ UNCHANGED <<file, row, lock, requests, faults, history>>

RestartRequired(h) ==
  LET a == task[h]
  IN a.up /\ ( \/ a.previous[1] # a.want.plan
               \/ LiveChanged(h) /\ ~a.applied
               \/ ProfileChanged(h) )

Answer(h) ==
  /\ At(h, "answer") \/ At(h, "refused")
  /\ task' = End(h)
  /\ UNCHANGED <<file, row, lock, container, requests, faults, history>>

\* save_server_text_file: the text of the editor, whatever the file is by then.
Save(h) ==
  /\ At(h, "save")
  /\ file' = task[h].want
  /\ task' = Goto(h, "answer") /\ unpaired' = TRUE
  /\ UNCHANGED <<row, lock, container, requests, faults, asked>>
-----------------------------------------------------------------------------
(* The server *)

Started(port) ==
  [is |-> "running", plan |-> file.plan, live |-> file.live, port |-> port]

\* _start_sync: a container whose profile is not that of the row is replaced.
\* The row is the one loaded when the request began.
Start(h) ==
  /\ At(h, "start")
  /\ container' = IF Running THEN container ELSE Started(task[h].loaded)
  /\ task' = End(h)
  /\ UNCHANGED <<file, row, lock, requests, faults, history>>

\* The first half of runtime.restart; also a stop request, or the server's end.
Exits == IF Running THEN [container EXCEPT !.is = "exited"] ELSE container

Stop(h) ==
  /\ At(h, "stop")
  /\ container' = Exits /\ task' = Goto(h, "start")
  /\ UNCHANGED <<file, row, lock, requests, faults, history>>

ServerStops ==
  /\ Running /\ container' = Exits
  /\ UNCHANGED <<file, row, lock, task, requests, faults, history>>
-----------------------------------------------------------------------------
(* Failures *)

\* ServerSettingsError is answered after a rollback; a commit that fails is not.
WriteFails(h) ==
  /\ At(h, "read") \/ At(h, "replace")
  /\ task' = Goto(h, "refused")

CommitFails(h) == At(h, "commit") /\ task' = End(h)

Fails(h) ==
  /\ faults < MaxFaults /\ faults' = faults + 1
  /\ WriteFails(h) \/ CommitFails(h)
  /\ lock' = Release(h)
  /\ UNCHANGED <<file, row, container, requests, history>>

PanelStops ==
  /\ faults < MaxFaults /\ faults' = faults + 1
  /\ \E h \in Handler : Active(h)
  /\ task' = [h \in Handler |-> Idle] /\ lock' = None
  /\ UNCHANGED <<file, row, container, requests, history>>

Step(h) ==
  \/ Previous(h) \/ Flush(h) \/ Read(h) \/ Replace(h) \/ Commit(h)
  \/ Status(h) \/ Command(h) \/ Answer(h) \/ Save(h) \/ Start(h) \/ Stop(h) \/ Fails(h)

\* Nothing is left to do; any other state without a step is a deadlock.
Rest == (\A h \in Handler : ~Active(h)) /\ UNCHANGED vars

Next == (\E h \in Handler : Request(h) \/ Step(h)) \/ ServerStops \/ PanelStops \/ Rest

Spec == Init /\ [][Next]_vars
-----------------------------------------------------------------------------
(* Properties *)

\* Every variable has its type; the port in the row is free, and the lock is
\* held by a request that changes it.
TypeOK ==
  /\ file \in File /\ row \in Row /\ container \in Container
  /\ row.port \notin Taken /\ lock \in Handler \cup {None}
  /\ \A h \in Handler : Active(h) =>
       task[h].kind \in Kind /\ task[h].want \in File /\ task[h].port \in Port
  /\ lock # None => Active(lock) /\ ProfileChanged(lock)

Writes(h) == task[h].kind \in Writer

\* What the file becomes when nobody else writes.
Wanted(h) ==
  IF task[h].kind = "edit" THEN task[h].want ELSE [task[h].want EXCEPT !.other = task[h].file0.other]

\* A request that nobody disturbs is one change of both stores: at every moment,
\* so also when the panel dies, the file is the one before or the one asked for,
\* with the keys of everyone else, and the row is never ahead of the file.
OneChange ==
  \A h \in Handler : Writes(h) /\ ~task[h].disturbed =>
    /\ file \in {task[h].file0, Wanted(h)}
    /\ row # task[h].row0 => file = Wanted(h) /\ row.port = task[h].port

\* Of overlapping requests one wins for all settings: the file never mixes
\* them.  Requests that change the profile take the lock of the row before they
\* write the file, so that file and row are of the same request in the end.
NeverMixed ==
  /\ Pair(file) \in asked
  /\ lock = None /\ faults = 0 /\ ~unpaired => file.by = row.by

\* The stores hold what was asked for, or what they held before a refusal
\* (a port in use, a full disk).
StoresFit(h) ==
  IF At(h, "refused") THEN file = task[h].file0 /\ row = task[h].row0
  ELSE file = Wanted(h) /\ row.port = task[h].port

\* If the server ran what was saved before the request, then it does afterwards
\* unless the page says that a restart is needed.
RestartSaid(h) ==
  task[h].kind = "ui" /\ task[h].inStep0 /\ At(h, "answer") => RestartRequired(h) \/ InStep

\* The answer to a request that nobody disturbs is true: about the stores, about
\* whether a restart is needed, and that a restart applies everything saved.
AnswersTrue ==
  [][\A h \in Handler : Active(h) /\ ~task[h].disturbed =>
       /\ Writes(h) /\ Answer(h) => StoresFit(h) /\ RestartSaid(h)
       /\ At(h, "start") /\ task[h].kind = "restart" /\ Start(h) => InStep']_vars
=============================================================================
