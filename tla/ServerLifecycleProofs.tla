------------------------ MODULE ServerLifecycleProofs ------------------------
(***************************************************************************)
(* Theorems about ServerLifecycle for every set of servers and of request  *)
(* slots and every value of the limits.                                    *)
(***************************************************************************)
EXTENDS ServerLifecycle, TLAPS

(* Lemmas about the calls of the runtime *)

\* A client that is not idle holds a proper call.
LEMMA BusyCall ==
  ASSUME TypeOK, NEW c \in Client, Busy(c)
  PROVE  call[c] \in Call
BY DEF TypeOK, Busy, Idle

\* Moving a call to another step keeps it a call.
LEMMA GoToTyped ==
  ASSUME TypeOK, NEW c \in Client, Busy(c), NEW pc \in DockerSteps \cup Results, GoTo(c, pc)
  PROVE  call' \in [Client -> Call \cup {Idle}]
BY BusyCall DEF GoTo, Call, TypeOK

\* So does releasing those who wait for a container.
LEMMA ReleasedTyped ==
  ASSUME TypeOK, NEW s \in Server
  PROVE  Released(s) \in [Client -> Call \cup {Idle}]
<1> SUFFICES ASSUME NEW c \in Client, call[c].pc = "waiting"
             PROVE  [call[c] EXCEPT !.pc = "stopped"] \in Call
  BY DEF Released, TypeOK
<1>1. call[c] \in Call
  BY BusyCall DEF Busy
<1> QED BY <1>1 DEF Call, Results

\* The row of a new server has its type.
LEMMA FreshRowTyped == FreshRow \in Row
BY LimitAssumption DEF FreshRow, Row, Desired

\* The record of a pass that is not at work has its type.
LEMMA NoPassTyped ==
  NoPass \in [active : BOOLEAN, todo : SUBSET Server, sampled : SUBSET Server,
              loaded : [Server -> Row], staged : [Server -> Row]]
BY FreshRowTyped DEF NoPass

-----------------------------------------------------------------------------
(* Type correctness *)

RuntimeTypes ==
  /\ container \in [Server -> ContainerState]
  /\ directory \subseteq Server
  /\ call \in [Client -> Call \cup {Idle}]

\* The steps of the runtime keep the types of the runtime's variables.
LEMMA StepTypes ==
  ASSUME TypeOK, NEW c \in Client, StepSucceeds(c) \/ CallFails(c)
  PROVE  RuntimeTypes'
<1> USE DEF DockerSteps, StartSteps, StopSteps, RemoveSteps, Results, ContainerState
<1>0. Busy(c)
  BY DEF StepSucceeds, CallFails, Busy, Prepare, Inspect, Launch, Replace, Create, StopInspect,
         SendStop, StopTimeout, RestartGoesOn, RemoveInspect, Remove, Archive
<1>1. call[c] \in Call /\ call[c].server \in Server
  BY <1>0, BusyCall DEF Call
<1>2. CASE Prepare(c) BY <1>0, <1>1, <1>2, GoToTyped DEF Prepare, TypeOK, RuntimeTypes
<1>3. CASE Inspect(c) BY <1>0, <1>1, <1>3, GoToTyped DEF Inspect, TypeOK, RuntimeTypes
<1>4. CASE Launch(c) BY <1>0, <1>1, <1>4, GoToTyped DEF Launch, TypeOK, RuntimeTypes
<1>5. CASE Replace(c) BY <1>0, <1>1, <1>5, GoToTyped DEF Replace, TypeOK, RuntimeTypes
<1>6. CASE Create(c) BY <1>0, <1>1, <1>6, GoToTyped DEF Create, TypeOK, RuntimeTypes
<1>7. CASE StopInspect(c) BY <1>0, <1>1, <1>7, GoToTyped DEF StopInspect, TypeOK, RuntimeTypes
<1>8. CASE SendStop(c) BY <1>0, <1>1, <1>8, GoToTyped DEF SendStop, TypeOK, RuntimeTypes
<1>9. CASE StopTimeout(c) BY <1>1, <1>9, ReleasedTyped DEF StopTimeout, TypeOK, RuntimeTypes
<1>10. CASE RestartGoesOn(c) BY <1>0, <1>1, <1>10, GoToTyped DEF RestartGoesOn, TypeOK, RuntimeTypes
<1>11. CASE RemoveInspect(c)
  <2>1. container' \in [Server -> ContainerState] /\ directory' \subseteq Server
    BY <1>1, <1>11 DEF RemoveInspect, TypeOK
  <2>2. [call[c] EXCEPT !.pc = "remove"] \in Call
    BY <1>1 DEF Call
  <2>3. call' \in [Client -> Call \cup {Idle}]
    <3>1. CASE GoTo(c, "archive") \/ GoTo(c, "remove")
      BY <1>0, <3>1, GoToTyped
    <3>2. CASE call' = [d \in Client |-> IF d = c THEN [call[c] EXCEPT !.pc = "remove"]
                                         ELSE Released(call[c].server)[d]]
      BY <1>1, <2>2, <3>2, ReleasedTyped
    <3> QED BY <1>11, <3>1, <3>2 DEF RemoveInspect
  <2> QED BY <2>1, <2>3 DEF RuntimeTypes
<1>12. CASE Remove(c) BY <1>0, <1>1, <1>12, GoToTyped DEF Remove, TypeOK, RuntimeTypes
<1>13. CASE Archive(c) BY <1>0, <1>1, <1>13, GoToTyped DEF Archive, TypeOK, RuntimeTypes
<1>14. CASE CallFails(c) BY <1>0, <1>1, <1>14, GoToTyped DEF CallFails, TypeOK, RuntimeTypes
<1> QED BY <1>2, <1>3, <1>4, <1>5, <1>6, <1>7, <1>8, <1>9, <1>10, <1>11, <1>12, <1>13,
           <1>14 DEF StepSucceeds

\* A commit of desired_state keeps the rows well formed.
LEMMA SaveDesiredTyped ==
  ASSUME TypeOK, NEW s \in Server, NEW seen, NEW new \in Desired, SaveDesired(s, seen, new)
  PROVE  db' \in [Server -> Row]
<1>0. db[s] \in Row
  BY DEF TypeOK
<1>1. [db[s] EXCEPT !.desired_state = new] \in Row
  BY <1>0 DEF Row
<1>2. db' = db \/ db' = [db EXCEPT ![s].desired_state = new]
  BY DEF SaveDesired
<1> QED BY <1>1, <1>2 DEF TypeOK

\* The first state has its types.
THEOREM TypeInitial == Init => TypeOK
BY FreshRowTyped, NoPassTyped DEF Init, RuntimeInit, TypeOK, ContainerState, Quiet

\* A request that begins is a call with its type.
LEMMA BeginTyped ==
  ASSUME TypeOK, NEW r \in Request, NEW s \in Server, NEW op, NEW pc \in DockerSteps,
         NEW seen \in Desired, Begin(r, s, op, pc, seen)
  PROVE  RuntimeTypes'
<1>1. op \in Operation
  BY HandlersAssumption DEF Begin, Operation
<1>2. [op |-> op, server |-> s, seen |-> seen, pc |-> pc] \in Call
  BY <1>1 DEF Call
<1> QED BY <1>2 DEF Begin, TypeOK, RuntimeTypes

\* The first half of a handler keeps the types.
LEMMA RequestBeginsTypes ==
  ASSUME TypeOK, NEW r \in Request, NEW s \in Server, RequestBegins(r, s)
  PROVE  TypeOK'
<1>1. db[s].desired_state \in Desired /\ "STOPPED" \in Desired
  BY DEF TypeOK, Row, Desired
<1>2. {"prepare", "stop_inspect", "remove_inspect"} \subseteq DockerSteps
  BY DEF DockerSteps, StartSteps, StopSteps, RemoveSteps
<1>3. RuntimeTypes' /\ UNCHANGED <<rows, pass, tries, aborts>>
  BY <1>1, <1>2, BeginTyped DEF Begin, RequestBegins, StartRequest, RestartRequest, StopRequest,
     StopUiRequest, DeleteRequest
<1>4. quiet' \in [Server -> Quiet]
  BY DEF RequestBegins, StartRequest, RestartRequest, StopRequest, StopUiRequest,
     DeleteRequest, Disturb, MarkAlone, Quiet, TypeOK
<1>5. db' \in [Server -> Row]
  BY <1>1, SaveDesiredTyped DEF RequestBegins, StartRequest, RestartRequest, StopRequest,
     StopUiRequest, DeleteRequest, TypeOK
<1> QED BY <1>3, <1>4, <1>5 DEF RuntimeTypes, TypeOK

\* The second half of a handler keeps the types.
LEMMA RequestEndsTypes ==
  ASSUME TypeOK, NEW r \in Request, RequestEnds(r)
  PROVE  TypeOK'
<1> USE DEF StartDone, StopDone, StopUiFailed, RequestFailed, DeleteDone
<1>1. call[r] \in Call /\ call[r].server \in Server
  BY BusyCall DEF RequestEnds, Busy, Call, Request
<1>2. RuntimeTypes' /\ UNCHANGED <<pass, tries, aborts>>
  BY DEF RequestEnds, Finish, TypeOK, RuntimeTypes
<1>3. quiet' \in [Server -> Quiet]
  BY <1>1 DEF RequestEnds, Disturb, Settle, Quiet, TypeOK
<1>4. db' \in [Server -> Row] /\ rows' \subseteq Server
  <2>1. CASE StartDone(r) \/ StopDone(r) \/ StopUiFailed(r)
    BY <1>1, <2>1, SaveDesiredTyped DEF Desired, TypeOK
  <2>2. CASE RequestFailed(r) \/ DeleteDone(r)
    BY <1>1, <2>2, FreshRowTyped DEF TypeOK, tables
  <2> QED BY <2>1, <2>2 DEF RequestEnds
<1> QED BY <1>2, <1>3, <1>4 DEF RuntimeTypes, TypeOK

\* A capped counter is a number.
LEMMA CappedTyped ==
  ASSUME NEW n \in Nat, NEW max \in Nat
  PROVE  Capped(n, max) \in Nat
BY DEF Capped

\* The maintenance pass keeps the types while it looks at one server.
LEMMA SampleTypes ==
  ASSUME TypeOK, NEW s \in Server, Sample(s)
  PROVE  TypeOK'
<1>1. pass' \in [active : BOOLEAN, todo : SUBSET Server, sampled : SUBSET Server,
                 loaded : [Server -> Row], staged : [Server -> Row]]
  <2> DEFINE up == container[s] = "running"
             failures == IF up THEN 0
                         ELSE pass.loaded[s].restart_failures + (IF ShouldRetry(s) THEN 1 ELSE 0)
  <2>1. pass.loaded[s] \in Row /\ pass.staged[s] \in Row
    BY DEF TypeOK
  <2>2. failures \in 0..Limit
    BY <2>1, LimitAssumption DEF ShouldRetry, Row
  <2>3. [[pass.staged[s] EXCEPT !.restart_failures = failures] EXCEPT !.last_running = up] \in Row
    BY <2>1, <2>2 DEF Row
  <2>4. pass' = [pass EXCEPT !.todo = @ \ {s}, !.sampled = @ \cup {s},
                             !.staged[s].restart_failures = failures,
                             !.staged[s].last_running = up]
    BY DEF Sample
  <2> HIDE DEF failures, up
  <2> QED BY <2>3, <2>4 DEF TypeOK
<1>2. tries' \in [Server -> Nat]
  <2>0. tries[s] \in Nat /\ tries[s] + 1 \in Nat /\ Limit + MaxAborts + 1 \in Nat
    BY LimitAssumption DEF TypeOK
  <2>1. Capped(tries[s] + 1, Limit + MaxAborts + 1) \in Nat
    BY <2>0, CappedTyped
  <2> QED BY <2>0, <2>1 DEF Sample, TypeOK
<1>3. call' \in [Client -> Call \cup {Idle}]
  <2>1. [op |-> "auto_restart", server |-> s, seen |-> "RUNNING", pc |-> "prepare"] \in Call
    BY DEF Call, Operation, Desired, DockerSteps, StartSteps
  <2> QED BY <2>1, WorkerAssumption DEF Sample, TypeOK
<1> QED BY <1>1, <1>2, <1>3 DEF Sample, TypeOK, tables

\* The other steps of the maintenance pass keep the types.
LEMMA PassTypes ==
  ASSUME TypeOK, PassBegin \/ PassStep \/ PassRaises
  PROVE  TypeOK'
<1>1. CASE PassBegin
  BY <1>1, FreshRowTyped DEF PassBegin, TypeOK, Quiet, runtimeVars, tables
<1>2. ASSUME NEW s \in Server, Sample(s) PROVE TypeOK'
  BY <1>2, SampleTypes
<1>3. CASE AutoRestartReturns
  <2>1. call[Worker] \in Call /\ call[Worker].server \in Server
    BY <1>3, BusyCall, WorkerAssumption DEF AutoRestartReturns, Busy, Call
  <2>2. pass.staged[call[Worker].server] \in Row
    BY <2>1 DEF TypeOK
  <2>3. [pass.staged[call[Worker].server] EXCEPT !.last_running = (call[Worker].pc = "started")] \in Row
    BY <2>2 DEF Row
  <2>4. pass' \in [active : BOOLEAN, todo : SUBSET Server, sampled : SUBSET Server,
                   loaded : [Server -> Row], staged : [Server -> Row]]
    BY <1>3, <2>1, <2>3 DEF AutoRestartReturns, TypeOK
  <2> QED BY <1>3, <2>4 DEF AutoRestartReturns, Finish, TypeOK, tables, history
<1>4. CASE PassCommit
  <2>1. ASSUME NEW s \in Server PROVE db'[s] \in Row
    <3>1. /\ db[s] \in Row /\ pass.loaded[s] \in Row /\ pass.staged[s] \in Row
      BY DEF TypeOK
    <3>2. /\ Column(db[s].restart_failures, pass.loaded[s].restart_failures,
                    pass.staged[s].restart_failures) \in 0..Limit
          /\ Column(db[s].last_running, pass.loaded[s].last_running,
                    pass.staged[s].last_running) \in BOOLEAN
      BY <3>1 DEF Column, Row
    <3> QED BY <1>4, <3>1, <3>2 DEF PassCommit, Row
  <2>2. db' \in [Server -> Row]
    BY <1>4, <2>1 DEF PassCommit
  <2> QED BY <1>4, <2>2, NoPassTyped DEF PassCommit, TypeOK, runtimeVars, history
<1>5. CASE Abort
  <2>1. Capped(aborts + 1, MaxAborts) \in Nat
    BY CappedTyped, LimitAssumption DEF TypeOK
  <2> QED BY <1>5, <2>1, NoPassTyped DEF Abort, TypeOK, runtimeVars, tables
<1> QED BY <1>1, <1>2, <1>3, <1>4, <1>5 DEF PassStep, CommitFails, PassRaises

\* Every step keeps the types.
LEMMA NextTypes == TypeOK /\ [Next]_vars => TypeOK'
<1> SUFFICES ASSUME TypeOK, [Next]_vars PROVE TypeOK'
  OBVIOUS
<1>1. ASSUME NEW r \in Request, NEW s \in Server, RequestBegins(r, s) PROVE TypeOK'
  BY <1>1, RequestBeginsTypes
<1>2. ASSUME NEW r \in Request, RequestEnds(r) PROVE TypeOK'
  BY <1>2, RequestEndsTypes
<1>3. ASSUME NEW s \in Server, NEW on \in BOOLEAN, SetRestartPolicy(s, on) PROVE TypeOK'
  <2>1. db[s] \in Row
    BY DEF TypeOK
  <2>2. CASE on
    <3>1. [db[s] EXCEPT !.auto_restart = on] \in Row
      BY <2>1 DEF Row
    <3>2. db' = [db EXCEPT ![s] = [db[s] EXCEPT !.auto_restart = on]]
      BY <1>3, <2>1, <2>2 DEF SetRestartPolicy, Row, TypeOK
    <3> QED BY <1>3, <3>1, <3>2 DEF SetRestartPolicy, TypeOK, runtimeVars
  <2>3. CASE ~on
    <3>0. [db[s] EXCEPT !.auto_restart = on] \in Row /\ 0 \in 0..Limit
      BY <2>1, LimitAssumption DEF Row
    <3>1. [[db[s] EXCEPT !.auto_restart = on] EXCEPT !.restart_failures = 0] \in Row
      BY <3>0 DEF Row
    <3> QED BY <1>3, <2>3, <3>1 DEF SetRestartPolicy, TypeOK, runtimeVars
  <2> QED BY <2>2, <2>3
<1>4. ASSUME NEW s \in Server, InstallationCompleted(s) PROVE TypeOK'
  <2>0. db[s] \in Row
    BY DEF TypeOK
  <2>1. [db[s] EXCEPT !.installed = TRUE] \in Row
    BY <2>0 DEF Row
  <2> QED BY <1>4, <2>1 DEF InstallationCompleted, TypeOK, runtimeVars, history
<1>5. CASE PassBegin \/ PassStep \/ PassRaises
  BY <1>5, PassTypes
<1>6. ASSUME NEW c \in Client, RuntimeStep(c) \/ RuntimeFailure(c) PROVE TypeOK'
  BY <1>6, StepTypes DEF RuntimeStep, RuntimeFailure, RuntimeTypes, TypeOK, tables, history
<1>7. ASSUME NEW s \in Server, Crash(s) PROVE TypeOK'
  BY <1>7, ReleasedTyped DEF Crash, ContainerExits, ContainerState, TypeOK, tables, history
<1>8. CASE PanelRestarts
  <2>1. Capped(aborts + 1, MaxAborts) \in Nat
    BY CappedTyped, LimitAssumption DEF TypeOK
  <2> QED BY <1>8, <2>1, NoPassTyped DEF PanelRestarts, TypeOK, Quiet, tables
<1>9. CASE UNCHANGED vars
  BY <1>9 DEF vars, runtimeVars, tables, history, TypeOK
<1> QED BY <1>1, <1>2, <1>3, <1>4, <1>5, <1>6, <1>7, <1>8, <1>9 DEF Next

\* Every variable of the lifecycle keeps its type.
THEOREM TypeCorrect == Spec => []TypeOK
BY TypeInitial, NextTypes, PTL DEF Spec
-----------------------------------------------------------------------------
(* Where the calls are *)

\* Client d goes on with the same call, at step pc.
MovesTo(d, pc) == call'[d] = [call[d] EXCEPT !.pc = pc]

\* A moved call differs in its step only.
LEMMA Moved ==
  ASSUME TypeOK, NEW d \in Client, Busy(d), NEW pc, MovesTo(d, pc), pc # "idle"
  PROVE  /\ Busy(d)' /\ call'[d].pc = pc
         /\ call'[d].op = call[d].op
         /\ call'[d].server = call[d].server
         /\ call'[d].seen = call[d].seen
<1>1. call[d] \in Call
  BY BusyCall
<1> QED BY <1>1 DEF MovesTo, Busy, Call

\* A step of client c moves c within the steps of its operation, and releases
\* at most those who wait for the same container.
LEMMA StepMoves ==
  ASSUME TypeOK, CallsOK, NEW c \in Client, StepSucceeds(c) \/ CallFails(c)
  PROVE  /\ Busy(c)
         /\ \E pc \in StepsOf(call[c].op) : MovesTo(c, pc)
         /\ \A d \in Client \ {c} :
              \/ call'[d] = call[d]
              \/ /\ call[d].pc = "waiting" /\ call[d].server = call[c].server
                 /\ MovesTo(d, "stopped")
<1> USE DEF DockerSteps, StartSteps, StopSteps, RemoveSteps, MovesTo
<1>0. Busy(c)
  BY DEF StepSucceeds, CallFails, Busy, Prepare, Inspect, Launch, Replace, Create, StopInspect,
         SendStop, StopTimeout, RestartGoesOn, RemoveInspect, Remove, Archive
<1>1. call[c].pc \in StepsOf(call[c].op) /\ call[c].op \in Operation
  BY <1>0, BusyCall DEF CallsOK, Call
<1>2. ASSUME NEW pc \in StepsOf(call[c].op), GoTo(c, pc)
      PROVE  /\ \E q \in StepsOf(call[c].op) : MovesTo(c, q)
             /\ \A d \in Client \ {c} : call'[d] = call[d]
  BY <1>2 DEF GoTo, TypeOK
<1>3. CASE \E pc \in StepsOf(call[c].op) : GoTo(c, pc)
  BY <1>0, <1>2, <1>3
<1>4. CASE StopTimeout(c)
  <2>1. /\ MovesTo(c, "stopped")
        /\ \A d \in Client \ {c} :
             \/ call'[d] = call[d]
             \/ /\ call[d].pc = "waiting" /\ call[d].server = call[c].server
                /\ MovesTo(d, "stopped")
    BY <1>4 DEF StopTimeout, Released
  <2>2. "stopped" \in StepsOf(call[c].op)
    BY <1>1, <1>4 DEF StopTimeout, StepsOf, Operation
  <2> QED BY <1>0, <2>1, <2>2
<1>5. CASE RemoveInspect(c) /\ container[call[c].server] = "running"
  <2>1. call' = [d \in Client |-> IF d = c THEN [call[c] EXCEPT !.pc = "remove"]
                                  ELSE Released(call[c].server)[d]]
    BY <1>5 DEF RemoveInspect
  <2>2. "remove" \in StepsOf(call[c].op)
    BY <1>1, <1>5 DEF RemoveInspect, StepsOf, Operation
  <2>3. \A d \in Client \ {c} :
          \/ call'[d] = call[d]
          \/ /\ call[d].pc = "waiting" /\ call[d].server = call[c].server
             /\ MovesTo(d, "stopped")
    BY <2>1 DEF Released
  <2> QED BY <1>0, <2>1, <2>2, <2>3
<1>6. CASE Prepare(c) \/ Inspect(c) \/ Launch(c) \/ Replace(c) \/ Create(c)
  <2>1. StartSteps \cup {"started", "failed"} \subseteq StepsOf(call[c].op)
    BY <1>1, <1>6 DEF Prepare, Inspect, Launch, Replace, Create, StepsOf, Operation
  <2>2. \E pc \in StartSteps \cup {"started", "failed"} : GoTo(c, pc)
    BY <1>6 DEF Prepare, Inspect, Launch, Replace, Create
  <2> QED BY <1>3, <2>1, <2>2
<1>7. CASE StopInspect(c) \/ SendStop(c)
  <2>1. StopSteps \cup {"stopped", "failed"} \subseteq StepsOf(call[c].op)
    BY <1>1, <1>7 DEF StopInspect, SendStop, StepsOf, Operation
  <2>2. \E pc \in StopSteps \cup {"stopped", "failed"} : GoTo(c, pc)
    BY <1>7 DEF StopInspect, SendStop
  <2> QED BY <1>3, <2>1, <2>2
<1>8. CASE RestartGoesOn(c)
  BY <1>3, <1>8 DEF RestartGoesOn, StepsOf
<1>9. CASE \/ Remove(c) \/ Archive(c)
           \/ RemoveInspect(c) /\ container[call[c].server] # "running"
  <2>1. RemoveSteps \cup {"removed", "failed"} \subseteq StepsOf(call[c].op)
    BY <1>1, <1>9 DEF RemoveInspect, Remove, Archive, StepsOf, Operation
  <2>2. \E pc \in RemoveSteps \cup {"removed", "failed"} : GoTo(c, pc)
    BY <1>9 DEF RemoveInspect, Remove, Archive
  <2> QED BY <1>3, <2>1, <2>2
<1>10. CASE CallFails(c)
  <2>1. "failed" \in StepsOf(call[c].op)
    BY <1>1 DEF StepsOf
  <2> QED BY <1>3, <1>10, <2>1 DEF CallFails
<1> QED BY <1>4, <1>5, <1>6, <1>7, <1>8, <1>9, <1>10 DEF StepSucceeds

\* What CallsOK says of one client, and of the worker.
CallOK(c) == Busy(c) => /\ (c = Worker) <=> (call[c].op = "auto_restart")
                        /\ call[c].pc \in StepsOf(call[c].op)
WorkerOK == Busy(Worker) => LET s == call[Worker].server IN
              pass.active /\ s \in pass.sampled /\ pass.loaded[s].desired_state = "RUNNING"

\* A call that goes on stays among the steps of its operation.
LEMMA MovedOK ==
  ASSUME TypeOK, CallsOK, NEW d \in Client, Busy(d), NEW pc \in StepsOf(call[d].op), MovesTo(d, pc)
  PROVE  CallOK(d)' /\ call'[d].server = call[d].server
<1>1. pc # "idle"
  BY DEF StepsOf, StartSteps, StopSteps, RemoveSteps
<1> QED BY <1>1, Moved DEF CallsOK, CallOK

\* Who waits for a container is stopping it.
LEMMA Waiting ==
  ASSUME TypeOK, CallsOK, NEW d \in Client, call[d].pc = "waiting"
  PROVE  Busy(d) /\ call[d].op \in {"restart", "stop", "stop_ui"} /\ "stopped" \in StepsOf(call[d].op)
<1>1. Busy(d) /\ call[d].op \in Operation
  BY BusyCall DEF Busy, Call
<1> QED BY <1>1 DEF CallsOK, StepsOf, StartSteps, RemoveSteps, Operation

\* Calls that are carried on, or that are untouched, stay in order.
LEMMA CallsCarriedOn ==
  ASSUME TypeOK, CallsOK, UNCHANGED pass,
         \A d \in Client : \/ call'[d] = call[d]
                           \/ Busy(d) /\ \E pc \in StepsOf(call[d].op) : MovesTo(d, pc)
                           \/ call'[d] = Idle
  PROVE  CallsOK'
<1>1. ASSUME NEW d \in Client
      PROVE  CallOK(d)' /\ (Busy(d)' => Busy(d) /\ call'[d].server = call[d].server)
  <2>1. CASE call'[d] = call[d]
    BY <2>1 DEF CallsOK, CallOK, Busy
  <2>2. CASE Busy(d) /\ \E pc \in StepsOf(call[d].op) : MovesTo(d, pc)
    BY <2>2, MovedOK
  <2>3. CASE call'[d] = Idle
    BY <2>3 DEF CallOK, Busy, Idle
  <2> QED BY <2>1, <2>2, <2>3
<1>2. WorkerOK'
  BY <1>1, WorkerAssumption DEF CallsOK, WorkerOK
<1> QED BY <1>1, <1>2 DEF CallsOK, CallOK, WorkerOK

\* Every step keeps the calls of Docker among the steps of their operations.
LEMMA CallsOKNext == TypeOK /\ CallsOK /\ [Next]_vars => CallsOK'
<1> SUFFICES ASSUME TypeOK, CallsOK, [Next]_vars PROVE CallsOK'
  OBVIOUS
<1>1. ASSUME NEW r \in Request, NEW s \in Server, RequestBegins(r, s) PROVE CallsOK'
  <2>1. PICK op \in Handlers, pc \in {"prepare", "stop_inspect", "remove_inspect"}, seen \in Desired :
          /\ call' = [call EXCEPT ![r] = [op |-> op, server |-> s, seen |-> seen, pc |-> pc]]
          /\ pc \in StepsOf(op)
          /\ UNCHANGED pass
    BY <1>1 DEF RequestBegins, StartRequest, RestartRequest, StopRequest, StopUiRequest,
       DeleteRequest, Begin, StepsOf, StartSteps, StopSteps, RemoveSteps, TypeOK, Row, Desired
  <2>2. CallOK(r)'
    BY <2>1, HandlersAssumption DEF CallOK, Busy, Request, TypeOK
  <2>3. ASSUME NEW d \in Client, d # r PROVE CallOK(d)' /\ call'[d] = call[d]
    BY <2>1, <2>3 DEF CallOK, Busy, CallsOK, TypeOK
  <2>4. WorkerOK'
    BY <2>1, <2>3, WorkerAssumption DEF WorkerOK, CallsOK, Busy, Request
  <2> QED BY <2>2, <2>3, <2>4 DEF CallsOK, CallOK, WorkerOK
<1>2. ASSUME NEW r \in Request, RequestEnds(r) PROVE CallsOK'
  BY <1>2, CallsCarriedOn DEF RequestEnds, StartDone, StopDone, StopUiFailed, RequestFailed,
     DeleteDone, Finish, TypeOK
<1>3. ASSUME NEW s \in Server, NEW on \in BOOLEAN, SetRestartPolicy(s, on) PROVE CallsOK'
  BY <1>3 DEF SetRestartPolicy, runtimeVars, CallsOK, Busy
<1>4. ASSUME NEW s \in Server, InstallationCompleted(s) PROVE CallsOK'
  BY <1>4 DEF InstallationCompleted, runtimeVars, CallsOK, Busy
<1>5. CASE PassBegin
  BY <1>5 DEF PassBegin, runtimeVars, CallsOK, Busy
<1>6. ASSUME NEW s \in Server, Sample(s) PROVE CallsOK'
  <2>1. CASE ShouldRetry(s)
    <3>1. call' = [call EXCEPT ![Worker] =
                     [op |-> "auto_restart", server |-> s, seen |-> "RUNNING", pc |-> "prepare"]]
      BY <1>6, <2>1 DEF Sample
    <3>2. ASSUME NEW d \in Client PROVE CallOK(d)'
      BY <3>1 DEF CallOK, Busy, CallsOK, TypeOK, StepsOf, StartSteps
    <3>3. s \in pass'.sampled /\ pass'.loaded = pass.loaded /\ pass'.active = pass.active
      BY <1>6 DEF Sample, TypeOK
    <3>4. pass.active /\ pass.loaded[s].desired_state = "RUNNING"
      BY <1>6, <2>1 DEF Sample, ShouldRetry
    <3>5. WorkerOK'
      BY <3>1, <3>3, <3>4, WorkerAssumption DEF WorkerOK, TypeOK
    <3> QED BY <3>2, <3>5 DEF CallsOK, CallOK, WorkerOK
  <2>2. CASE ~ShouldRetry(s)
    BY <1>6, <2>2 DEF Sample, CallsOK, Busy
  <2> QED BY <2>1, <2>2
<1>7. CASE AutoRestartReturns
  <2>1. ~Busy(Worker)'
    BY <1>7, WorkerAssumption DEF AutoRestartReturns, Finish, Busy, Idle, TypeOK
  <2>2. ASSUME NEW d \in Client PROVE CallOK(d)'
    BY <1>7, <2>1 DEF AutoRestartReturns, Finish, CallOK, CallsOK, Busy, TypeOK
  <2> QED BY <2>1, <2>2 DEF CallsOK, CallOK, WorkerOK
<1>8. CASE PassCommit \/ CommitFails \/ PassRaises
  <2>1. ~Busy(Worker) /\ UNCHANGED call
    BY <1>8 DEF PassCommit, CommitFails, PassRaises, PassFinished, Abort, runtimeVars
  <2> QED BY <2>1 DEF CallsOK, Busy
<1>9. ASSUME NEW c \in Client, RuntimeStep(c) \/ RuntimeFailure(c) PROVE CallsOK'
  BY <1>9, StepMoves, Waiting, CallsCarriedOn DEF RuntimeStep, RuntimeFailure
<1>10. ASSUME NEW s \in Server, Crash(s) PROVE CallsOK'
  <2>1. ASSUME NEW d \in Client
        PROVE  \/ call'[d] = call[d]
               \/ Busy(d) /\ \E pc \in StepsOf(call[d].op) : MovesTo(d, pc)
    BY <1>10, Waiting DEF Crash, ContainerExits, Released, MovesTo
  <2> QED BY <1>10, <2>1, CallsCarriedOn DEF Crash
<1>11. CASE PanelRestarts
  BY <1>11, WorkerAssumption DEF PanelRestarts, CallsOK, Busy, Idle
<1>12. CASE UNCHANGED vars
  BY <1>12 DEF vars, runtimeVars, CallsOK, Busy
<1> QED BY <1>1, <1>2, <1>3, <1>4, <1>5, <1>6, <1>7, <1>8, <1>9, <1>10, <1>11, <1>12
        DEF Next, PassStep
-----------------------------------------------------------------------------
(* Stops and deletions that nothing disturbs *)

\* The step does nothing to what QuietOK says of s.
SameFor(s) ==
  /\ quiet'[s] = quiet[s]
  /\ s \in rows' <=> s \in rows
  /\ db'[s].desired_state = db[s].desired_state
  /\ container'[s] = container[s]
  /\ s \in directory' <=> s \in directory
  /\ \A c \in Client : /\ WorksOn(c, s)' <=> WorksOn(c, s)
                       /\ WorksOn(c, s) => call'[c] = call[c]
  /\ HeldByPass(s)' => /\ HeldByPass(s)
                       /\ pass'.loaded[s].desired_state = pass.loaded[s].desired_state

\* The request that QuietOK promises for an operation under way.
StopsAlone(r, s) ==
  /\ WorksOn(r, s) /\ Alone(r, s)
  /\ call[r].op \in {"stop", "stop_ui"}
  /\ call[r].seen = db[s].desired_state
  /\ call[r].op = "stop_ui" => db[s].desired_state = "STOPPED"
  /\ call[r].pc = "stopped" => container[s] # "running"

DeletesAlone(r, s) ==
  /\ WorksOn(r, s) /\ Alone(r, s)
  /\ call[r].op = "delete"
  /\ call[r].pc \in {"archive", "removed"} => container[s] = "not_created"
  /\ call[r].pc = "removed" => s \notin directory

StoppedOK(s) ==
  /\ s \in rows /\ Nobody(s)
  /\ db[s].desired_state = "STOPPED"
  /\ container[s] # "running"
  /\ HeldByPass(s) => pass.loaded[s].desired_state = "STOPPED"

DeletedOK(s) ==
  /\ s \notin rows /\ Nobody(s) /\ ~HeldByPass(s)
  /\ container[s] = "not_created" /\ s \notin directory

\* A step that does not concern a server keeps its promises.
LEMMA Unaffected ==
  ASSUME NEW s \in Server, QuietOK(s), SameFor(s)
  PROVE  QuietOK(s)'
<1>1. ASSUME NEW r \in Request, StopsAlone(r, s) PROVE StopsAlone(r, s)'
  BY <1>1 DEF SameFor, StopsAlone, Alone, Request
<1>2. ASSUME NEW r \in Request, DeletesAlone(r, s) PROVE DeletesAlone(r, s)'
  BY <1>2 DEF SameFor, DeletesAlone, Alone, Request
<1>3. StoppedOK(s) => StoppedOK(s)'
  BY DEF SameFor, StoppedOK, Nobody
<1>4. DeletedOK(s) => DeletedOK(s)'
  BY DEF SameFor, DeletedOK, Nobody
<1>5. quiet'[s] = quiet[s] /\ (s \in rows' <=> s \in rows)
  BY DEF SameFor
<1> QED BY <1>1, <1>2, <1>3, <1>4, <1>5
        DEF QuietOK, StopsAlone, DeletesAlone, StoppedOK, DeletedOK

\* A request that begins disturbs what it may, and is known to.
LEMMA QuietBegins ==
  ASSUME TypeOK, CallsOK, NEW s \in Server, QuietOK(s),
         NEW r \in Request, NEW u \in Server, RequestBegins(r, u)
  PROVE  QuietOK(s)'
<1>1. PICK op \in Handlers, pc \in {"prepare", "stop_inspect", "remove_inspect"}, seen \in Desired :
        /\ ~Busy(r) /\ u \in rows
        /\ call' = [call EXCEPT ![r] = [op |-> op, server |-> u, seen |-> seen, pc |-> pc]]
        /\ UNCHANGED <<container, directory, rows, pass>>
  BY DEF RequestBegins, StartRequest, RestartRequest, StopRequest, StopUiRequest,
     DeleteRequest, Begin, TypeOK, Row, Desired
<1>2. \A c \in Client \ {r} : call'[c] = call[c]
  BY <1>1 DEF TypeOK
<1>3. call'[r] = [op |-> op, server |-> u, seen |-> seen, pc |-> pc]
  BY <1>1 DEF TypeOK, Request
<1>4. CASE s # u
  <2>1. quiet'[s] = quiet[s] /\ db'[s] = db[s]
    BY <1>4 DEF RequestBegins, StartRequest, RestartRequest, StopRequest, StopUiRequest,
       DeleteRequest, Disturb, MarkAlone, SaveDesired, TypeOK
  <2>2. SameFor(s)
    BY <1>1, <1>2, <1>3, <1>4, <2>1 DEF SameFor, WorksOn, Busy, HeldByPass
  <2> QED BY <2>2, Unaffected
<1>5. CASE s = u
  <2>1. CASE quiet'[s] = "none"
    BY <2>1 DEF QuietOK
  <2>2. CASE quiet'[s] # "none"
    <3>1. Alone(r, s)
      BY <1>5, <2>2 DEF RequestBegins, StartRequest, RestartRequest, StopRequest, StopUiRequest,
         DeleteRequest, Disturb, MarkAlone, TypeOK
    <3>2. Alone(r, s)' /\ WorksOn(r, s)' /\ s \in rows'
      BY <1>1, <1>2, <1>3, <1>5, <3>1 DEF Alone, WorksOn, Busy, HeldByPass, Request
    <3>3. CASE StopRequest(r, s)
      <4>1. quiet'[s] = "stopping"
        BY <3>1, <3>3 DEF StopRequest, MarkAlone, TypeOK
      <4>2. StopsAlone(r, s)'
        BY <3>2, <3>3 DEF StopRequest, Begin, StopsAlone, TypeOK, Request
      <4> QED BY <3>2, <4>1, <4>2 DEF QuietOK, StopsAlone
    <3>4. CASE StopUiRequest(r, s)
      <4>1. quiet'[s] = "stopping"
        BY <3>1, <3>4 DEF StopUiRequest, MarkAlone, TypeOK
      <4>2. db'[s].desired_state = "STOPPED"
        BY <1>1, <1>5, <3>4 DEF StopUiRequest, SaveDesired, TypeOK, Row
      <4>3. StopsAlone(r, s)'
        BY <3>2, <3>4, <4>2 DEF StopUiRequest, Begin, StopsAlone, TypeOK, Request
      <4> QED BY <3>2, <4>1, <4>3 DEF QuietOK, StopsAlone
    <3>5. CASE DeleteRequest(r, s)
      <4>1. quiet'[s] = "deleting"
        BY <3>1, <3>5 DEF DeleteRequest, MarkAlone, TypeOK
      <4>2. DeletesAlone(r, s)'
        BY <3>2, <3>5 DEF DeleteRequest, Begin, DeletesAlone, TypeOK, Request
      <4> QED BY <3>2, <4>1, <4>2 DEF QuietOK, DeletesAlone
    <3>6. CASE StartRequest(r, s) \/ RestartRequest(r, s)
      BY <2>2, <3>6 DEF StartRequest, RestartRequest, Disturb, TypeOK
    <3> QED BY <1>5, <3>3, <3>4, <3>5, <3>6 DEF RequestBegins
  <2> QED BY <2>1, <2>2
<1> QED BY <1>4, <1>5

\* While r is alone with s, nobody else ends or moves a call on s.
LEMMA OnlyOne ==
  ASSUME NEW s \in Server, NEW r \in Client, NEW q \in Client, Alone(r, s), WorksOn(q, s)
  PROVE  q = r
BY DEF Alone

\* The end of a request keeps the promises about quiet stops and deletions.
LEMMA QuietEnds ==
  ASSUME TypeOK, CallsOK, NEW s \in Server, QuietOK(s), NEW r \in Request, RequestEnds(r)
  PROVE  QuietOK(s)'
<1> DEFINE u == call[r].server
<1> USE DEF StartDone, StopDone, StopUiFailed, RequestFailed, DeleteDone
<1>1. /\ Busy(r) /\ u \in Server /\ call'[r] = Idle
      /\ \A c \in Client \ {r} : call'[c] = call[c]
      /\ UNCHANGED <<container, directory, pass>>
  BY BusyCall DEF RequestEnds, Busy, Call, Request, Finish, TypeOK
<1>2. ~WorksOn(r, s)'
  BY <1>1 DEF WorksOn, Busy, Idle
<1>3. CASE s # u
  <2>1. /\ quiet'[s] = quiet[s] /\ db'[s] = db[s]
        /\ s \in rows' <=> s \in rows
    BY <1>1, <1>3 DEF RequestEnds, Disturb, Settle, SaveDesired, tables, TypeOK
  <2>2. SameFor(s)
    BY <1>1, <1>2, <1>3, <2>1 DEF SameFor, WorksOn, Busy, HeldByPass
  <2> QED BY <2>2, Unaffected
<1>4. CASE s = u
  <2>0. WorksOn(r, s)
    BY <1>1, <1>4 DEF WorksOn
  <2>1. CASE quiet'[s] = "none"
    BY <2>1 DEF QuietOK
  <2>2. CASE StopDone(r) /\ quiet'[s] # "none"
    <3>1. quiet[s] = "stopping" /\ quiet'[s] = "stopped"
      BY <1>4, <2>2 DEF Settle, TypeOK
    <3>2. PICK q \in Request : s \in rows /\ StopsAlone(q, s)
      BY <3>1 DEF QuietOK, StopsAlone
    <3>3. q = r
      BY <2>0, <3>2, OnlyOne DEF StopsAlone, Request
    <3>4. db'[s].desired_state = "STOPPED" /\ rows' = rows
      BY <1>4, <2>2, <3>2, <3>3 DEF StopsAlone, SaveDesired, TypeOK, Row
    <3>5. container[s] # "running" /\ ~HeldByPass(s)
      BY <2>2, <3>2, <3>3 DEF StopsAlone, Alone
    <3>6. Nobody(s)'
      BY <1>1, <1>2, <3>2, <3>3 DEF Nobody, WorksOn, Busy, StopsAlone, Alone
    <3>7. StoppedOK(s)'
      BY <1>1, <3>2, <3>4, <3>5, <3>6 DEF StoppedOK, HeldByPass
    <3> QED BY <3>1, <3>7 DEF QuietOK, StoppedOK
  <2>3. CASE DeleteDone(r) /\ quiet'[s] # "none"
    <3>1. quiet[s] = "deleting" /\ quiet'[s] = "deleted"
      BY <1>4, <2>3 DEF Settle, TypeOK
    <3>2. PICK q \in Request : s \in rows /\ DeletesAlone(q, s)
      BY <3>1 DEF QuietOK, DeletesAlone
    <3>3. q = r
      BY <2>0, <3>2, OnlyOne DEF DeletesAlone, Request
    <3>4. s \notin rows' /\ container[s] = "not_created" /\ s \notin directory /\ ~HeldByPass(s)
      BY <1>4, <2>3, <3>2, <3>3 DEF DeletesAlone, Alone
    <3>5. Nobody(s)'
      BY <1>1, <1>2, <3>2, <3>3 DEF Nobody, WorksOn, Busy, DeletesAlone, Alone
    <3>6. DeletedOK(s)'
      BY <1>1, <3>4, <3>5 DEF DeletedOK, HeldByPass
    <3> QED BY <3>1, <3>6 DEF QuietOK, DeletedOK
  <2>4. CASE StartDone(r) \/ StopUiFailed(r) \/ RequestFailed(r)
    BY <1>1, <1>4, <2>1, <2>4 DEF Disturb, TypeOK
  <2> QED BY <2>1, <2>2, <2>3, <2>4 DEF RequestEnds
<1> QED BY <1>3, <1>4

\* The maintenance pass keeps them.
LEMMA QuietPass ==
  ASSUME TypeOK, CallsOK, NEW s \in Server, QuietOK(s), PassBegin \/ PassStep \/ PassRaises
  PROVE  QuietOK(s)'
<1>1. CASE PassBegin
  <2>0. /\ UNCHANGED <<call, container, directory, rows, db>>
        /\ quiet'[s] = IF s \in rows /\ quiet[s] \in {"stopping", "deleting"} THEN "none" ELSE quiet[s]
        /\ s \notin rows => ~HeldByPass(s)'
        /\ s \in rows => pass'.loaded[s] = db[s]
    BY <1>1 DEF PassBegin, runtimeVars, tables, HeldByPass
  <2>1. CASE quiet'[s] = "none"
    BY <2>1 DEF QuietOK
  <2>2. CASE quiet[s] = "stopped"
    <3>1. StoppedOK(s)'
      BY <2>0, <2>2 DEF QuietOK, StoppedOK, Nobody, WorksOn, Busy
    <3> QED BY <2>0, <2>2, <3>1 DEF QuietOK, StoppedOK
  <2>3. CASE quiet[s] = "deleted"
    <3>1. DeletedOK(s)'
      BY <2>0, <2>3 DEF QuietOK, DeletedOK, Nobody, WorksOn, Busy
    <3> QED BY <2>0, <2>3, <3>1 DEF QuietOK, DeletedOK
  <2>4. quiet'[s] = "none" \/ quiet[s] \in {"stopped", "deleted"}
    BY <2>0 DEF QuietOK, TypeOK, Quiet
  <2> QED BY <2>1, <2>2, <2>3, <2>4
<1>2. ASSUME NEW u \in Server, Sample(u) PROVE QuietOK(s)'
  <2>1. /\ UNCHANGED <<container, directory, rows, db, quiet>>
        /\ HeldByPass(s)' <=> HeldByPass(s)
        /\ pass'.loaded = pass.loaded
    BY <1>2 DEF Sample, tables, TypeOK, HeldByPass
  <2>2. CASE ~ShouldRetry(u) \/ s # u
    <3>1. \A c \in Client : /\ WorksOn(c, s)' <=> WorksOn(c, s)
                            /\ WorksOn(c, s) => call'[c] = call[c]
      BY <1>2, <2>2 DEF Sample, WorksOn, Busy, TypeOK
    <3> QED BY <2>1, <3>1, Unaffected DEF SameFor
  <2>3. CASE ShouldRetry(s) /\ s = u
    <3>1. HeldByPass(s) /\ pass.loaded[s].desired_state = "RUNNING"
      BY <1>2, <2>3 DEF Sample, HeldByPass, ShouldRetry
    <3>2. quiet[s] = "none"
      BY <3>1 DEF QuietOK, Alone, TypeOK, Quiet
    <3> QED BY <2>1, <3>2 DEF QuietOK
  <2> QED BY <2>2, <2>3
<1>3. CASE AutoRestartReturns
  <2>1. /\ UNCHANGED <<container, directory, rows, db, quiet>>
        /\ HeldByPass(s)' <=> HeldByPass(s)
        /\ pass'.loaded = pass.loaded
        /\ call' = [call EXCEPT ![Worker] = Idle]
    BY <1>3 DEF AutoRestartReturns, Finish, tables, history, TypeOK, HeldByPass
  <2>2. CASE ~WorksOn(Worker, s)
    <3>1. SameFor(s)
      BY <2>1, <2>2 DEF SameFor, WorksOn, Busy, Idle, TypeOK
    <3> QED BY <3>1, Unaffected
  <2>3. CASE WorksOn(Worker, s)
    <3>1. quiet[s] = "none"
      BY <2>3, WorkerAssumption DEF QuietOK, Alone, Nobody, Request, TypeOK, Quiet
    <3> QED BY <2>1, <3>1 DEF QuietOK
  <2> QED BY <2>2, <2>3
<1>4. CASE PassCommit
  <2>1. /\ UNCHANGED <<call, container, directory, rows, quiet>> /\ ~HeldByPass(s)'
    BY <1>4 DEF PassCommit, runtimeVars, history, HeldByPass, NoPass
  <2>2. db'[s].desired_state = db[s].desired_state
    <3> DEFINE
      Counted == [db[s] EXCEPT
        !.restart_failures = Column(@, pass.loaded[s].restart_failures, pass.staged[s].restart_failures),
        !.last_running = Column(@, pass.loaded[s].last_running, pass.staged[s].last_running)]
    <3>1. db'[s] = Counted \/ db'[s] = db[s]
      BY <1>4, Zenon DEF PassCommit
    <3>2. db[s] \in Row
      BY DEF TypeOK
    <3>3. Counted.desired_state = db[s].desired_state
      BY <3>2 DEF Row
    <3> HIDE DEF Counted
    <3> QED BY <3>1, <3>3, Zenon
  <2>3. SameFor(s)
    BY <2>1, <2>2 DEF SameFor, WorksOn, Busy
  <2> QED BY <2>3, Unaffected
<1>5. CASE Abort
  <2>1. /\ UNCHANGED <<call, container, directory, rows, db, quiet>> /\ ~HeldByPass(s)'
    BY <1>5 DEF Abort, runtimeVars, tables, HeldByPass, NoPass
  <2>2. SameFor(s)
    BY <2>1 DEF SameFor, WorksOn, Busy
  <2> QED BY <2>2, Unaffected
<1> QED BY <1>1, <1>2, <1>3, <1>4, <1>5 DEF PassStep, CommitFails, PassRaises

\* A step changes the container and the directory of its own server only.
LEMMA StepIsLocal ==
  ASSUME TypeOK, NEW c \in Client, StepSucceeds(c) \/ CallFails(c), Busy(c),
         NEW s \in Server, s # call[c].server
  PROVE  container'[s] = container[s] /\ (s \in directory' <=> s \in directory)
BY BusyCall DEF StepSucceeds, CallFails, Prepare, Inspect, Launch, Replace, Create, StopInspect,
   SendStop, StopTimeout, RestartGoesOn, RemoveInspect, Remove, Archive, TypeOK, Call

\* A call that goes on is at its next step.
LEMMA GoToPc ==
  ASSUME TypeOK, NEW c \in Client, Busy(c), NEW pc, GoTo(c, pc)
  PROVE  call'[c].pc = pc
BY BusyCall DEF GoTo, TypeOK, Call

\* The steps of the runtime keep them, and so do its failures.
LEMMA QuietStep ==
  ASSUME TypeOK, CallsOK, NEW s \in Server, QuietOK(s), NEW c \in Client,
         RuntimeStep(c) \/ RuntimeFailure(c)
  PROVE  QuietOK(s)'
<1> DEFINE u == call[c].server
<1>1. /\ StepSucceeds(c) \/ CallFails(c)
      /\ UNCHANGED <<rows, db, pass, quiet>>
  BY DEF RuntimeStep, RuntimeFailure, tables, history
<1>2. PICK pc \in StepsOf(call[c].op) : MovesTo(c, pc)
  BY <1>1, StepMoves
<1>3. /\ Busy(c)
      /\ \A d \in Client \ {c} :
           \/ call'[d] = call[d]
           \/ /\ call[d].pc = "waiting" /\ call[d].server = u
              /\ MovesTo(d, "stopped")
  BY <1>1, StepMoves
<1>4. /\ Busy(c)' /\ call'[c].pc = pc /\ call'[c].op = call[c].op
      /\ call'[c].server = u /\ call'[c].seen = call[c].seen
  <2>1. pc # "idle"
    BY DEF StepsOf, StartSteps, StopSteps, RemoveSteps
  <2> QED BY <1>2, <1>3, <2>1, Moved
<1>5. ASSUME NEW d \in Client PROVE (WorksOn(d, s)' <=> WorksOn(d, s))
  <2>1. CASE d = c
    BY <1>3, <1>4, <2>1 DEF WorksOn
  <2>2. CASE call'[d] = call[d]
    BY <2>2 DEF WorksOn, Busy
  <2>3. CASE call[d].pc = "waiting" /\ MovesTo(d, "stopped")
    <3>1. Busy(d)
      BY <2>3 DEF Busy
    <3>2. Busy(d)' /\ call'[d].server = call[d].server
      BY <2>3, <3>1, Moved
    <3> QED BY <3>1, <3>2 DEF WorksOn
  <2> QED BY <1>3, <2>1, <2>2, <2>3
<1>6. CASE s # u
  <2>1. \A d \in Client : WorksOn(d, s) => call'[d] = call[d]
    BY <1>3, <1>6 DEF WorksOn
  <2>2. container'[s] = container[s] /\ (s \in directory' <=> s \in directory)
    BY <1>1, <1>3, <1>6, StepIsLocal
  <2>3. SameFor(s)
    BY <1>1, <1>5, <2>1, <2>2 DEF SameFor, HeldByPass
  <2> QED BY <2>3, Unaffected
<1>7. CASE s = u
  <2>0. WorksOn(c, s)
    BY <1>3, <1>7 DEF WorksOn
  <2>1. CASE quiet[s] = "stopping"
    <3>1. PICK q \in Request : s \in rows /\ StopsAlone(q, s)
      BY <2>1 DEF QuietOK, StopsAlone
    <3>2. q = c
      BY <2>0, <3>1, OnlyOne DEF StopsAlone, Request
    <3>3. Alone(q, s)' /\ WorksOn(q, s)'
      BY <1>1, <1>5, <3>1 DEF StopsAlone, Alone, HeldByPass, Request
    <3>4. call[c].pc \in StopSteps \cup {"stopped", "failed"} /\ call[c].op # "restart"
      BY <1>3, <3>1, <3>2 DEF CallsOK, StopsAlone, StepsOf
    <3>5. pc = "stopped" => container'[s] # "running"
      <4>1. CASE StopInspect(c) \/ SendStop(c) \/ CallFails(c)
        BY <1>3, <1>4, <1>7, <4>1, GoToPc DEF StopInspect, SendStop, CallFails
      <4>2. CASE StopTimeout(c)
        BY <1>3, <1>7, <4>2, BusyCall DEF StopTimeout, TypeOK, Call
      <4> QED BY <1>1, <3>4, <4>1, <4>2 DEF StepSucceeds, StopSteps, Prepare, Inspect, Launch,
              Replace, Create, RestartGoesOn, RemoveInspect, Remove, Archive
    <3>6. StopsAlone(q, s)'
      BY <1>1, <1>4, <3>1, <3>2, <3>3, <3>5 DEF StopsAlone
    <3> QED BY <1>1, <2>1, <3>1, <3>6 DEF QuietOK, StopsAlone
  <2>2. CASE quiet[s] = "deleting"
    <3>1. PICK q \in Request : s \in rows /\ DeletesAlone(q, s)
      BY <2>2 DEF QuietOK, DeletesAlone
    <3>2. q = c
      BY <2>0, <3>1, OnlyOne DEF DeletesAlone, Request
    <3>3. Alone(q, s)' /\ WorksOn(q, s)'
      BY <1>1, <1>5, <3>1 DEF DeletesAlone, Alone, HeldByPass, Request
    <3>4. call[c].pc \in RemoveSteps \cup {"removed", "failed"}
      BY <1>3, <3>1, <3>2 DEF CallsOK, DeletesAlone, StepsOf
    <3>5. /\ pc \in {"archive", "removed"} => container'[s] = "not_created"
          /\ pc = "removed" => s \notin directory'
      <4>1. CASE Remove(c) \/ CallFails(c)
        BY <1>3, <1>4, <1>7, <4>1, GoToPc DEF Remove, CallFails, TypeOK
      <4>0. CASE RemoveInspect(c)
        <5>1. CASE container[s] = "running"
          <6>1. MovesTo(c, "remove")
            BY <1>7, <4>0, <5>1 DEF RemoveInspect, MovesTo
          <6> QED BY <1>3, <1>4, <6>1, Moved
        <5>2. CASE container[s] # "running"
          BY <1>3, <1>4, <1>7, <4>0, <5>2, GoToPc DEF RemoveInspect
        <5> QED BY <5>1, <5>2
      <4>2. CASE Archive(c)
        BY <1>7, <3>1, <3>2, <4>2 DEF Archive, DeletesAlone
      <4> QED BY <1>1, <3>4, <4>0, <4>1, <4>2 DEF StepSucceeds, RemoveSteps, Prepare, Inspect, Launch,
              Replace, Create, StopInspect, SendStop, StopTimeout, RestartGoesOn
    <3>6. DeletesAlone(q, s)'
      BY <1>1, <1>4, <3>1, <3>2, <3>3, <3>5 DEF DeletesAlone
    <3> QED BY <1>1, <2>2, <3>1, <3>6 DEF QuietOK, DeletesAlone
  <2>3. CASE quiet[s] = "none"
    BY <1>1, <2>3 DEF QuietOK
  <2>4. quiet[s] \notin {"stopped", "deleted"}
    BY <2>0 DEF QuietOK, Nobody
  <2> QED BY <2>1, <2>2, <2>3, <2>4 DEF TypeOK, Quiet
<1> QED BY <1>6, <1>7

\* A crash of a container keeps them.
LEMMA QuietCrash ==
  ASSUME TypeOK, CallsOK, NEW s \in Server, QuietOK(s), NEW u \in Server, Crash(u)
  PROVE  QuietOK(s)'
<1>1. /\ UNCHANGED <<rows, db, pass, quiet, directory>>
      /\ container[u] = "running" /\ container'[u] = "exited"
      /\ \A v \in Server \ {u} : container'[v] = container[v]
      /\ call' = Released(u)
  BY DEF Crash, ContainerExits, tables, history, TypeOK
<1>2. ASSUME NEW d \in Client
      PROVE  /\ WorksOn(d, s)' <=> WorksOn(d, s)
             /\ WorksOn(d, s) => /\ call'[d].op = call[d].op
                                 /\ call'[d].seen = call[d].seen
                                 /\ \/ call'[d] = call[d]
                                    \/ s = u /\ call'[d].pc = "stopped"
  <2>1. CASE call[d].pc = "waiting" /\ call[d].server = u
    <3>1. MovesTo(d, "stopped") /\ Busy(d)
      BY <1>1, <2>1 DEF Released, MovesTo, Busy
    <3>2. /\ Busy(d)' /\ call'[d].pc = "stopped"
          /\ call'[d].op = call[d].op
          /\ call'[d].server = call[d].server
          /\ call'[d].seen = call[d].seen
      BY <3>1, Moved
    <3> QED BY <2>1, <3>1, <3>2 DEF WorksOn
  <2>2. CASE ~(call[d].pc = "waiting" /\ call[d].server = u)
    BY <1>1, <2>2 DEF Released, WorksOn, Busy
  <2> QED BY <2>1, <2>2
<1>3. CASE s # u
  <2>1. SameFor(s)
    BY <1>1, <1>2, <1>3 DEF SameFor, HeldByPass
  <2> QED BY <2>1, Unaffected
<1>4. CASE s = u
  <2>1. ASSUME NEW r \in Request, StopsAlone(r, s) PROVE StopsAlone(r, s)'
    BY <1>1, <1>2, <1>4, <2>1 DEF StopsAlone, Alone, HeldByPass, Request
  <2>2. ASSUME NEW r \in Request, DeletesAlone(r, s) PROVE DeletesAlone(r, s)'
    <3>1. call[r].pc \notin {"archive", "removed"} /\ call[r].pc \in RemoveSteps \cup {"failed"}
      BY <1>1, <1>4, <2>2 DEF DeletesAlone, CallsOK, StepsOf, WorksOn, Request
    <3>2. call'[r] = call[r]
      BY <1>1, <3>1 DEF Released, RemoveSteps, Request
    <3> QED BY <1>1, <1>2, <2>2, <3>1, <3>2 DEF DeletesAlone, Alone, HeldByPass, Request
  <2>3. quiet[s] \notin {"deleted"} /\ (quiet[s] = "stopped" => FALSE)
    BY <1>1, <1>4 DEF QuietOK
  <2> QED BY <1>1, <2>1, <2>2, <2>3 DEF QuietOK, StopsAlone, DeletesAlone
<1> QED BY <1>3, <1>4

\* Every step keeps them.
LEMMA QuietNext ==
  TypeOK /\ CallsOK /\ (\A s \in Server : QuietOK(s)) /\ [Next]_vars
    => (\A s \in Server : QuietOK(s))'
<1> SUFFICES ASSUME TypeOK, CallsOK, [Next]_vars, NEW s \in Server, QuietOK(s)
             PROVE  QuietOK(s)'
  OBVIOUS
<1>1. ASSUME NEW r \in Request, NEW u \in Server, RequestBegins(r, u) PROVE QuietOK(s)'
  BY <1>1, QuietBegins
<1>2. ASSUME NEW r \in Request, RequestEnds(r) PROVE QuietOK(s)'
  BY <1>2, QuietEnds
<1>3. ASSUME NEW u \in Server, NEW on \in BOOLEAN, SetRestartPolicy(u, on) PROVE QuietOK(s)'
  <2>1. db'[s].desired_state = db[s].desired_state
    BY <1>3 DEF SetRestartPolicy, TypeOK, Row
  <2> QED BY <1>3, <2>1, Unaffected DEF SetRestartPolicy, SameFor, runtimeVars, WorksOn, Busy, HeldByPass
<1>4. ASSUME NEW u \in Server, InstallationCompleted(u) PROVE QuietOK(s)'
  <2>1. db'[s].desired_state = db[s].desired_state
    BY <1>4 DEF InstallationCompleted, TypeOK, Row
  <2> QED BY <1>4, <2>1, Unaffected DEF InstallationCompleted, SameFor, runtimeVars, history, WorksOn,
          Busy, HeldByPass
<1>5. CASE PassBegin \/ PassStep \/ PassRaises
  BY <1>5, QuietPass
<1>6. ASSUME NEW c \in Client, RuntimeStep(c) \/ RuntimeFailure(c) PROVE QuietOK(s)'
  BY <1>6, QuietStep
<1>7. ASSUME NEW u \in Server, Crash(u) PROVE QuietOK(s)'
  BY <1>7, QuietCrash
<1>8. CASE PanelRestarts
  <2>1. /\ UNCHANGED <<container, directory, rows, db>>
        /\ Nobody(s)' /\ ~HeldByPass(s)'
        /\ quiet'[s] = IF quiet[s] \in {"stopping", "deleting"} THEN "none" ELSE quiet[s]
    BY <1>8 DEF PanelRestarts, tables, Nobody, WorksOn, Busy, Idle, HeldByPass, NoPass
  <2> QED BY <2>1 DEF QuietOK
<1>9. CASE UNCHANGED vars
  BY <1>9, Unaffected DEF vars, runtimeVars, tables, history, SameFor, WorksOn, Busy, HeldByPass
<1> QED BY <1>1, <1>2, <1>3, <1>4, <1>5, <1>6, <1>7, <1>8, <1>9 DEF Next

\* Initially no call runs and nothing was stopped or deleted.
LEMMA QuietInitial == Init => CallsOK /\ \A s \in Server : QuietOK(s)
BY WorkerAssumption DEF Init, RuntimeInit, CallsOK, Busy, Idle, QuietOK

\* Every call of Docker is at a step of its operation, and what a quiet stop or
\* deletion relies on holds in every reachable state.
THEOREM QuietCorrect == Spec => [](CallsOK /\ \A s \in Server : QuietOK(s))
BY QuietInitial, QuietNext, CallsOKNext, TypeCorrect, PTL DEF Spec

\* Whatever else goes on in the panel, a server that was stopped with nothing
\* disturbing the stop stays stopped until the next request for it.
THEOREM QuietStop == Spec => []QuietStopHolds
<1>1. (CallsOK /\ \A s \in Server : QuietOK(s)) => QuietStopHolds
  BY DEF QuietOK, QuietStopHolds
<1> QED BY <1>1, QuietCorrect, PTL

\* A deletion that nothing disturbed leaves nothing behind, for good.
THEOREM QuietDelete == Spec => []QuietDeleteHolds
<1>1. (CallsOK /\ \A s \in Server : QuietOK(s)) => QuietDeleteHolds
  BY DEF QuietOK, QuietDeleteHolds
<1> QED BY <1>1, QuietCorrect, PTL
-----------------------------------------------------------------------------
(* How often a server is restarted automatically *)

\* The step does nothing to what AttemptsOK says of s.
SameCount(s) ==
  /\ aborts' = aborts
  /\ tries'[s] = tries[s]
  /\ db'[s].restart_failures = db[s].restart_failures
  /\ s \in rows' <=> s \in rows
  /\ pass'.active = pass.active
  /\ s \in pass'.todo <=> s \in pass.todo
  /\ s \in pass'.sampled <=> s \in pass.sampled
  /\ pass'.loaded[s].restart_failures = pass.loaded[s].restart_failures
  /\ pass'.staged[s].restart_failures = pass.staged[s].restart_failures

\* A step that leaves the counters of a server alone keeps its count of
\* attempts.
LEMMA CountUnaffected ==
  ASSUME NEW s \in Server, AttemptsOK(s), SameCount(s)
  PROVE  AttemptsOK(s)'
BY DEF AttemptsOK, SameCount, HeldByPass

\* The numbers AttemptsOK speaks about.
LEMMA CountTypes ==
  ASSUME TypeOK, NEW s \in Server
  PROVE  /\ db[s].restart_failures \in 0..Limit
         /\ pass.loaded[s].restart_failures \in 0..Limit
         /\ pass.staged[s].restart_failures \in 0..Limit
         /\ tries[s] \in Nat /\ aborts \in Nat /\ Limit \in Nat /\ MaxAborts \in Nat
<1>1. db[s] \in Row /\ pass.loaded[s] \in Row /\ pass.staged[s] \in Row
  BY DEF TypeOK
<1> QED BY <1>1, LimitAssumption DEF TypeOK, Row

\* A new server has no failures.
LEMMA FreshCount == FreshRow.restart_failures = 0
BY DEF FreshRow

\* A pass that ends without a commit leaves the stored counter behind by the
\* attempt it made, and counts itself as rolled back.
LEMMA CountForgotten ==
  ASSUME TypeOK, NEW s \in Server, AttemptsOK(s), pass.active,
         pass' = NoPass, aborts' = Capped(aborts + 1, MaxAborts),
         UNCHANGED <<rows, db, tries>>
  PROVE  AttemptsOK(s)'
<1>1. s \notin pass'.todo /\ ~HeldByPass(s)'
  BY DEF NoPass, HeldByPass
<1>2. aborts' < MaxAborts => aborts < MaxAborts /\ aborts' = aborts + 1
  BY CountTypes DEF Capped
<1>3. tries[s] <= (IF aborts' < MaxAborts THEN aborts' ELSE tries[s])
                    + (IF s \in rows THEN db[s].restart_failures ELSE Limit)
  BY <1>2, CountTypes DEF AttemptsOK
<1> QED BY <1>1, <1>3 DEF AttemptsOK

\* The pass counts what it restarts.
LEMMA CountSample ==
  ASSUME TypeOK, NEW s \in Server, AttemptsOK(s), NEW u \in Server, Sample(u)
  PROVE  AttemptsOK(s)'
<1>1. UNCHANGED <<rows, db, aborts>> /\ pass.active
  BY DEF Sample, tables
<1>2. CASE s # u
  <2>1. SameCount(s)
    BY <1>1, <1>2 DEF Sample, SameCount, TypeOK
  <2> QED BY <2>1, CountUnaffected
<1>3. CASE s = u
  <2> DEFINE up == container[s] = "running"
             more == IF ShouldRetry(s) THEN 1 ELSE 0
             loaded == pass.loaded[s].restart_failures
  <2>1. /\ s \in pass.todo /\ s \notin pass.sampled
        /\ pass.staged[s].restart_failures = loaded
    BY <1>3 DEF Sample, AttemptsOK
  <2>2. /\ s \notin pass'.todo /\ s \in pass'.sampled /\ pass'.active
        /\ pass'.loaded[s].restart_failures = loaded
    BY <1>1, <1>3 DEF Sample, TypeOK
  <2>3. pass'.staged[s].restart_failures = IF up THEN 0 ELSE loaded + more
    <3>1. pass.staged[s] \in Row
      BY DEF TypeOK
    <3>2. pass'.staged[s] = [[pass.staged[s] EXCEPT
             !.restart_failures = IF up THEN 0 ELSE loaded + more] EXCEPT !.last_running = up]
      BY <1>3 DEF Sample, TypeOK
    <3> HIDE DEF up, more, loaded
    <3> QED BY <3>1, <3>2 DEF Row
  <2>4. tries'[s] = IF up THEN 0
                    ELSE IF ShouldRetry(s) THEN Capped(tries[s] + 1, Limit + MaxAborts + 1)
                    ELSE tries[s]
    BY <1>3 DEF Sample, TypeOK
  <2>5. tries'[s] \in Nat /\ tries'[s] <= tries[s] + more /\ (up => tries'[s] = 0)
    BY <2>4, CountTypes DEF Capped, ShouldRetry
  <2>6. HeldByPass(s) /\ HeldByPass(s)'
    BY <1>1, <2>1, <2>2 DEF HeldByPass
  <2>7. more \in {0, 1} /\ (up => more = 0)
    BY DEF ShouldRetry
  <2>8. db'[s].restart_failures = db[s].restart_failures /\ (s \in rows' <=> s \in rows)
    BY <1>1
  <2> HIDE DEF up, more, loaded
  <2>9. /\ db[s].restart_failures <= loaded
        /\ s \in rows => tries[s] = 0 \/
             tries[s] <= (IF aborts < MaxAborts THEN aborts ELSE tries[s]) + db[s].restart_failures
        /\ s \notin rows =>
             tries[s] <= (IF aborts < MaxAborts THEN aborts ELSE tries[s]) + loaded
    BY <2>1, <2>6, CountTypes DEF AttemptsOK, loaded
  <2>10. loaded \in 0..Limit
    BY CountTypes DEF loaded
  <2> QED BY <1>1, <2>2, <2>3, <2>5, <2>6, <2>7, <2>8, <2>9, <2>10, CountTypes DEF AttemptsOK
<1> QED BY <1>2, <1>3

\* Every step keeps the count of attempts within its limit.
LEMMA CountNext ==
  TypeOK /\ CallsOK /\ (\A s \in Server : AttemptsOK(s)) /\ [Next]_vars
    => (\A s \in Server : AttemptsOK(s))'
<1> SUFFICES ASSUME TypeOK, CallsOK, [Next]_vars, NEW s \in Server, AttemptsOK(s)
             PROVE  AttemptsOK(s)'
  OBVIOUS
<1>1. ASSUME NEW r \in Request, NEW u \in Server, RequestBegins(r, u) PROVE AttemptsOK(s)'
  <2>1. db'[s].restart_failures = db[s].restart_failures
    BY <1>1 DEF RequestBegins, StartRequest, RestartRequest, StopRequest, StopUiRequest,
       DeleteRequest, SaveDesired, TypeOK, Row
  <2>2. UNCHANGED <<rows, pass, tries, aborts>>
    BY <1>1 DEF RequestBegins, StartRequest, RestartRequest, StopRequest, StopUiRequest,
       DeleteRequest, Begin
  <2> QED BY <2>1, <2>2, CountUnaffected DEF SameCount
<1>2. ASSUME NEW r \in Request, RequestEnds(r), ~DeleteDone(r) PROVE AttemptsOK(s)'
  <2>1. call[r].server \in Server
    BY <1>2, BusyCall DEF RequestEnds, StartDone, StopDone, StopUiFailed, RequestFailed, Busy, Call,
       Request
  <2>2. db'[s].restart_failures = db[s].restart_failures
    BY <1>2, <2>1 DEF RequestEnds, StartDone, StopDone, StopUiFailed, RequestFailed, SaveDesired,
       TypeOK, Row, tables
  <2>3. UNCHANGED <<rows, pass, tries, aborts>>
    BY <1>2 DEF RequestEnds, StartDone, StopDone, StopUiFailed, RequestFailed, tables
  <2> QED BY <2>2, <2>3, CountUnaffected DEF SameCount
<1>3. ASSUME NEW r \in Request, DeleteDone(r) PROVE AttemptsOK(s)'
  <2>1. CASE s # call[r].server
    BY <1>3, <2>1, CountUnaffected DEF DeleteDone, SameCount, TypeOK
  <2>2. CASE s = call[r].server
    <3>1. s \notin rows' /\ db'[s].restart_failures = 0 /\ UNCHANGED <<pass, tries, aborts>>
      BY <1>3, <2>2, FreshCount DEF DeleteDone, TypeOK
    <3>2. HeldByPass(s)' <=> HeldByPass(s)
      BY <3>1 DEF HeldByPass
    <3> QED BY <3>1, <3>2, CountTypes DEF AttemptsOK
  <2> QED BY <2>1, <2>2
<1>4. ASSUME NEW u \in Server, NEW on \in BOOLEAN, SetRestartPolicy(u, on) PROVE AttemptsOK(s)'
  <2>1. UNCHANGED <<rows, pass, aborts>>
    BY <1>4 DEF SetRestartPolicy
  <2>2. CASE on \/ s # u
    <3>1. tries'[s] = tries[s] /\ db'[s].restart_failures = db[s].restart_failures
      BY <1>4, <2>2 DEF SetRestartPolicy, TypeOK, Row
    <3> QED BY <2>1, <3>1, CountUnaffected DEF SameCount
  <2>3. CASE ~on /\ s = u
    <3>0. db[s] \in Row
      BY DEF TypeOK
    <3>1. tries'[s] = 0 /\ db'[s].restart_failures = 0 /\ s \in rows
      BY <1>4, <2>3, <3>0 DEF SetRestartPolicy, TypeOK, Row
    <3>2. HeldByPass(s)' <=> HeldByPass(s)
      BY <2>1 DEF HeldByPass
    <3> QED BY <2>1, <3>1, <3>2, CountTypes DEF AttemptsOK
  <2> QED BY <2>2, <2>3
<1>5. ASSUME NEW u \in Server, InstallationCompleted(u) PROVE AttemptsOK(s)'
  <2>1. db'[s].restart_failures = db[s].restart_failures
    BY <1>5 DEF InstallationCompleted, TypeOK, Row
  <2> QED BY <1>5, <2>1, CountUnaffected DEF InstallationCompleted, SameCount, history
<1>6. CASE PassBegin
  <2>1. /\ UNCHANGED <<rows, db, tries, aborts>> /\ ~HeldByPass(s)
        /\ pass'.staged[s] = pass'.loaded[s] /\ pass'.sampled = {}
        /\ pass'.todo = rows /\ pass'.active
        /\ s \in rows => pass'.loaded[s] = db[s]
    BY <1>6 DEF PassBegin, tables, HeldByPass
  <2>2. HeldByPass(s)' <=> s \in rows
    BY <2>1 DEF HeldByPass
  <2> QED BY <2>1, <2>2, CountTypes DEF AttemptsOK
<1>7. ASSUME NEW u \in Server, Sample(u) PROVE AttemptsOK(s)'
  BY <1>7, CountSample
<1>8. CASE AutoRestartReturns
  <2>1. pass'.staged[s].restart_failures = pass.staged[s].restart_failures
    BY <1>8 DEF AutoRestartReturns, TypeOK, Row
  <2> QED BY <1>8, <2>1, CountUnaffected DEF AutoRestartReturns, SameCount, tables, history, TypeOK
<1>9. CASE PassCommit
  <2>1. UNCHANGED <<rows, tries, aborts>> /\ s \notin pass'.todo /\ ~HeldByPass(s)'
    BY <1>9 DEF PassCommit, history, NoPass, HeldByPass
  <2>2. CASE s \in pass.sampled
    <3>0. db[s] \in Row
      BY DEF TypeOK
    <3>1. /\ db'[s].restart_failures = Column(db[s].restart_failures,
               pass.loaded[s].restart_failures, pass.staged[s].restart_failures)
          /\ s \in rows
      BY <1>9, <2>2, <3>0 DEF PassCommit, Row
    <3>2. HeldByPass(s)
      BY <1>9, <2>2 DEF PassCommit, PassFinished, HeldByPass
    <3> QED BY <2>1, <3>1, <3>2, CountTypes DEF AttemptsOK, Column
  <2>3. CASE s \notin pass.sampled
    <3>1. db'[s] = db[s] /\ ~HeldByPass(s)
      BY <1>9, <2>3 DEF PassCommit, PassFinished, HeldByPass
    <3> QED BY <2>1, <3>1 DEF AttemptsOK
  <2> QED BY <2>2, <2>3
<1>10. CASE CommitFails \/ PassRaises
  BY <1>10, CountForgotten DEF CommitFails, PassRaises, PassFinished, Abort, tables
<1>11. ASSUME NEW c \in Client, RuntimeStep(c) \/ RuntimeFailure(c) PROVE AttemptsOK(s)'
  BY <1>11, CountUnaffected DEF RuntimeStep, RuntimeFailure, SameCount, tables, history
<1>12. ASSUME NEW u \in Server, Crash(u) PROVE AttemptsOK(s)'
  BY <1>12, CountUnaffected DEF Crash, SameCount, tables, history
<1>13. CASE PanelRestarts
  <2>1. CASE pass.active
    BY <1>13, <2>1, CountForgotten DEF PanelRestarts, tables
  <2>2. CASE ~pass.active
    <3>1. UNCHANGED <<rows, db, tries, aborts>> /\ ~HeldByPass(s) /\ ~HeldByPass(s)'
          /\ s \notin pass'.todo
      BY <1>13, <2>2 DEF PanelRestarts, tables, HeldByPass, NoPass
    <3> QED BY <3>1 DEF AttemptsOK
  <2> QED BY <2>1, <2>2
<1>14. CASE UNCHANGED vars
  BY <1>14, CountUnaffected DEF vars, tables, history, SameCount
<1> QED BY <1>1, <1>2, <1>3, <1>4, <1>5, <1>6, <1>7, <1>8, <1>9, <1>10, <1>11, <1>12, <1>13, <1>14
        DEF Next, PassStep

\* At first there were no attempts.
LEMMA CountInitial == Init => \A s \in Server : AttemptsOK(s)
<1> SUFFICES ASSUME Init, NEW s \in Server PROVE AttemptsOK(s)
  OBVIOUS
<1>1. s \notin pass.todo /\ ~HeldByPass(s)
  BY DEF Init, NoPass, HeldByPass
<1>2. tries[s] = 0 /\ aborts = 0 /\ db[s].restart_failures = 0 /\ s \in rows
  BY FreshCount DEF Init
<1> QED BY <1>1, <1>2 DEF AttemptsOK

\* Between two sightings of the running server the panel restarts it at most
\* crash_restart_limit times, plus once for every pass that was rolled back.
THEOREM AttemptsLimited == Spec => []AttemptsBounded
<1>1. TypeOK /\ (\A s \in Server : AttemptsOK(s)) => AttemptsBounded
  <2> SUFFICES ASSUME TypeOK, aborts < MaxAborts, NEW s \in Server, AttemptsOK(s)
               PROVE  tries[s] <= Limit + aborts
    BY DEF AttemptsBounded
  <2>1. CASE HeldByPass(s)
    <3>1. s \in rows => tries[s] = 0 \/ tries[s] <= aborts + db[s].restart_failures
                           + pass.staged[s].restart_failures - pass.loaded[s].restart_failures
      BY <2>1 DEF AttemptsOK
    <3>2. /\ s \notin rows => tries[s] <= aborts + pass.staged[s].restart_failures
          /\ db[s].restart_failures <= pass.loaded[s].restart_failures
      BY <2>1 DEF AttemptsOK
    <3> QED BY <3>1, <3>2, CountTypes
  <2>2. CASE ~HeldByPass(s)
    <3>1. tries[s] <= aborts + (IF s \in rows THEN db[s].restart_failures ELSE Limit)
      BY <2>2 DEF AttemptsOK
    <3> QED BY <3>1, CountTypes
  <2> QED BY <2>1, <2>2
<1>2. Spec => [](\A s \in Server : AttemptsOK(s))
  BY CountInitial, CountNext, TypeCorrect, QuietCorrect, PTL DEF Spec
<1> QED BY <1>1, <1>2, TypeCorrect, PTL
-----------------------------------------------------------------------------
(* Those who wait for a container to stop *)

WaiterOK(d) == call[d].pc = "waiting" => container[call[d].server] = "running"

\* A client that goes to a step other than waiting does not wait, and the
\* others are where they were.
LEMMA WaiterMoves ==
  ASSUME TypeOK, NEW c \in Client, Busy(c), NEW pc, GoTo(c, pc), pc # "waiting",
         NEW d \in Client, WaiterOK(d),
         container'[call[d].server] = container[call[d].server] \/ call[d].pc # "waiting"
  PROVE  WaiterOK(d)'
<1>1. CASE d = c
  BY <1>1, GoToPc DEF WaiterOK
<1>2. CASE d # c
  <2>1. call'[d] = call[d]
    BY <1>2 DEF GoTo, TypeOK
  <2> QED BY <2>1 DEF WaiterOK
<1> QED BY <1>1, <1>2

\* Nobody waits for a container whose waiters were released, and the
\* containers of the others did not change.
LEMMA WaitersReleased ==
  ASSUME TypeOK, NEW s \in Server, NEW state, NEW d \in Client, WaiterOK(d),
         container' = [container EXCEPT ![s] = state],
         call'[d] = Released(s)[d]
  PROVE  WaiterOK(d)'
<1>1. CASE call[d].pc = "waiting" /\ call[d].server = s
  <2>1. call[d] \in Call
    BY <1>1, BusyCall DEF Busy
  <2>2. call'[d].pc = "stopped"
    BY <1>1, <2>1 DEF Released, Call
  <2> QED BY <2>2 DEF WaiterOK
<1>2. CASE ~(call[d].pc = "waiting" /\ call[d].server = s)
  <2>1. call'[d] = call[d]
    BY <1>2 DEF Released
  <2>2. call[d].pc = "waiting" => call[d].server \in Server /\ call[d].server # s
    BY <1>2, BusyCall DEF Busy, Call
  <2> QED BY <2>1, <2>2 DEF WaiterOK, TypeOK
<1> QED BY <1>1, <1>2

\* A step of the runtime stops no container that somebody waits for without
\* releasing him, and nobody starts to wait for a container that is down.
LEMMA WaiterStep ==
  ASSUME TypeOK, NEW c \in Client, StepSucceeds(c) \/ CallFails(c),
         NEW d \in Client, WaiterOK(d)
  PROVE  WaiterOK(d)'
<1>1. Busy(c)
  BY DEF StepSucceeds, CallFails, Busy, Prepare, Inspect, Launch, Replace, Create, StopInspect,
         SendStop, StopTimeout, RestartGoesOn, RemoveInspect, Remove, Archive, DockerSteps,
         StartSteps, StopSteps, RemoveSteps
<1>2. call[c] \in Call /\ call[c].server \in Server
  BY <1>1, BusyCall DEF Call
<1>3. CASE Prepare(c) \/ Inspect(c) \/ StopInspect(c) \/ RestartGoesOn(c) \/ Archive(c)
           \/ CallFails(c)
  <2>1. UNCHANGED container
    BY <1>3 DEF Prepare, Inspect, StopInspect, RestartGoesOn, Archive, CallFails
  <2>2. \E pc \in {"inspect", "create", "started", "launch", "replace", "send", "stopped",
                   "prepare", "removed", "failed"} : GoTo(c, pc)
    BY <1>3 DEF Prepare, Inspect, StopInspect, RestartGoesOn, Archive, CallFails
  <2> QED BY <1>1, <2>1, <2>2, WaiterMoves
<1>4. CASE Launch(c) \/ Create(c) \/ Replace(c) \/ Remove(c)
  <2>1. \E pc \in {"create", "started", "failed", "archive"} : GoTo(c, pc)
    BY <1>4 DEF Launch, Create, Replace, Remove
  <2>2. \/ UNCHANGED container
        \/ container' = [container EXCEPT ![call[c].server] = "running"]
        \/ /\ container[call[c].server] # "running"
           /\ \E state \in ContainerState : container' = [container EXCEPT ![call[c].server] = state]
    BY <1>4 DEF Launch, Create, Replace, Remove, ContainerState
  <2>3. call[d].pc = "waiting" => call[d].server \in Server
    BY BusyCall DEF Busy, Call
  <2>4. container'[call[d].server] = container[call[d].server] \/ call[d].pc # "waiting"
    BY <1>2, <2>2, <2>3 DEF WaiterOK, TypeOK
  <2> QED BY <1>1, <2>1, <2>4, WaiterMoves
<1>5. CASE SendStop(c)
  <2>1. UNCHANGED container
    BY <1>5 DEF SendStop
  <2>2. CASE container[call[c].server] = "running" /\ d = c
    BY <1>2, <1>5, <2>1, <2>2 DEF SendStop, GoTo, WaiterOK, TypeOK, Call
  <2>3. CASE container[call[c].server] = "running" /\ d # c
    BY <1>5, <2>1, <2>3 DEF SendStop, GoTo, WaiterOK, TypeOK
  <2>4. CASE container[call[c].server] # "running"
    <3>1. GoTo(c, "failed")
      BY <1>5, <2>4 DEF SendStop
    <3> QED BY <1>1, <2>1, <3>1, WaiterMoves
  <2> QED BY <2>2, <2>3, <2>4
<1>6. CASE StopTimeout(c)
  BY <1>2, <1>6, WaitersReleased DEF StopTimeout
<1>7. CASE RemoveInspect(c)
  <2>1. CASE UNCHANGED container /\ \E pc \in {"archive", "remove"} : GoTo(c, pc)
    BY <1>1, <2>1, WaiterMoves
  <2>2. CASE /\ container' = [container EXCEPT ![call[c].server] = "exited"]
             /\ call' = [e \in Client |-> IF e = c THEN [call[c] EXCEPT !.pc = "remove"]
                                          ELSE Released(call[c].server)[e]]
    <3>1. CASE d = c
      <4>1. call'[d].pc = "remove"
        BY <1>2, <2>2, <3>1 DEF Call
      <4> QED BY <4>1 DEF WaiterOK
    <3>2. CASE d # c
      <4>1. call'[d] = Released(call[c].server)[d]
        BY <2>2, <3>2
      <4> QED BY <1>2, <2>2, <4>1, WaitersReleased
    <3> QED BY <3>1, <3>2
  <2> QED BY <1>7, <2>1, <2>2 DEF RemoveInspect
<1> QED BY <1>3, <1>4, <1>5, <1>6, <1>7 DEF StepSucceeds

\* No step leaves anybody waiting for a container that is down.
LEMMA WaiterNext ==
  ASSUME TypeOK, [Next]_vars, NEW d \in Client, WaiterOK(d)
  PROVE  WaiterOK(d)'
<1>1. ASSUME NEW r \in Request, NEW s \in Server, RequestBegins(r, s) PROVE WaiterOK(d)'
  <2>1. PICK op \in {"start", "restart", "stop", "stop_ui", "delete"},
             seen \in Desired, pc \in {"prepare", "stop_inspect", "remove_inspect"} :
          /\ call' = [call EXCEPT ![r] = [op |-> op, server |-> s, seen |-> seen, pc |-> pc]]
          /\ UNCHANGED container
    BY <1>1 DEF RequestBegins, StartRequest, RestartRequest, StopRequest, StopUiRequest,
       DeleteRequest, Begin, TypeOK, Row, Desired
  <2> QED BY <2>1 DEF WaiterOK, TypeOK
<1>2. ASSUME NEW e \in Client, Finish(e), UNCHANGED container PROVE WaiterOK(d)'
  BY <1>2 DEF Finish, Idle, WaiterOK, TypeOK
<1>3. ASSUME NEW r \in Request, RequestEnds(r) PROVE WaiterOK(d)'
  <2>1. Finish(r) /\ UNCHANGED container
    BY <1>3 DEF RequestEnds, StartDone, StopDone, StopUiFailed, RequestFailed, DeleteDone
  <2> QED BY <1>2, <2>1 DEF Request
<1>4. CASE UNCHANGED <<call, container>>
  BY <1>4 DEF WaiterOK
<1>5. ASSUME NEW s \in Server, Sample(s) PROVE WaiterOK(d)'
  BY <1>5 DEF Sample, WaiterOK, TypeOK
<1>6. CASE AutoRestartReturns
  BY <1>2, <1>6, WorkerAssumption DEF AutoRestartReturns
<1>7. ASSUME NEW s \in Server, Crash(s) PROVE WaiterOK(d)'
  BY <1>7, WaitersReleased DEF Crash, ContainerExits
<1>8. ASSUME NEW c \in Client, RuntimeStep(c) \/ RuntimeFailure(c) PROVE WaiterOK(d)'
  BY <1>8, WaiterStep DEF RuntimeStep, RuntimeFailure
<1>9. CASE PanelRestarts
  BY <1>9 DEF PanelRestarts, Idle, WaiterOK
<1>10. CASE PassBegin \/ PassCommit \/ Abort
  BY <1>4, <1>10 DEF PassBegin, PassCommit, Abort, runtimeVars
<1>11. CASE \/ \E s \in Server, on \in BOOLEAN : SetRestartPolicy(s, on)
            \/ \E s \in Server : InstallationCompleted(s)
            \/ UNCHANGED vars
  BY <1>4, <1>11 DEF SetRestartPolicy, InstallationCompleted, vars, runtimeVars
<1> QED BY <1>1, <1>3, <1>5, <1>6, <1>7, <1>8, <1>9, <1>10, <1>11 DEF Next, PassStep,
           CommitFails, PassRaises

\* A stop() never waits for a container that is down: every way a container
\* can stop (it exits, another stop() kills it, a deletion stops it) releases
\* those who wait for it.
THEOREM WaitersReleasedInTime == Spec => []WaitersHaveRunningContainer
<1>1. WaitersHaveRunningContainer <=> \A d \in Client : WaiterOK(d)
  BY DEF WaitersHaveRunningContainer, WaiterOK
<1>2. Init => WaitersHaveRunningContainer
  BY DEF Init, RuntimeInit, Idle, WaitersHaveRunningContainer
<1>3. TypeOK /\ WaitersHaveRunningContainer /\ [Next]_vars => WaitersHaveRunningContainer'
  BY WaiterNext DEF WaitersHaveRunningContainer, WaiterOK
<1> QED BY <1>2, <1>3, TypeCorrect, PTL DEF Spec
-----------------------------------------------------------------------------
(* What a pass that commits leaves alone *)

\* The commit of a pass writes two columns of a row: the operator's and the
\* installer's are stored as they were.
LEMMA PassWritesItsOwn ==
  ASSUME TypeOK, PassCommit, NEW s \in Server
  PROVE  /\ db'[s].desired_state = db[s].desired_state
         /\ db'[s].auto_restart = db[s].auto_restart
         /\ db'[s].installed = db[s].installed
<1> DEFINE
  Counted == [db[s] EXCEPT
    !.restart_failures = Column(@, pass.loaded[s].restart_failures, pass.staged[s].restart_failures),
    !.last_running = Column(@, pass.loaded[s].last_running, pass.staged[s].last_running)]
<1>1. db'[s] = Counted \/ db'[s] = db[s]
  BY Zenon DEF PassCommit
<1>2. db[s] \in Row
  BY DEF TypeOK
<1>3. Counted.desired_state = db[s].desired_state
  BY <1>2 DEF Row
<1>4. Counted.auto_restart = db[s].auto_restart
  BY <1>2 DEF Row
<1>5. Counted.installed = db[s].installed
  BY <1>2 DEF Row
<1> HIDE DEF Counted
<1> QED BY <1>1, <1>3, <1>4, <1>5, Zenon

\* A pass that read a row before an operator's decision and commits after it
\* undoes nothing of that decision.
THEOREM DecisionsKept == Spec => PassKeepsDecisions
<1>1. TypeOK /\ [Next]_vars =>
        [PassCommit => \A s \in Server :
           /\ db'[s].desired_state = db[s].desired_state
           /\ db'[s].auto_restart = db[s].auto_restart
           /\ db'[s].installed = db[s].installed]_vars
  BY PassWritesItsOwn
<1> QED BY <1>1, TypeCorrect, PTL DEF Spec, PassKeepsDecisions
-----------------------------------------------------------------------------
(* The panel keeps its orders *)

\* What the abstract specification shows of the state.
Meant == {s \in Server : db[s].desired_state = "RUNNING"}
Life == [s \in Server |->
           IF container[s] = "running" THEN "up"
           ELSE IF container[s] = "not_created" /\ s \notin directory THEN "none"
           ELSE "down"]
InForce == [s \in Server |-> IF quiet[s] \in {"stopped", "deleted"} THEN quiet[s] ELSE "open"]
Shown == <<rows, Meant, Life, InForce>>

Unordered(s) == quiet[s] \notin {"stopped", "deleted"}

\* At first every server is listed, none is wanted or there, and nobody has
\* asked for anything.
LEMMA OrdersInitially == Init => Orders!Init
<1> SUFFICES ASSUME Init PROVE Orders!Init
  OBVIOUS
<1>1. rows = Server /\ Meant = {}
  BY DEF Init, Meant, FreshRow
<1>2. Life = [s \in Server |-> "none"]
  BY DEF Init, RuntimeInit, Life
<1>3. InForce = [s \in Server |-> "open"]
  BY DEF Init, InForce
<1> QED BY <1>1, <1>2, <1>3 DEF Orders!Init, Meant, Life, InForce

\* No order is in force for a server that somebody works on.
LEMMA WorkedOnIsUnordered ==
  ASSUME NEW s \in Server, QuietOK(s), NEW c \in Client, WorksOn(c, s)
  PROVE  Unordered(s)
BY DEF QuietOK, Nobody, Unordered

\* A step that touches neither containers nor orders does not show.
LEMMA NothingShows ==
  ASSUME UNCHANGED <<rows, container, directory>>,
         \A s \in Server : /\ db'[s].desired_state = db[s].desired_state
                           /\ quiet'[s] = quiet[s] \/ (Unordered(s) /\ Unordered(s)')
  PROVE  UNCHANGED Shown
<1>1. Meant' = Meant
  BY DEF Meant
<1>2. Life' = Life
  BY DEF Life
<1>3. InForce' = InForce
  BY DEF InForce, Unordered
<1> QED BY <1>1, <1>2, <1>3 DEF Shown

\* What happens to the container and the directory of one server is work.
LEMMA WorkShows ==
  ASSUME NEW u \in Server, Unordered(u), UNCHANGED <<rows, db, quiet>>,
         \A s \in Server : s # u =>
           container'[s] = container[s] /\ (s \in directory' <=> s \in directory)
  PROVE  Orders!Work(u)
<1>1. Meant' = Meant /\ InForce' = InForce /\ InForce[u] = "open"
  BY DEF Meant, InForce, Unordered
<1>2. Life'[u] \in {"none", "down", "up"}
  BY DEF Life
<1>3. Life' = [Life EXCEPT ![u] = Life'[u]]
  BY DEF Life
<1> QED BY <1>1, <1>2, <1>3 DEF Orders!Work, Orders!State, Meant, Life, InForce

\* A row is saved for a server that is listed, and shows, or nothing is saved.
LEMMA SavingShows ==
  ASSUME TypeOK, NEW u \in Server, NEW seen, NEW new \in Desired, SaveDesired(u, seen, new)
  PROVE  \/ db' = db
         \/ /\ u \in rows /\ seen # new
            /\ Meant' = IF new = "RUNNING" THEN Meant \cup {u} ELSE Meant \ {u}
<1> SUFFICES ASSUME db' # db
             PROVE  /\ u \in rows /\ seen # new
                    /\ Meant' = IF new = "RUNNING" THEN Meant \cup {u} ELSE Meant \ {u}
  OBVIOUS
<1>1. u \in rows /\ seen # new /\ db' = [db EXCEPT ![u].desired_state = new]
  BY DEF SaveDesired
<1>2. db'[u].desired_state = new /\ \A s \in Server : s # u => db'[s] = db[s]
  BY <1>1 DEF TypeOK, Row
<1> QED BY <1>1, <1>2 DEF Meant, Desired

\* A request is heard, and ends what was in force.
LEMMA BeginShows ==
  ASSUME TypeOK, NEW r \in Request, NEW u \in Server, RequestBegins(r, u)
  PROVE  Orders!Ask(u)
<1>1. u \in rows /\ UNCHANGED <<container, directory, rows>>
  BY DEF RequestBegins, StartRequest, RestartRequest, StopRequest, StopUiRequest, DeleteRequest, Begin
<1>2. PICK mark \in {"none", "stopping", "deleting"} : quiet' = [quiet EXCEPT ![u] = mark]
  BY DEF RequestBegins, StartRequest, RestartRequest, StopRequest, StopUiRequest, DeleteRequest,
         Disturb, MarkAlone
<1>3. InForce' = [InForce EXCEPT ![u] = "open"]
  BY <1>2 DEF InForce, TypeOK
<1>4. Life' = Life
  BY <1>1 DEF Life
<1>5. Meant' \in {Meant, Meant \ {u}}
  <2>1. CASE db' = db
    BY <2>1 DEF Meant
  <2>2. CASE db' # db
    <3>1. SaveDesired(u, db[u].desired_state, "STOPPED")
      BY <2>2 DEF RequestBegins, StartRequest, RestartRequest, StopRequest, StopUiRequest, DeleteRequest
    <3> QED BY <2>2, <3>1, SavingShows DEF Desired
  <2> QED BY <2>1, <2>2
<1> QED BY <1>1, <1>3, <1>4, <1>5 DEF Orders!Ask, Meant, Life, InForce

\* The end of a request that leaves no order shows what it has decided.
LEMMA DecisionShows ==
  ASSUME TypeOK, NEW u \in Server, NEW seen, NEW new \in Desired, SaveDesired(u, seen, new),
         UNCHANGED <<container, directory, rows>>, Unordered(u), quiet' = [quiet EXCEPT ![u] = "none"]
  PROVE  Orders!Decide(u) \/ UNCHANGED Shown
<1>1. InForce' = InForce /\ InForce[u] = "open"
  BY DEF InForce, Unordered, TypeOK
<1>2. Life' = Life
  BY DEF Life
<1>3. CASE db' = db
  BY <1>1, <1>2, <1>3 DEF Shown, Meant
<1>4. CASE db' # db
  <2>1. u \in rows /\ Meant' \in {Meant \cup {u}, Meant \ {u}}
    BY <1>4, SavingShows
  <2> QED BY <1>1, <1>2, <2>1 DEF Orders!Decide, Meant, Life, InForce
<1> QED BY <1>3, <1>4

\* A stop that nothing disturbed is in force from its end on.
LEMMA StopShows ==
  ASSUME TypeOK, NEW r \in Request, StopDone(r), NEW u \in Server, u = call[r].server, QuietOK(u),
         quiet[u] = "stopping"
  PROVE  Orders!Stopped(u)
<1>1. WorksOn(r, u) /\ r \in Client
  BY DEF StopDone, WorksOn, Busy, Request
<1>2. /\ u \in rows /\ container[u] # "running" /\ call[r].seen = db[u].desired_state
  <2>1. PICK q \in Request : /\ WorksOn(q, u) /\ Alone(q, u)
                             /\ call[q].seen = db[u].desired_state
                             /\ call[q].pc = "stopped" => container[u] # "running"
    BY DEF QuietOK
  <2>2. q = r
    BY <1>1, <2>1, OnlyOne DEF Request
  <2> QED BY <2>1, <2>2 DEF StopDone, QuietOK
<1>3. UNCHANGED <<container, directory, rows>>
  BY DEF StopDone
<1>4. InForce' = [InForce EXCEPT ![u] = "stopped"] /\ InForce[u] = "open"
  BY DEF StopDone, Settle, InForce, TypeOK
<1>5. Meant' = Meant \ {u}
  <2>1. SaveDesired(u, call[r].seen, "STOPPED")
    BY DEF StopDone
  <2>2. CASE db' = db
    <3>1. db[u].desired_state = "STOPPED"
      BY <1>2, <2>1, <2>2 DEF SaveDesired, TypeOK, Row
    <3> QED BY <2>2, <3>1 DEF Meant
  <2>3. CASE db' # db
    BY <2>1, <2>3, SavingShows DEF Desired
  <2> QED BY <2>2, <2>3
<1>6. Life' = Life /\ Life[u] # "up"
  BY <1>2, <1>3 DEF Life
<1> QED BY <1>2, <1>3, <1>4, <1>5, <1>6 DEF Orders!Stopped, Meant, Life, InForce

\* A deletion that nothing disturbed has left nothing.
LEMMA DeletionShows ==
  ASSUME TypeOK, NEW r \in Request, DeleteDone(r), NEW u \in Server, u = call[r].server, QuietOK(u)
  PROVE  Orders!Deleted(u)
<1>1. WorksOn(r, u) /\ r \in Client
  BY DEF DeleteDone, WorksOn, Busy, Request
<1>2. Unordered(u)
  BY <1>1, WorkedOnIsUnordered
<1>3. /\ UNCHANGED <<container, directory>> /\ rows' = rows \ {u}
      /\ db' = [db EXCEPT ![u] = FreshRow]
      /\ quiet' = [quiet EXCEPT ![u] = IF @ = "deleting" THEN "deleted" ELSE "none"]
  BY DEF DeleteDone, Settle
<1>4. Meant' = Meant \ {u}
  BY <1>3 DEF Meant, FreshRow, TypeOK
<1>5. Life' = Life /\ InForce[u] = "open"
  BY <1>2, <1>3 DEF Life, InForce, Unordered
<1>6. CASE quiet[u] = "deleting"
  <2>1. PICK q \in Request : /\ WorksOn(q, u) /\ Alone(q, u)
                             /\ call[q].pc \in {"archive", "removed"} => container[u] = "not_created"
                             /\ call[q].pc = "removed" => u \notin directory
    BY <1>6 DEF QuietOK
  <2>2. q = r
    BY <1>1, <2>1, OnlyOne DEF Request
  <2>3. Life[u] = "none"
    BY <2>1, <2>2 DEF DeleteDone, Life
  <2>4. InForce' = [InForce EXCEPT ![u] = "deleted"]
    BY <1>3, <1>6 DEF InForce, TypeOK
  <2> QED BY <1>3, <1>4, <1>5, <2>3, <2>4 DEF Orders!Deleted, Meant, Life, InForce
<1>7. CASE quiet[u] # "deleting"
  <2>1. InForce' = InForce
    BY <1>2, <1>3, <1>7 DEF InForce, Unordered, TypeOK
  <2> QED BY <1>3, <1>4, <1>5, <2>1 DEF Orders!Deleted, Meant, Life, InForce
<1> QED BY <1>6, <1>7

\* However a request ends, it keeps to the orders.
LEMMA EndShows ==
  ASSUME TypeOK, \A s \in Server : QuietOK(s), NEW r \in Request, RequestEnds(r)
  PROVE  Orders!Next \/ UNCHANGED Shown
<1>1. Busy(r) /\ r \in Client
  BY DEF RequestEnds, StartDone, StopDone, StopUiFailed, RequestFailed, DeleteDone, Busy, Request
<1>2. PICK u \in Server : u = call[r].server /\ WorksOn(r, u)
  BY <1>1, BusyCall DEF WorksOn, Call
<1>3. Unordered(u)
  BY <1>1, <1>2, WorkedOnIsUnordered
<1>4. CASE StartDone(r)
  <2>1. Orders!Decide(u) \/ UNCHANGED Shown
    BY <1>2, <1>3, <1>4, DecisionShows DEF StartDone, Disturb, Desired
  <2> QED BY <1>2, <2>1 DEF Orders!Next
<1>5. CASE StopUiFailed(r)
  <2>1. Orders!Decide(u) \/ UNCHANGED Shown
    BY <1>2, <1>3, <1>5, DecisionShows DEF StopUiFailed, Disturb, Desired
  <2> QED BY <1>2, <2>1 DEF Orders!Next
<1>6. CASE StopDone(r)
  <2>1. CASE quiet[u] = "stopping"
    BY <1>2, <1>6, <2>1, StopShows DEF Orders!Next
  <2>2. CASE quiet[u] # "stopping"
    <3>1. quiet' = [quiet EXCEPT ![u] = "none"]
      BY <1>2, <1>6, <2>2 DEF StopDone, Settle
    <3>2. Orders!Decide(u) \/ UNCHANGED Shown
      BY <1>2, <1>3, <1>6, <3>1, DecisionShows DEF StopDone, Desired
    <3> QED BY <1>2, <3>2 DEF Orders!Next
  <2> QED BY <2>1, <2>2
<1>7. CASE RequestFailed(r)
  BY <1>2, <1>3, <1>7, NothingShows DEF RequestFailed, Disturb, tables, Unordered, TypeOK
<1>8. CASE DeleteDone(r)
  BY <1>2, <1>8, DeletionShows DEF Orders!Next
<1> QED BY <1>4, <1>5, <1>6, <1>7, <1>8 DEF RequestEnds

\* A maintenance pass shows only in the work of the restarts that it asks for.
LEMMA PassShows ==
  ASSUME TypeOK, PassBegin \/ PassStep \/ PassRaises
  PROVE  UNCHANGED Shown
<1>1. CASE PassBegin
  BY <1>1, NothingShows DEF PassBegin, runtimeVars, tables, Unordered
<1>2. CASE (\E s \in Server : Sample(s)) \/ AutoRestartReturns
  BY <1>2, NothingShows DEF Sample, AutoRestartReturns, tables, history
<1>3. CASE PassCommit
  <2>1. \A s \in Server : db'[s].desired_state = db[s].desired_state
    BY <1>3, PassWritesItsOwn
  <2>2. UNCHANGED <<rows, container, directory, quiet>>
    BY <1>3 DEF PassCommit, runtimeVars, history
  <2> QED BY <2>1, <2>2, NothingShows
<1>4. CASE Abort
  BY <1>4, NothingShows DEF Abort, runtimeVars, tables
<1> QED BY <1>1, <1>2, <1>3, <1>4 DEF PassStep, CommitFails, PassRaises

\* Every step is one of the abstract specification, or does not show.
LEMMA OrdersStep ==
  TypeOK /\ CallsOK /\ (\A s \in Server : QuietOK(s)) /\ [Next]_vars => [Orders!Next]_Shown
<1> SUFFICES ASSUME TypeOK, CallsOK, \A s \in Server : QuietOK(s), [Next]_vars
             PROVE  Orders!Next \/ UNCHANGED Shown
  OBVIOUS
<1>1. ASSUME NEW r \in Request, NEW u \in Server, RequestBegins(r, u) PROVE Orders!Next
  BY <1>1, BeginShows DEF Orders!Next
<1>2. ASSUME NEW r \in Request, RequestEnds(r) PROVE Orders!Next \/ UNCHANGED Shown
  BY <1>2, EndShows
<1>3. ASSUME NEW u \in Server, NEW on \in BOOLEAN, SetRestartPolicy(u, on) PROVE UNCHANGED Shown
  <2>1. \A s \in Server : db'[s].desired_state = db[s].desired_state
    BY <1>3 DEF SetRestartPolicy, TypeOK, Row
  <2> QED BY <1>3, <2>1, NothingShows DEF SetRestartPolicy, runtimeVars
<1>4. ASSUME NEW u \in Server, InstallationCompleted(u) PROVE UNCHANGED Shown
  <2>1. \A s \in Server : db'[s].desired_state = db[s].desired_state
    BY <1>4 DEF InstallationCompleted, TypeOK, Row
  <2> QED BY <1>4, <2>1, NothingShows DEF InstallationCompleted, runtimeVars, history
<1>5. CASE PassBegin \/ PassStep \/ PassRaises
  BY <1>5, PassShows
<1>6. ASSUME NEW c \in Client, RuntimeStep(c) \/ RuntimeFailure(c) PROVE Orders!Next
  <2>1. (StepSucceeds(c) \/ CallFails(c)) /\ UNCHANGED <<rows, db, quiet>>
    BY <1>6 DEF RuntimeStep, RuntimeFailure, tables, history
  <2>2. Busy(c)
    BY <2>1, StepMoves
  <2>3. PICK u \in Server : u = call[c].server /\ WorksOn(c, u)
    BY <2>2, BusyCall DEF WorksOn, Call
  <2>4. Unordered(u)
    BY <2>3, WorkedOnIsUnordered
  <2>5. \A s \in Server : s # u =>
          container'[s] = container[s] /\ (s \in directory' <=> s \in directory)
    BY <2>1, <2>2, <2>3, StepIsLocal
  <2>6. Orders!Work(u)
    BY <2>1, <2>3, <2>4, <2>5, WorkShows
  <2> QED BY <2>3, <2>6 DEF Orders!Next
<1>7. ASSUME NEW u \in Server, Crash(u) PROVE Orders!Next
  <2>1. /\ UNCHANGED <<rows, db, quiet, directory>> /\ container[u] = "running"
        /\ \A s \in Server : s # u => container'[s] = container[s]
    BY <1>7 DEF Crash, ContainerExits, tables, history, TypeOK
  <2>2. Unordered(u)
    BY <2>1 DEF QuietOK, Unordered
  <2>3. Orders!Work(u)
    BY <2>1, <2>2, WorkShows
  <2> QED BY <2>3 DEF Orders!Next
<1>8. CASE PanelRestarts
  BY <1>8, NothingShows DEF PanelRestarts, tables, Unordered
<1>9. CASE UNCHANGED vars
  BY <1>9, NothingShows DEF vars, runtimeVars, tables, history
<1> QED BY <1>1, <1>2, <1>3, <1>4, <1>5, <1>6, <1>7, <1>8, <1>9 DEF Next

\* The handlers, the maintenance pass, Docker and the restarts of the panel
\* together implement the promise about stops and deletions: the one is in
\* force until the next request for its server, the other for good.
THEOREM OrdersAreKept == Spec => OrdersKept
<1>1. Init => Orders!Init
  BY OrdersInitially
<1>2. TypeOK /\ (CallsOK /\ \A s \in Server : QuietOK(s)) /\ [Next]_vars => [Orders!Next]_(Orders!vars)
  BY OrdersStep DEF Orders!vars, Shown, Meant, Life, InForce
<1> QED BY <1>1, <1>2, TypeCorrect, QuietCorrect, PTL DEF Spec, OrdersKept, Orders!Spec
=============================================================================
