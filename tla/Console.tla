------------------------------- MODULE Console -------------------------------
(***************************************************************************)
(* The live console of one server: the websocket handler server_console of *)
(* web.py with its two tasks, status and logs, and the methods status,     *)
(* snapshot and stream_logs of runtime.py that they call.                  *)
(*                                                                         *)
(* The tasks look at a container that others start, stop and replace, and  *)
(* share one socket under one lock.  The pauses between two looks have no  *)
(* effect and are left out; of a status message the model keeps what       *)
(* decides what the page offers, the state and whether the server is ready.*)
(***************************************************************************)
EXTENDS Integers, Sequences, SequencesExt

CONSTANTS
  PastLines,       \* lines of the past that a new container's stream begins with (300)
  MaxStarts,  \* bound: further starts of the server
  MaxLines,   \* bound: lines that one container prints
  MaxFaults,  \* bound: failures of Docker, the database and the network
  None

ASSUME BoundAssumption == {PastLines, MaxStarts, MaxLines, MaxFaults} \subseteq Nat

VARIABLES
  container,  \* what Docker has under the name of the server
  printed,    \* the number of lines in its log
  starts, faults,
  client,     \* is the browser connected?
  handler,    \* where server_console is
  pc, cancel, \* where each task is, and whether it has been cancelled
  looked,     \* the container that each task has found
  message,    \* what each task has to send
  lock,       \* send_lock
  previous,   \* the status sent last
  streamed,   \* streamed_container_id
  stream,     \* the log stream that is open
  page,       \* the status and the log lines that the browser has received
  resumed,    \* may lines be missing since the last logs_reset?
  swallowed   \* has a cancellation been lost?

server == <<container, printed, starts>>
history == <<resumed, swallowed>>
vars == <<server, faults, client, handler, pc, cancel, looked, message, lock,
          previous, streamed, stream, page, history>>

Task == {"status", "logs"}
Id == 1 .. MaxStarts + 1
State == {"not_created", "running", "exited"}
Container == [id : Id, state : State, ready : BOOLEAN, port : {"loaded", "changed"}]
Status == [state : State, ready : BOOLEAN]
Line == Id \X (1 .. MaxLines)

\* The message logs_reset, where another one is a line.
Reset == <<>>

ASSUME NoneAssumption == None \notin Task /\ None # Reset

Running == container.state = "running"
Ended == {"cancelled", "failed", "disconnected"}
Done(t) == pc[t] \in Ended

\* What a page shows before it has received anything, or when it is gone.
Blank == [status |-> None, log |-> <<>>]

\* The server has just been started.  Its row is loaded once, and the port with it.
Init ==
  /\ container = [id |-> 1, state |-> "running", ready |-> FALSE, port |-> "loaded"]
  /\ printed = 0 /\ starts = 0 /\ faults = 0
  /\ client = TRUE /\ handler = "serving"
  /\ pc = [t \in Task |-> "look"] /\ cancel = [t \in Task |-> FALSE]
  /\ looked = [t \in Task |-> None] /\ message = [t \in Task |-> None]
  /\ lock = None /\ previous = None /\ streamed = None /\ stream = None
  /\ page = Blank
  /\ resumed = FALSE /\ swallowed = FALSE
-----------------------------------------------------------------------------
(* The server, as its other users start, stop and replace it *)

OthersUnchanged ==
  UNCHANGED <<faults, client, handler, pc, cancel, looked, message, lock, previous, streamed,
              stream, page, history>>

\* A new container has the port that is in the row by now.
Create ==
  /\ container.state = "not_created" /\ starts < MaxStarts /\ starts' = starts + 1
  /\ \E port \in {"loaded", "changed"} :
       container' = [id |-> container.id + 1, state |-> "running", ready |-> FALSE, port |-> port]
  /\ printed' = 0

\* A container that is started again keeps its log.
StartAgain ==
  /\ container.state = "exited" /\ starts < MaxStarts /\ starts' = starts + 1
  /\ container' = [container EXCEPT !.state = "running"]
  /\ UNCHANGED printed

Prints ==
  /\ Running /\ printed < MaxLines /\ printed' = printed + 1
  /\ UNCHANGED <<container, starts>>

Listens ==
  /\ Running /\ ~container.ready /\ container' = [container EXCEPT !.ready = TRUE]
  /\ UNCHANGED <<printed, starts>>

Exits ==
  /\ Running /\ container' = [container EXCEPT !.state = "exited", !.ready = FALSE]
  /\ UNCHANGED <<printed, starts>>

Removed ==
  /\ container.state = "exited" /\ container' = [container EXCEPT !.state = "not_created", !.port = "loaded"]
  /\ printed' = 0 /\ UNCHANGED starts

\* Tasks that are cancelled see nothing of it any more.
ServerStep ==
  /\ handler = "serving" \/ swallowed
  /\ (Create \/ StartAgain \/ Prints \/ Listens \/ Exits \/ Removed)
  /\ OthersUnchanged
-----------------------------------------------------------------------------
(* Both tasks: look at the container, and send *)

At(t, step) == pc[t] = step /\ ~cancel[t]
Goto(t, step) == pc' = [pc EXCEPT ![t] = step]

\* Mutant: what counts as a change is the state alone.
ComparedState(status) ==
  IF previous # None /\ status.state = previous.state THEN "look" ELSE "send"

\* status compares with what it sent last; without a difference it looks again.
Compared(status) == IF status = previous THEN "look" ELSE "send"

StatusSees(state) ==
  LET status == [state |-> state, ready |-> FALSE] IN
  /\ message' = [message EXCEPT !["status"] = status]
  /\ looked' = [looked EXCEPT !["status"] = None]
  /\ Goto("status", IF state = "running" THEN "ask" ELSE Compared(status))

\* A container that is not the streamed one is announced by logs_reset.
LogsSee(id, state) ==
  LET new == state = "running" /\ id # streamed IN
  /\ message' = [message EXCEPT !["logs"] = IF new THEN Reset ELSE None]
  /\ looked' = [looked EXCEPT !["logs"] = IF new THEN id ELSE None]
  /\ Goto("logs", IF state # "running" THEN "look" ELSE IF new THEN "send" ELSE "open")

Sees(t, id, state) ==
  \/ t = "status" /\ StatusSees(state)
  \/ t = "logs" /\ LogsSee(id, state)

\* containers.get
Look(t) ==
  /\ At(t, "look")
  /\ IF container.state = "not_created"
     THEN Sees(t, None, "not_created")
     ELSE looked' = [looked EXCEPT ![t] = container.id] /\ Goto(t, "inspect") /\ UNCHANGED message
  /\ UNCHANGED <<server, faults, client, handler, cancel, lock, previous, streamed, stream,
                 page, history>>

\* reload and stats: NotFound of a container that was found is not handled.
Inspect(t) ==
  /\ At(t, "inspect")
  /\ IF container.state = "not_created" \/ container.id # looked[t]
     THEN Goto(t, "failed") /\ UNCHANGED <<looked, message>>
     ELSE Sees(t, looked[t], container.state)
  /\ UNCHANGED <<server, faults, client, handler, cancel, lock, previous, streamed, stream,
                 page, history>>

Acquire(t) ==
  /\ At(t, "send") /\ lock = None
  /\ lock' = t /\ Goto(t, "sending")
  /\ UNCHANGED <<server, faults, client, handler, cancel, looked, message, previous, streamed, stream,
                 page, history>>

Resets(t) == t = "logs" /\ message[t] = Reset

\* The page: a reset empties the log, a chunk is added to it.
Shown(t) ==
  IF t = "status" THEN [page EXCEPT !.status = message[t]]
  ELSE IF Resets(t) THEN [page EXCEPT !.log = <<>>]
  ELSE [page EXCEPT !.log = Append(@, message[t])]

AfterSend(t) ==
  IF t = "status" THEN "look" ELSE IF Resets(t) THEN "open" ELSE "read"

\* What a task drops when it ends outside of stream_logs is closed later.
Dropped(t) ==
  IF t = "logs" /\ stream # None THEN [stream EXCEPT !.owned = FALSE] ELSE stream

Send(t) ==
  /\ At(t, "sending") /\ lock' = None
  /\ \/ /\ page' = IF client THEN Shown(t) ELSE page
        /\ Goto(t, AfterSend(t))
        /\ previous' = IF t = "status" THEN message[t] ELSE previous
        /\ streamed' = IF Resets(t) THEN looked[t] ELSE streamed
        /\ resumed' = (resumed /\ ~Resets(t))
        /\ UNCHANGED stream
     \/ /\ ~client /\ Goto(t, "disconnected") /\ stream' = Dropped(t)
        /\ UNCHANGED <<page, previous, streamed, resumed>>
  /\ UNCHANGED <<server, faults, client, handler, cancel, looked, message, swallowed>>
-----------------------------------------------------------------------------
(* The status task: ask the Minecraft server, and record its version *)

Ask ==
  /\ At("status", "ask")
  /\ LET ready == Running /\ container.ready /\ container.port = "loaded"
     IN /\ message' = [message EXCEPT !["status"].ready = ready]
        /\ Goto("status", IF ready THEN "record" ELSE Compared(message["status"]))
  /\ UNCHANGED <<server, faults, client, handler, cancel, looked, lock, previous, streamed, stream,
                 page, history>>

\* record_reported_version uses the session of the handler.
Record ==
  /\ At("status", "record")
  /\ Goto("status", Compared(message["status"]))
  /\ UNCHANGED <<server, faults, client, handler, cancel, looked, message, lock, previous, streamed,
                 stream, page, history>>
-----------------------------------------------------------------------------
(* The log task: stream_logs *)

NewContainer == Resets("logs")

\* Mutant: every stream begins with the past.
TailAlways == PastLines

\* A stream of the container that was streamed before shows new lines only.
TailLines == IF NewContainer THEN PastLines ELSE 0

\* open_stream takes the container that has the name by now.
Open ==
  /\ At("logs", "open")
  /\ IF container.state = "not_created"
     THEN Goto("logs", "look") /\ UNCHANGED <<stream, resumed>>
     ELSE /\ Goto("logs", "read")
          /\ stream' = [id |-> container.id, owned |-> TRUE,
                        at |-> IF printed > TailLines THEN printed - TailLines ELSE 0]
          /\ resumed' = (resumed \/ ~NewContainer \/ container.id # streamed)
  /\ UNCHANGED <<server, faults, client, handler, cancel, looked, message, lock, previous, streamed,
                 page, swallowed>>

\* A stream that follows ends when its container does.
Read ==
  /\ At("logs", "read")
  /\ \/ /\ stream.id = container.id /\ stream.at < printed
        /\ message' = [message EXCEPT !["logs"] = <<stream.id, stream.at + 1>>]
        /\ stream' = [stream EXCEPT !.at = @ + 1] /\ Goto("logs", "send")
     \/ /\ ~Running \/ stream.id # container.id
        /\ stream.id = container.id => stream.at >= printed
        /\ Goto("logs", "close") /\ UNCHANGED <<stream, message>>
  /\ UNCHANGED <<server, faults, client, handler, cancel, looked, lock, previous, streamed, page,
                 history>>

Close ==
  /\ At("logs", "close") /\ stream' = None /\ Goto("logs", "look")
  /\ UNCHANGED <<server, faults, client, handler, cancel, looked, message, lock, previous, streamed,
                 page, history>>

\* The event loop closes generators that nobody iterates any more.
Finalize ==
  /\ stream # None /\ ~stream.owned /\ stream' = None
  /\ UNCHANGED <<server, faults, client, handler, pc, cancel, looked, message, lock, previous,
                 streamed, page, history>>
-----------------------------------------------------------------------------
(* The end of the handler *)

\* Mutant: a task that is cancelled while it sends keeps the lock.
LockKept(t) == lock

Unlocked(t) == IF lock = t THEN None ELSE lock

\* CancelledError: inside of stream_logs the stream is closed first.
Unwind(t) ==
  /\ cancel[t] /\ ~Done(t)
  /\ lock' = Unlocked(t)
  /\ Goto(t, "cancelled")
  /\ looked' = [looked EXCEPT ![t] = None] /\ message' = [message EXCEPT ![t] = None]
  /\ previous' = IF t = "status" THEN None ELSE previous
  /\ streamed' = IF t = "logs" THEN None ELSE streamed
  /\ stream' = IF t = "logs" /\ pc[t] \in {"read", "close"} THEN None ELSE Dropped(t)
  /\ UNCHANGED <<server, faults, client, handler, cancel, page, history>>

Leaves ==
  /\ client /\ client' = FALSE /\ page' = Blank
  /\ UNCHANGED <<server, faults, handler, pc, cancel, looked, message, lock, previous, streamed,
                 stream, history>>

\* Mutant: the tasks are not cancelled.
CancelsNothing == cancel

Cancels == [t \in Task |-> ~Done(t)]

\* A disconnect was received, or a task has ended with an error.
Leave ==
  /\ handler = "serving" /\ (~client \/ \E t \in Task : Done(t))
  /\ cancel' = Cancels /\ handler' = "await_status"
  /\ UNCHANGED <<server, faults, client, pc, looked, message, lock, previous, streamed, stream, page,
                 history>>

\* Mutant: the tasks are awaited in the other order.
LogsFirst == [await_status |-> "logs", await_logs |-> "status"]

Awaited == [await_status |-> "status", await_logs |-> "logs"]

\* A failure of the task that is awaited ends the handler at once.
Await ==
  /\ handler \in {"await_status", "await_logs"}
  /\ LET t == Awaited[handler]
     IN /\ Done(t)
        /\ handler' = IF handler = "await_logs" \/ pc[t] = "failed" THEN "done" ELSE "await_logs"
  /\ UNCHANGED <<server, faults, client, pc, cancel, looked, message, lock, previous, streamed, stream,
                 page, history>>
-----------------------------------------------------------------------------
(* Failures *)

\* Docker or the database fails: only a stream that breaks is handled.
Fails(t) ==
  /\ ~cancel[t] /\ pc[t] \in {"look", "inspect", "open", "record", "read"}
  /\ Goto(t, IF pc[t] = "read" THEN "close" ELSE "failed")
  /\ UNCHANGED <<cancel, message, swallowed>>

\* The Minecraft server does not answer: MinecraftStatusError.  When its
\* connection breaks while the query is cancelled, so does the cancellation.
NoAnswer ==
  /\ pc["status"] = "ask"
  /\ Goto("status", Compared(message["status"]))
  /\ cancel' = [cancel EXCEPT !["status"] = FALSE]
  /\ swallowed' = (swallowed \/ cancel["status"])
  /\ UNCHANGED message

Fault ==
  /\ faults < MaxFaults /\ faults' = faults + 1
  /\ (\E t \in Task : Fails(t)) \/ NoAnswer
  /\ UNCHANGED <<server, client, handler, looked, lock, previous, streamed, stream, page, resumed>>

Step(t) ==
  \/ Look(t) \/ Inspect(t) \/ Acquire(t) \/ Send(t) \/ Unwind(t)
  \/ t = "status" /\ (Ask \/ Record)
  \/ t = "logs" /\ (Open \/ Read \/ Close)

\* The handler is over, and nothing of it remains.
Over == handler = "done" /\ (\A t \in Task : Done(t)) /\ stream = None /\ lock = None

Rest == Over /\ UNCHANGED vars

Next ==
  \/ \E t \in Task : Step(t)
  \/ ServerStep \/ Leaves \/ Leave \/ Await \/ Finalize \/ Fault \/ Rest

Spec == Init /\ [][Next]_vars

\* The event loop runs every task that can go on.
Fairness ==
  /\ \A t \in Task : WF_vars(Step(t))
  /\ WF_vars(Leave \/ Await) /\ WF_vars(Finalize)

FairSpec == Spec /\ Fairness
-----------------------------------------------------------------------------
(* Properties *)

\* Every variable has its type, and the lock is held by the task that sends.
TypeOK ==
  /\ container \in Container /\ printed \in 0 .. MaxLines
  /\ handler \in {"serving", "await_status", "await_logs", "done"}
  /\ page.status \in Status \cup {None} /\ page.log \in Seq(Line)
  /\ previous \in Status \cup {None} /\ streamed \in Id \cup {None}
  /\ \A t \in Task : lock = t <=> pc[t] = "sending"

\* The log of the page never shows a line twice, and none before an older one,
\* although streams end, break and are opened again.  Until a stream is resumed
\* the log is of one container, without a gap: the page never mixes the lines of
\* a server's containers.
LogFaithful ==
  /\ \A i, j \in DOMAIN page.log :
       i < j => \/ page.log[i][1] < page.log[j][1]
                \/ page.log[i][1] = page.log[j][1] /\ page.log[i][2] < page.log[j][2]
  /\ ~resumed => \A i \in 2 .. Len(page.log) :
                   page.log[i] = <<page.log[i-1][1], page.log[i-1][2] + 1>>

\* The handler returns, which closes its session, after the task that uses it,
\* whichever task failed first.
SessionUnused == handler = "done" => Done("status")

StatusShown ==
  handler = "serving" =>
    page.status = [state |-> container.state,
                   ready |-> container.ready /\ container.port = "loaded"]

LastLineShown ==
  handler = "serving" /\ Running /\ ~resumed /\ printed > 0 =>
    page.log # <<>> /\ Last(page.log) = <<container.id, printed>>

\* While the console is open the page comes to show what the server does, again
\* and again, and the last line that it printed.
PageCatchesUp == []<>StatusShown /\ []<>LastLineShown

\* When the browser leaves or a task fails, everything is released, unless the
\* cancellation is lost.
HandlerEnds == []<>(~client \/ (\E t \in Task : Done(t)) => Over \/ swallowed)
=============================================================================
