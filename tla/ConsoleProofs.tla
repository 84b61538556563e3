---------------------------- MODULE ConsoleProofs ----------------------------
(***************************************************************************)
(* Theorems about Console for every number of starts, lines and failures   *)
(* and every length of the past that a stream begins with.                 *)
(***************************************************************************)
EXTENDS Console, TLAPS

(* The inductive invariant *)

StepsOf == [status |-> {"look", "inspect", "ask", "record", "send", "sending"} \cup Ended,
            logs |-> {"look", "inspect", "send", "sending", "open", "read", "close"} \cup Ended]
Stream == [id : Id, owned : BOOLEAN, at : Nat]
Page == [status : Status \cup {None}, log : Seq(Line)]

Stores ==
  /\ container \in Container /\ container.id <= starts + 1
  /\ printed \in 0 .. MaxLines /\ starts \in 0 .. MaxStarts
  /\ client \in BOOLEAN /\ resumed \in BOOLEAN
  /\ handler \in {"serving", "await_status", "await_logs", "done"}
  /\ page \in Page /\ (~client => page.log = <<>>)
  /\ previous \in Status \cup {None} /\ streamed \in Id \cup {None}
  /\ lock \in Task \cup {None} /\ stream \in Stream \cup {None}

\* The log task holds a line that it has read.
Pending == pc["logs"] \in {"send", "sending"} /\ message["logs"] # Reset

\* It has a stream.
Streaming == pc["logs"] \in {"read", "close"} \/ Pending

Tasks ==
  /\ DOMAIN pc = Task /\ DOMAIN message = Task /\ DOMAIN looked = Task
  /\ \A t \in Task : /\ pc[t] \in StepsOf[t]
                     /\ pc[t] = "inspect" => looked[t] \in Id
                     /\ lock = t <=> pc[t] = "sending"
  /\ pc["status"] \in {"ask", "record", "send", "sending"} => message["status"] \in Status
  /\ pc["logs"] \in {"send", "sending"} =>
       /\ message["logs"] \in Line \cup {Reset}
       /\ message["logs"] = Reset => looked["logs"] \in Id
  /\ pc["logs"] = "open" => message["logs"] \in {Reset, None}

\* The status task is awaited first.
AwaitedFirst == handler \in {"await_logs", "done"} => Done("status")

\* A line that is held is the one the stream has come to.
Position ==
  Streaming =>
    /\ stream \in Stream /\ stream.owned
    /\ Pending => message["logs"] = <<stream.id, stream.at>>
    /\ \/ stream.id < container.id
       \/ stream.id = container.id /\ (container.state = "not_created" \/ stream.at <= printed)

Older(a, b) == a[1] < b[1] \/ (a[1] = b[1] /\ a[2] < b[2])
Ordered == \A i, j \in DOMAIN page.log : i < j => Older(page.log[i], page.log[j])

\* No line of a log is beyond line n of container id.
Within(log, id, n) == \A i \in DOMAIN log : Older(log[i], <<id, n + 1>>)

\* The last line of the stream that the page can have.
Sent == IF Pending THEN stream.at - 1 ELSE stream.at

\* No line is of the future: a container that is removed has printed all it will.
Past ==
  /\ Within(page.log, container.id, IF container.state = "not_created" THEN MaxLines ELSE printed)
  /\ Streaming => Within(page.log, stream.id, Sent)
  /\ pc["logs"] = "open" /\ message["logs"] = Reset => page.log = <<>>

Successive(log) == \A i \in 2 .. Len(log) : log[i] = <<log[i-1][1], log[i-1][2] + 1>>

\* A log without a gap ends where its stream is.
Gapless ==
  ~resumed => /\ Successive(page.log)
              /\ Streaming /\ page.log # <<>> => page.log[Len(page.log)] = <<stream.id, Sent>>

IInv == Stores /\ Tasks /\ AwaitedFirst /\ Position /\ Ordered /\ Past /\ Gapless
-----------------------------------------------------------------------------
(* The types *)

\* Going to another step moves one task.
LEMMA Moves ==
  ASSUME Tasks, NEW t \in Task, NEW step, Goto(t, step)
  PROVE  /\ DOMAIN pc' = Task /\ pc'[t] = step
         /\ \A u \in Task : u # t => pc'[u] = pc[u]
BY DEF Tasks, Goto

\* The server's steps leave container, printed and starts in their types.
LEMMA ServerTyped ==
  ASSUME Stores, ServerStep
  PROVE  /\ container' \in Container /\ container'.id <= starts' + 1
         /\ printed' \in 0 .. MaxLines /\ starts' \in 0 .. MaxStarts
<1>1. MaxStarts \in Nat /\ MaxLines \in Nat
  BY BoundAssumption
<1>2. CASE Create
  BY <1>1, <1>2 DEF Stores, Create, Container, Id, State
<1>3. CASE StartAgain
  BY <1>1, <1>3 DEF Stores, StartAgain, Container, Id, State
<1>4. CASE Prints
  BY <1>1, <1>4 DEF Stores, Prints, Container, Id, State, Running
<1>5. CASE Listens
  BY <1>1, <1>5 DEF Stores, Listens, Container, Id, State, Running
<1>6. CASE Exits
  BY <1>1, <1>6 DEF Stores, Exits, Container, Id, State, Running
<1>7. CASE Removed
  <2>1. /\ container' = [container EXCEPT !.state = "not_created", !.port = "loaded"]
        /\ printed' = 0 /\ starts' = starts /\ container \in Container
    BY <1>7 DEF Removed, Stores
  <2>2. container' \in Container /\ container'.id = container.id
    BY <2>1 DEF Container, State
  <2> QED BY <1>1, <2>1, <2>2 DEF Stores
<1> QED BY <1>2, <1>3, <1>4, <1>5, <1>6, <1>7 DEF ServerStep

\* What StatusSees has to send is a status.
LEMMA StatusTyped ==
  ASSUME Tasks, NEW state \in State, StatusSees(state)
  PROVE  /\ message'["status"] \in Status /\ message'["logs"] = message["logs"]
         /\ looked'["logs"] = looked["logs"]
         /\ DOMAIN message' = Task /\ DOMAIN looked' = Task /\ DOMAIN pc' = Task
         /\ pc'["status"] \in {"look", "ask", "send"} /\ pc'["logs"] = pc["logs"]
<1>1. "status" \in Task /\ "logs" \in Task
  BY DEF Task
<1>2. [state |-> state, ready |-> FALSE] \in Status
  BY DEF Status
<1>3. DOMAIN message' = Task /\ DOMAIN looked' = Task
      /\ message'["status"] = [state |-> state, ready |-> FALSE]
      /\ message'["logs"] = message["logs"] /\ looked'["logs"] = looked["logs"]
  BY <1>1 DEF Tasks, StatusSees
<1>4. \E step \in {"look", "ask", "send"} : Goto("status", step)
  BY DEF StatusSees, Compared
<1>5. DOMAIN pc' = Task /\ pc'["status"] \in {"look", "ask", "send"} /\ pc'["logs"] = pc["logs"]
  BY <1>1, <1>4, Moves
<1> QED BY <1>2, <1>3, <1>5

\* LogsSee sends logs_reset for a new container, and opens the stream again of
\* the one that it streamed.
LEMMA LogsTyped ==
  ASSUME Tasks, NEW id, NEW state \in State, LogsSee(id, state), state = "running" => id \in Id
  PROVE  /\ message'["status"] = message["status"] /\ looked'["status"] = looked["status"]
         /\ DOMAIN message' = Task /\ DOMAIN looked' = Task /\ DOMAIN pc' = Task
         /\ pc'["status"] = pc["status"] /\ pc'["logs"] \in {"look", "send", "open"}
         /\ pc'["logs"] = "send" => message'["logs"] = Reset /\ looked'["logs"] \in Id
         /\ pc'["logs"] = "open" => message'["logs"] = None
<1>1. "status" \in Task /\ "logs" \in Task
  BY DEF Task
<1> DEFINE new == state = "running" /\ id # streamed
<1>2. DOMAIN message' = Task /\ DOMAIN looked' = Task
      /\ message'["logs"] = (IF new THEN Reset ELSE None)
      /\ looked'["logs"] = (IF new THEN id ELSE None)
      /\ message'["status"] = message["status"] /\ looked'["status"] = looked["status"]
  BY <1>1 DEF Tasks, LogsSee
<1>3. Goto("logs", IF state # "running" THEN "look" ELSE IF new THEN "send" ELSE "open")
  BY DEF LogsSee
<1>4. DOMAIN pc' = Task /\ pc'["status"] = pc["status"]
      /\ pc'["logs"] = IF state # "running" THEN "look" ELSE IF new THEN "send" ELSE "open"
  BY <1>1, <1>3, Moves
<1> QED BY <1>2, <1>4

\* A task that looks or inspects ends, goes on to inspect, or sees the container.
LEMMA SeesTyped ==
  ASSUME Tasks, NEW t \in Task, NEW id, NEW state \in State, Sees(t, id, state),
         state = "running" => id \in Id, pc[t] \in {"look", "inspect"}, lock' = lock
  PROVE  Tasks'
<1>1. "status" \in Task /\ "logs" \in Task /\ "status" # "logs"
  BY DEF Task
<1>2. CASE t = "status"
  <2>1. StatusSees(state)
    BY <1>2 DEF Sees
  <2> QED BY <1>1, <1>2, <2>1, StatusTyped DEF Tasks, Task, StepsOf
<1>3. CASE t = "logs"
  <2>1. LogsSee(id, state)
    BY <1>3 DEF Sees
  <2> QED BY <1>1, <1>3, <2>1, LogsTyped DEF Tasks, Task, StepsOf
<1> QED BY <1>2, <1>3 DEF Task

\* A task that ends, or goes on with what it has, leaves the rest as it is.
LEMMA GoesTyped ==
  ASSUME Tasks, NEW t \in Task, NEW step \in StepsOf[t], Goto(t, step), UNCHANGED <<message, looked>>,
         step \notin {"inspect", "sending", "open"}, step \in {"ask", "record", "send"} => t = "status",
         t = "status" /\ step \in {"ask", "record", "send"} => message["status"] \in Status,
         pc[t] # "sending", lock' = lock
  PROVE  Tasks'
<1>1. /\ DOMAIN pc' = Task /\ pc'[t] = step
      /\ \A u \in Task : u # t => pc'[u] = pc[u]
  BY Moves
<1>2. "status" \in Task /\ "logs" \in Task
  BY DEF Task
<1> QED BY <1>1, <1>2 DEF Tasks, Task

\* Each task has what its next step takes, and the lock is held by the one that sends.
LEMMA TasksKept ==
  ASSUME IInv, [Next]_vars
  PROVE  Tasks'
<1> USE DEF IInv
<1>1. "status" \in Task /\ "logs" \in Task /\ None \notin Task /\ None # Reset
  BY NoneAssumption DEF Task
<1>2. ASSUME NEW t \in Task, Look(t) PROVE Tasks'
  <2>1. At(t, "look") /\ lock' = lock
    BY <1>2 DEF Look
  <2>2. CASE container.state = "not_created"
    <3>1. Sees(t, None, "not_created")
      BY <1>2, <2>2 DEF Look
    <3> QED BY <2>1, <3>1, SeesTyped DEF At, State
  <2>3. CASE container.state # "not_created"
    <3>1. looked' = [looked EXCEPT ![t] = container.id] /\ Goto(t, "inspect") /\ message' = message
      BY <1>2, <2>3 DEF Look
    <3>2. container.id \in Id
      BY DEF Stores, Container
    <3>3. /\ DOMAIN pc' = Task /\ pc'[t] = "inspect"
          /\ \A u \in Task : u # t => pc'[u] = pc[u]
      BY <3>1, Moves
    <3>4. /\ DOMAIN looked' = Task /\ looked'[t] \in Id
          /\ \A u \in Task : u # t => looked'[u] = looked[u]
      BY <3>1, <3>2 DEF Tasks
    <3> QED BY <1>1, <2>1, <3>1, <3>3, <3>4 DEF Tasks, Task, StepsOf, At
  <2> QED BY <2>2, <2>3
<1>3. ASSUME NEW t \in Task, Inspect(t) PROVE Tasks'
  <2>1. At(t, "inspect") /\ lock' = lock
    BY <1>3 DEF Inspect
  <2>2. CASE container.state = "not_created" \/ container.id # looked[t]
    <3>1. Goto(t, "failed") /\ UNCHANGED <<message, looked>>
      BY <1>3, <2>2 DEF Inspect
    <3>2. "failed" \in StepsOf[t]
      BY DEF StepsOf, Ended, Task
    <3> QED BY <2>1, <3>1, <3>2, GoesTyped DEF At
  <2>3. CASE ~(container.state = "not_created" \/ container.id # looked[t])
    <3>1. Sees(t, looked[t], container.state)
      BY <1>3, <2>3 DEF Inspect
    <3>2. container.state \in State /\ looked[t] \in Id
      BY <2>1 DEF Stores, Container, Tasks, At
    <3> QED BY <2>1, <3>1, <3>2, SeesTyped DEF At
  <2> QED BY <2>2, <2>3
<1>4. ASSUME NEW t \in Task, Acquire(t) PROVE Tasks'
  <2>1. At(t, "send") /\ lock = None /\ lock' = t /\ UNCHANGED <<looked, message>>
    BY <1>4 DEF Acquire
  <2>2. /\ DOMAIN pc' = Task /\ pc'[t] = "sending"
        /\ \A u \in Task : u # t => pc'[u] = pc[u]
    BY <1>4, Moves DEF Acquire
  <2> QED BY <1>1, <2>1, <2>2 DEF Tasks, Task, StepsOf, At
<1>5. ASSUME NEW t \in Task, Send(t) PROVE Tasks'
  <2>1. At(t, "sending") /\ lock' = None /\ UNCHANGED <<looked, message>>
    BY <1>5 DEF Send
  <2>2. lock = t
    BY <2>1 DEF Tasks, At
  <2>3. Goto(t, AfterSend(t)) \/ Goto(t, "disconnected")
    BY <1>5 DEF Send
  <2>4. /\ AfterSend(t) \in StepsOf[t] \ {"inspect", "ask", "record", "send", "sending"}
        /\ AfterSend(t) = "open" => t = "logs" /\ message["logs"] = Reset
    BY DEF AfterSend, StepsOf, Task, Resets
  <2>5. "disconnected" \in StepsOf[t]
    BY DEF StepsOf, Ended, Task
  <2>6. PICK step \in StepsOf[t] \ {"inspect", "ask", "record", "send", "sending"} :
          Goto(t, step) /\ (step = "open" => t = "logs" /\ message["logs"] = Reset)
    BY <2>3, <2>4, <2>5
  <2>7. /\ DOMAIN pc' = Task /\ pc'[t] = step
        /\ \A u \in Task : u # t => pc'[u] = pc[u]
    BY <2>6, Moves
  <2> QED BY <1>1, <2>1, <2>2, <2>6, <2>7 DEF Tasks, Task
<1>6. ASSUME NEW t \in Task, Unwind(t) PROVE Tasks'
  <2>1. /\ lock' = Unlocked(t) /\ Goto(t, "cancelled")
        /\ looked' = [looked EXCEPT ![t] = None] /\ message' = [message EXCEPT ![t] = None]
    BY <1>6 DEF Unwind
  <2>2. /\ DOMAIN pc' = Task /\ pc'[t] = "cancelled"
        /\ \A u \in Task : u # t => pc'[u] = pc[u]
    BY <2>1, Moves
  <2>3. /\ DOMAIN looked' = Task /\ DOMAIN message' = Task
        /\ \A u \in Task : u # t => looked'[u] = looked[u] /\ message'[u] = message[u]
    BY <2>1 DEF Tasks
  <2>4. "cancelled" \in StepsOf[t]
    BY DEF StepsOf, Ended, Task
  <2>5. \A u \in Task : lock' = u <=> pc'[u] = "sending"
    BY <1>1, <2>1, <2>2 DEF Unlocked, Tasks
  <2> QED BY <1>1, <2>2, <2>3, <2>4, <2>5 DEF Tasks, Task
<1>7. ASSUME Ask \/ Record PROVE Tasks'
  <2>1. pc["status"] \in {"ask", "record"} /\ message["status"] \in Status
    BY <1>7 DEF Ask, Record, At, Tasks
  <2>2. PICK step \in {"look", "record", "send"} : Goto("status", step)
    BY <1>7 DEF Ask, Record, Compared
  <2>3. /\ DOMAIN pc' = Task /\ pc'["status"] = step /\ pc'["logs"] = pc["logs"]
    BY <1>1, <2>2, Moves
  <2>4. /\ DOMAIN message' = Task /\ message'["logs"] = message["logs"]
        /\ message'["status"] \in Status
    <3>1. CASE Ask
      <4>1. PICK ready \in BOOLEAN : message' = [message EXCEPT !["status"].ready = ready]
        BY <3>1 DEF Ask, Running
      <4>2. message'["status"] = [message["status"] EXCEPT !.ready = ready]
        BY <1>1, <4>1 DEF Tasks
      <4>3. message'["status"] \in Status
        BY <2>1, <4>2 DEF Status
      <4> QED BY <1>1, <4>1, <4>3 DEF Tasks
    <3>2. CASE Record
      BY <2>1, <3>2 DEF Record, Tasks
    <3> QED BY <1>7, <3>1, <3>2
  <2>5. UNCHANGED <<looked, lock>>
    BY <1>7 DEF Ask, Record
  <2> QED BY <1>1, <2>1, <2>2, <2>3, <2>4, <2>5 DEF Tasks, Task, StepsOf
<1>8. CASE Open \/ Close
  <2>1. pc["logs"] \in {"open", "close"} /\ UNCHANGED <<message, looked, lock>>
    BY <1>8 DEF Open, Close, At
  <2>2. PICK step \in {"look", "read"} : Goto("logs", step)
    BY <1>8 DEF Open, Close
  <2>3. step \in StepsOf["logs"]
    BY DEF StepsOf
  <2> QED BY <1>1, <2>1, <2>2, <2>3, GoesTyped
<1>9. CASE Read
  <2>1. pc["logs"] = "read" /\ UNCHANGED <<looked, lock>>
    BY <1>9 DEF Read, At
  <2>2. CASE Goto("logs", "close") /\ message' = message
    BY <1>1, <2>1, <2>2, GoesTyped DEF StepsOf
  <2>3. CASE /\ stream.at < printed /\ Goto("logs", "send")
             /\ message' = [message EXCEPT !["logs"] = <<stream.id, stream.at + 1>>]
    <3>1. stream \in Stream
      BY <2>1 DEF Position, Streaming
    <3>2. stream.id \in Id /\ stream.at \in Nat /\ printed \in Nat /\ MaxLines \in Nat
          /\ printed <= MaxLines
      BY <3>1, BoundAssumption DEF Stream, Stores
    <3>3. stream.at + 1 \in 1 .. MaxLines
      BY <2>3, <3>2
    <3>4. <<stream.id, stream.at + 1>> \in Line
      BY <3>2, <3>3 DEF Line
    <3>5. <<stream.id, stream.at + 1>> # Reset
      BY DEF Reset
    <3>6. /\ DOMAIN message' = Task /\ message'["status"] = message["status"]
          /\ message'["logs"] \in Line /\ message'["logs"] # Reset
      BY <1>1, <2>3, <3>4, <3>5 DEF Tasks
    <3>7. DOMAIN pc' = Task /\ pc'["logs"] = "send" /\ pc'["status"] = pc["status"]
      BY <1>1, <2>3, Moves
    <3> QED BY <1>1, <2>1, <3>6, <3>7 DEF Tasks, Task, StepsOf
  <2> QED BY <1>9, <2>2, <2>3 DEF Read
<1>10. CASE Fault
  <2>1. UNCHANGED <<message, looked, lock>>
    BY <1>10 DEF Fault, Fails, NoAnswer
  <2>2. CASE NoAnswer
    <3>1. PICK step \in {"look", "send"} : Goto("status", step)
      BY <2>2 DEF NoAnswer, Compared
    <3>2. step \in StepsOf["status"] /\ pc["status"] = "ask" /\ message["status"] \in Status
      BY <2>2 DEF StepsOf, NoAnswer, Tasks
    <3> QED BY <1>1, <2>1, <3>1, <3>2, GoesTyped
  <2>3. ASSUME NEW t \in Task, Fails(t) PROVE Tasks'
    <3>1. pc[t] \in {"look", "inspect", "open", "record", "read"}
          /\ Goto(t, IF pc[t] = "read" THEN "close" ELSE "failed")
      BY <2>3 DEF Fails
    <3>2. (IF pc[t] = "read" THEN "close" ELSE "failed") \in StepsOf[t]
      BY DEF Tasks, StepsOf, Task, Ended
    <3> QED BY <2>1, <3>1, <3>2, GoesTyped
  <2> QED BY <1>10, <2>2, <2>3 DEF Fault
<1>11. CASE ServerStep \/ Leaves \/ Leave \/ Await \/ Finalize \/ Rest \/ UNCHANGED vars
  <2>1. UNCHANGED <<pc, lock, message, looked>>
    BY <1>11 DEF ServerStep, OthersUnchanged, Leaves, Leave, Await, Finalize, Rest, vars
  <2> QED BY <2>1 DEF Tasks
<1> QED BY <1>2, <1>3, <1>4, <1>5, <1>6, <1>7, <1>8, <1>9, <1>10, <1>11 DEF Next, Step

\* A stream that is dropped is still a stream.
LEMMA DroppedTyped ==
  ASSUME Stores, NEW t \in Task
  PROVE  Dropped(t) \in Stream \cup {None}
BY DEF Stores, Dropped, Stream

\* What the page shows when a message has been sent.
LEMMA ShownTyped ==
  ASSUME IInv, NEW t \in Task, pc[t] = "sending"
  PROVE  Shown(t) \in Page
<1>1. page \in Page
  BY DEF IInv, Stores
<1>2. CASE t = "status"
  <2>1. message[t] \in Status /\ Shown(t) = [page EXCEPT !.status = message[t]]
    BY <1>2 DEF IInv, Tasks, Shown
  <2> QED BY <1>1, <2>1 DEF Page
<1>3. CASE t = "logs" /\ message[t] = Reset
  <2>1. Shown(t) = [page EXCEPT !.log = <<>>]
    BY <1>3 DEF Shown, Resets
  <2>2. <<>> \in Seq(Line)
    OBVIOUS
  <2>3. Shown(t) = [status |-> page.status, log |-> <<>>]
    BY <1>1, <2>1 DEF Page
  <2> QED BY <1>1, <2>2, <2>3 DEF Page
<1>4. CASE t = "logs" /\ message[t] # Reset
  <2>1. Shown(t) = [page EXCEPT !.log = Append(page.log, message[t])] /\ message[t] \in Line
    BY <1>4 DEF Shown, Resets, IInv, Tasks
  <2>2. Append(page.log, message[t]) \in Seq(Line)
    BY <1>1, <2>1 DEF Page
  <2> QED BY <1>1, <2>1, <2>2 DEF Page
<1> QED BY <1>2, <1>3, <1>4 DEF Task

\* Every step keeps the types and the owner of the lock.
LEMMA StoresKept ==
  ASSUME IInv, [Next]_vars
  PROVE  Stores'
<1> USE DEF IInv
<1>1. "status" \in Task /\ "logs" \in Task
  BY DEF Task
<1>2. CASE ServerStep
  <2>1. UNCHANGED <<client, handler, lock, page, previous, streamed, stream, resumed>>
    BY <1>2 DEF ServerStep, OthersUnchanged, history
  <2> QED BY <1>2, <2>1, ServerTyped DEF Stores
<1>3. ASSUME NEW t \in Task, Send(t) PROVE Stores'
  <2>1. /\ UNCHANGED <<container, printed, starts, client, handler>> /\ lock' = None
        /\ pc[t] = "sending" /\ stream' \in {stream, Dropped(t)}
    BY <1>3 DEF Send, At, server
  <2>2. page' \in Page /\ (~client => page' = page)
    BY <1>3, <2>1, ShownTyped DEF Send, Stores
  <2>3. previous' \in Status \cup {None} /\ streamed' \in Id \cup {None}
    <3>1. previous' = previous \/ (previous' = message["status"] /\ t = "status")
      BY <1>3 DEF Send
    <3>2. streamed' = streamed \/ (streamed' = looked["logs"] /\ t = "logs" /\ message["logs"] = Reset)
      BY <1>3 DEF Send, Resets
    <3> QED BY <2>1, <3>1, <3>2 DEF Stores, Tasks
  <2>4. resumed' \in BOOLEAN
    BY <1>3 DEF Send, Stores
  <2> QED BY <2>1, <2>2, <2>3, <2>4, DroppedTyped DEF Stores
<1>4. ASSUME NEW t \in Task, Unwind(t) PROVE Stores'
  <2>1. /\ UNCHANGED <<container, printed, starts, client, handler, page, resumed>>
        /\ lock' \in {lock, None} /\ previous' \in {previous, None} /\ streamed' \in {streamed, None}
        /\ stream' \in {None, Dropped(t)}
    BY <1>4 DEF Unwind, Unlocked, server, history
  <2> QED BY <2>1, DroppedTyped DEF Stores
<1>5. CASE Open
  <2>1. /\ UNCHANGED <<container, printed, starts, client, handler, page, lock, previous, streamed>>
        /\ resumed' \in BOOLEAN
    BY <1>5 DEF Open, server, Stores
  <2>2. stream' \in Stream \cup {None}
    <3>1. CASE UNCHANGED stream
      BY <3>1 DEF Stores
    <3>2. CASE stream' = [id |-> container.id, owned |-> TRUE,
                          at |-> IF printed > TailLines THEN printed - TailLines ELSE 0]
      <4>1. TailLines \in Nat /\ printed \in Nat /\ container.id \in Id
        BY BoundAssumption DEF Stores, Container, TailLines
      <4>2. (IF printed > TailLines THEN printed - TailLines ELSE 0) \in Nat
        BY <4>1
      <4> QED BY <3>2, <4>1, <4>2 DEF Stream
    <3> QED BY <1>5, <3>1, <3>2 DEF Open
  <2> QED BY <2>1, <2>2 DEF Stores
<1>6. CASE Read
  <2>1. UNCHANGED <<container, printed, starts, client, handler, page, lock, previous, streamed, resumed>>
    BY <1>6 DEF Read, server, history
  <2>2. stream \in Stream
    BY <1>6 DEF Read, At, Position, Streaming
  <2>3. stream' = stream \/ stream' = [stream EXCEPT !.at = @ + 1]
    BY <1>6 DEF Read
  <2>4. stream' \in Stream
    BY <2>2, <2>3 DEF Stream
  <2> QED BY <2>1, <2>4 DEF Stores
<1>7. CASE Close \/ Finalize
  <2>1. /\ UNCHANGED <<container, printed, starts, client, handler, page, lock, previous, streamed, resumed>>
        /\ stream' = None
    BY <1>7 DEF Close, Finalize, server, history
  <2> QED BY <2>1 DEF Stores
<1>8. CASE Leaves
  <2>1. /\ UNCHANGED <<container, printed, starts, handler, lock, previous, streamed, stream, resumed>>
        /\ client' = FALSE /\ page' = Blank
    BY <1>8 DEF Leaves, server, history
  <2>2. Blank \in Page /\ Blank.log = <<>>
    BY DEF Blank, Page
  <2> QED BY <2>1, <2>2 DEF Stores
<1>9. CASE Leave \/ Await
  <2>1. UNCHANGED <<container, printed, starts, client, page, lock, previous, streamed, stream, resumed>>
    BY <1>9 DEF Leave, Await, server, history
  <2>2. handler' \in {"serving", "await_status", "await_logs", "done"}
    BY <1>9 DEF Leave, Await
  <2> QED BY <2>1, <2>2 DEF Stores
<1>10. CASE \/ \E t \in Task : Look(t) \/ Inspect(t)
            \/ Ask \/ Record \/ Fault \/ Rest \/ UNCHANGED vars
  <2>1. UNCHANGED <<container, printed, starts, client, handler, page, lock, previous, streamed,
                    stream, resumed>>
    BY <1>10 DEF Look, Inspect, Ask, Record, Fault, Rest, vars, server, history
  <2> QED BY <2>1 DEF Stores
<1>11. ASSUME NEW t \in Task, Acquire(t) PROVE Stores'
  <2>1. /\ UNCHANGED <<container, printed, starts, client, handler, page, previous, streamed,
                       stream, resumed>>
        /\ lock' = t
    BY <1>11 DEF Acquire, server, history
  <2> QED BY <2>1 DEF Stores
<1> QED BY <1>2, <1>3, <1>4, <1>5, <1>6, <1>7, <1>8, <1>9, <1>10, <1>11 DEF Next, Step

\* The status task has ended before the handler goes on, and a task that has
\* ended stays so.
LEMMA AwaitedFirstKept ==
  ASSUME IInv, [Next]_vars
  PROVE  AwaitedFirst'
<1> USE DEF IInv
<1>1. Done("status") => Done("status")'
  <2> SUFFICES ASSUME pc["status"] \in Ended PROVE pc'["status"] = pc["status"]
    BY DEF Done
  <2> USE DEF Ended
  <2>1. "status" \in Task
    BY DEF Task
  <2>2. ASSUME NEW t \in Task, NEW step, Goto(t, step), pc[t] \notin Ended PROVE pc'["status"] = pc["status"]
    BY <2>1, <2>2, Moves
  <2>3. ASSUME NEW t \in Task, Look(t) \/ Inspect(t) \/ Acquire(t) \/ Send(t) \/ Unwind(t)
        PROVE  pc[t] \notin Ended /\ \E step : Goto(t, step)
    BY <2>3 DEF Look, Inspect, Acquire, Send, Unwind, At, Done, Sees, StatusSees, LogsSee
  <2>4. ASSUME Ask \/ Record PROVE FALSE
    BY <2>4 DEF Ask, Record, At
  <2>5. ASSUME Open \/ Read \/ Close PROVE pc["logs"] \notin Ended /\ \E step : Goto("logs", step)
    BY <2>5 DEF Open, Read, Close, At
  <2>6. ASSUME Fault PROVE \E t \in Task, step \in {"close", "failed"} : pc[t] \notin Ended /\ Goto(t, step)
    BY <2>6 DEF Fault, Fails, NoAnswer
  <2>7. CASE ServerStep \/ Leaves \/ Leave \/ Await \/ Finalize \/ Rest \/ UNCHANGED vars
    BY <2>7 DEF ServerStep, OthersUnchanged, Leaves, Leave, Await, Finalize, Rest, vars
  <2>8. "logs" \in Task
    BY DEF Task
  <2> QED BY <2>2, <2>3, <2>4, <2>5, <2>6, <2>7, <2>8 DEF Next, Step
<1>2. CASE Await
  <2>1. handler = "await_status" => Done("status")
    BY <1>2 DEF Await, Awaited
  <2> QED BY <1>1, <1>2, <2>1 DEF AwaitedFirst, Await
<1>3. CASE ~Await
  <2>1. handler' \in {handler, "await_status"}
    BY <1>3 DEF Next, Step, Look, Inspect, Acquire, Send, Unwind, Ask, Record, Open, Read, Close, Fault,
                ServerStep, OthersUnchanged, Leaves, Leave, Finalize, Rest, vars
  <2> QED BY <1>1, <2>1 DEF AwaitedFirst
<1> QED BY <1>2, <1>3
-----------------------------------------------------------------------------
(* What a step does to the log *)

SameServer == UNCHANGED <<container, printed>>

\* A step that the log task has no part in, or that takes none from it.
Still ==
  /\ SameServer /\ resumed' = resumed /\ page'.log \in {page.log, <<>>}
  /\ (Pending' <=> Pending) /\ (Streaming' <=> Streaming)
  /\ Streaming => stream' = stream /\ message'["logs"] = message["logs"]
  /\ pc'["logs"] = "open" => pc["logs"] = "open" /\ message'["logs"] = message["logs"]

\* The log task has no stream afterwards.
Quiet ==
  /\ SameServer /\ resumed' = resumed /\ page'.log = page.log /\ ~Streaming'
  /\ pc'["logs"] = "open" => message'["logs"] # Reset

\* A new container is announced.
Clears == SameServer /\ page'.log = <<>> /\ ~Streaming'

\* The line that was held is sent; the browser may have left.
Shows ==
  /\ SameServer /\ resumed' = resumed /\ Pending /\ pc'["logs"] = "read" /\ ~Pending'
  /\ stream' = stream
  /\ page'.log = IF client THEN Append(page.log, message["logs"]) ELSE <<>>

Opens ==
  /\ SameServer /\ container.state # "not_created" /\ page'.log = page.log
  /\ pc["logs"] = "open" /\ pc'["logs"] = "read" /\ ~Pending'
  /\ stream' = [id |-> container.id, owned |-> TRUE,
                at |-> IF printed > TailLines THEN printed - TailLines ELSE 0]
  /\ ~resumed' => message["logs"] = Reset

Reads ==
  /\ SameServer /\ resumed' = resumed /\ page'.log = page.log
  /\ pc["logs"] = "read" /\ pc'["logs"] = "send" /\ Pending'
  /\ stream.id = container.id /\ stream.at < printed
  /\ stream' = [stream EXCEPT !.at = @ + 1]
  /\ message'["logs"] = <<stream.id, stream.at + 1>>

\* The steps of the log task itself.
LEMMA LogTaskSteps ==
  ASSUME IInv, Step("logs")
  PROVE  Still \/ Quiet \/ Clears \/ Shows \/ Opens \/ Reads
<1> USE DEF IInv
<1>1. "status" \in Task /\ "logs" \in Task /\ None # Reset
  BY NoneAssumption DEF Task
<1>2. DOMAIN message = Task /\ DOMAIN pc = Task
  BY DEF Tasks
<1>3. CASE Look("logs")
  <2>1. CASE container.state = "not_created"
    <3>1. LogsSee(None, "not_created")
      BY <1>3, <2>1 DEF Look, Sees
    <3>2. pc'["logs"] = "look"
      BY <1>1, <3>1, Moves DEF LogsSee
    <3> QED BY <1>3, <3>2 DEF Look, Quiet, SameServer, server, history, Streaming, Pending
  <2>2. CASE container.state # "not_created"
    <3>1. pc'["logs"] = "inspect"
      BY <1>1, <1>3, <2>2, Moves DEF Look
    <3> QED BY <1>3, <3>1 DEF Look, Quiet, SameServer, server, history, Streaming, Pending
  <2> QED BY <2>1, <2>2
<1>4. CASE Inspect("logs")
  <2>1. CASE container.state = "not_created" \/ container.id # looked["logs"]
    <3>1. pc'["logs"] = "failed"
      BY <1>1, <1>4, <2>1, Moves DEF Inspect
    <3> QED BY <1>4, <3>1 DEF Inspect, Quiet, SameServer, server, history, Streaming, Pending
  <2>2. CASE ~(container.state = "not_created" \/ container.id # looked["logs"])
    <3>1. LogsSee(looked["logs"], container.state)
      BY <1>4, <2>2 DEF Inspect, Sees
    <3>2. container.state \in State /\ looked["logs"] \in Id
      BY <1>1, <1>4 DEF Inspect, At, Tasks, Stores, Container
    <3>3. /\ pc'["logs"] \in {"look", "send", "open"}
          /\ pc'["logs"] = "send" => message'["logs"] = Reset
          /\ pc'["logs"] = "open" => message'["logs"] = None
      BY <3>1, <3>2, LogsTyped
    <3> QED BY <1>1, <1>4, <3>3 DEF Inspect, Quiet, SameServer, server, history, Streaming, Pending
  <2> QED BY <2>1, <2>2
<1>5. CASE Acquire("logs")
  <2>1. pc["logs"] = "send" /\ pc'["logs"] = "sending" /\ message' = message
    BY <1>1, <1>5, Moves DEF Acquire, At
  <2> QED BY <1>5, <2>1 DEF Acquire, Still, SameServer, server, history, Streaming, Pending
<1>6. CASE Send("logs")
  <2>1. pc["logs"] = "sending" /\ message' = message /\ SameServer
    BY <1>6 DEF Send, At, SameServer, server
  <2>2. CASE ~client /\ Goto("logs", "disconnected") /\ page' = page /\ resumed' = resumed
    <3>1. pc'["logs"] = "disconnected"
      BY <1>1, <2>2, Moves
    <3> QED BY <2>1, <2>2, <3>1 DEF Quiet, Streaming, Pending
  <2>3. CASE /\ page' = (IF client THEN Shown("logs") ELSE page)
             /\ Goto("logs", AfterSend("logs")) /\ stream' = stream
             /\ resumed' = (resumed /\ ~Resets("logs"))
    <3>1. pc'["logs"] = AfterSend("logs") /\ page.log \in Seq(Line) /\ page \in Page
      BY <1>1, <2>3, Moves DEF Stores, Page
    <3>2. CASE message["logs"] = Reset
      <4>1. page'.log = <<>>
        BY <2>3, <3>1, <3>2 DEF Stores, Shown, Resets, Page
      <4>2. pc'["logs"] = "open"
        BY <3>1, <3>2 DEF AfterSend, Resets
      <4> QED BY <2>1, <4>1, <4>2 DEF Clears, Streaming, Pending
    <3>3. CASE message["logs"] # Reset
      <4>1. page'.log = IF client THEN Append(page.log, message["logs"]) ELSE <<>>
        BY <2>3, <3>1, <3>3 DEF Stores, Shown, Resets, Page
      <4>2. pc'["logs"] = "read"
        BY <3>1, <3>3 DEF AfterSend, Resets
      <4>3. resumed' = resumed
        BY <2>3, <3>3 DEF Resets, Stores
      <4> QED BY <2>1, <2>3, <3>3, <4>1, <4>2, <4>3 DEF Shows, Pending
    <3> QED BY <3>2, <3>3
  <2> QED BY <1>6, <2>2, <2>3 DEF Send
<1>7. CASE Unwind("logs")
  <2>1. pc'["logs"] = "cancelled"
    BY <1>1, <1>7, Moves DEF Unwind
  <2> QED BY <1>7, <2>1 DEF Unwind, Quiet, SameServer, server, history, Streaming, Pending
<1>8. CASE Open
  <2>1. CASE Goto("logs", "look") /\ UNCHANGED <<stream, resumed>>
    <3>1. pc'["logs"] = "look"
      BY <1>1, <2>1, Moves
    <3> QED BY <1>8, <2>1, <3>1 DEF Open, Quiet, SameServer, server, Streaming, Pending
  <2>2. CASE /\ container.state # "not_created" /\ Goto("logs", "read")
             /\ stream' = [id |-> container.id, owned |-> TRUE,
                           at |-> IF printed > TailLines THEN printed - TailLines ELSE 0]
             /\ resumed' = (resumed \/ ~NewContainer \/ container.id # streamed)
    <3>1. pc'["logs"] = "read"
      BY <1>1, <2>2, Moves
    <3>2. ~resumed' => message["logs"] = Reset
      BY <2>2 DEF NewContainer, Resets
    <3> QED BY <1>8, <2>2, <3>1, <3>2 DEF Open, At, Opens, SameServer, server, Pending
  <2> QED BY <1>8, <2>1, <2>2 DEF Open
<1>9. CASE Read
  <2>1. pc["logs"] = "read" /\ SameServer /\ resumed' = resumed /\ page' = page
    BY <1>9 DEF Read, At, SameServer, server, history
  <2>2. CASE Goto("logs", "close") /\ UNCHANGED <<stream, message>>
    <3>1. pc'["logs"] = "close"
      BY <1>1, <2>2, Moves
    <3> QED BY <2>1, <2>2, <3>1 DEF Still, Streaming, Pending
  <2>3. CASE /\ stream.id = container.id /\ stream.at < printed
             /\ message' = [message EXCEPT !["logs"] = <<stream.id, stream.at + 1>>]
             /\ stream' = [stream EXCEPT !.at = @ + 1] /\ Goto("logs", "send")
    <3>1. pc'["logs"] = "send"
      BY <1>1, <2>3, Moves
    <3>2. message'["logs"] = <<stream.id, stream.at + 1>> /\ message'["logs"] # Reset
      BY <1>1, <1>2, <2>3 DEF Reset
    <3> QED BY <2>1, <2>3, <3>1, <3>2 DEF Reads, Pending
  <2> QED BY <1>9, <2>2, <2>3 DEF Read
<1>10. CASE Close
  <2>1. pc'["logs"] = "look"
    BY <1>1, <1>10, Moves DEF Close
  <2> QED BY <1>10, <2>1 DEF Close, Quiet, SameServer, server, history, Streaming, Pending
<1> QED BY <1>3, <1>4, <1>5, <1>6, <1>7, <1>8, <1>9, <1>10 DEF Step

\* A step that leaves the log task where it is, with what it has.
LEMMA Beside ==
  ASSUME pc'["logs"] = pc["logs"], message'["logs"] = message["logs"],
         SameServer, resumed' = resumed, page'.log \in {page.log, <<>>},
         Streaming => stream' = stream
  PROVE  Still
BY DEF Still, Streaming, Pending

\* The steps of the status task touch neither the log nor the containers.
LEMMA StatusTaskSteps ==
  ASSUME IInv, Step("status")
  PROVE  Still
<1> USE DEF IInv
<1>1. "status" \in Task /\ "logs" \in Task /\ "status" # "logs"
  BY DEF Task
<1>2. \E step : Goto("status", step)
  BY DEF Step, Look, Inspect, Acquire, Send, Unwind, Ask, Record, Sees, StatusSees
<1>3. pc'["logs"] = pc["logs"]
  BY <1>1, <1>2, Moves
<1>4. message'["logs"] = message["logs"]
  BY <1>1 DEF Tasks, Step, Look, Inspect, Acquire, Send, Unwind, Ask, Record, Sees, StatusSees
<1>5. Dropped("status") = stream
  BY DEF Dropped
<1>6. SameServer /\ stream' = stream
  BY <1>5 DEF Step, Look, Inspect, Acquire, Send, Unwind, Ask, Record, SameServer, server
<1>7. resumed' = resumed /\ page'.log = page.log
  <2>1. CASE Send("status")
    <3>1. page' = page \/ page' = [page EXCEPT !.status = message["status"]]
      BY <2>1 DEF Send, Shown
    <3>2. page'.log = page.log
      BY <3>1 DEF Stores, Page
    <3>3. resumed' = resumed
      BY <2>1 DEF Send, Resets, Stores
    <3> QED BY <3>2, <3>3
  <2>2. CASE ~Send("status")
    BY <2>2 DEF Step, Look, Inspect, Acquire, Unwind, Ask, Record, history
  <2> QED BY <2>1, <2>2
<1> QED BY <1>3, <1>4, <1>6, <1>7, Beside

\* The server prints, stops, is started again or replaced.
Serves ==
  /\ UNCHANGED <<pc, message, stream, page, resumed>>
  /\ \/ container'.id > container.id
     \/ /\ container'.id = container.id
        /\ \/ container'.state = "not_created"
           \/ container.state # "not_created" /\ container'.state # "not_created" /\ printed' >= printed

\* The steps of the server only add lines and containers.
LEMMA ServerSteps ==
  ASSUME IInv, ServerStep
  PROVE  Serves
<1> USE DEF IInv
<1>1. UNCHANGED <<pc, message, stream, page, resumed>>
  BY DEF ServerStep, OthersUnchanged, history
<1>2. container \in Container /\ printed \in Nat /\ container.id \in Nat
  BY DEF Stores, Container, Id
<1>3. CASE Create
  <2>1. container'.id = container.id + 1
    BY <1>3 DEF Create
  <2> QED BY <1>1, <1>2, <2>1 DEF Serves
<1>4. CASE StartAgain \/ Prints \/ Listens \/ Exits
  <2>1. container'.id = container.id /\ container'.state \in {"running", "exited"}
    BY <1>2, <1>4 DEF StartAgain, Prints, Listens, Exits, Running, Container
  <2>2. container.state # "not_created" /\ printed' >= printed
    BY <1>2, <1>4 DEF StartAgain, Prints, Listens, Exits, Running
  <2> QED BY <1>1, <2>1, <2>2 DEF Serves
<1>5. CASE Removed
  <2>1. container' = [container EXCEPT !.state = "not_created", !.port = "loaded"]
    BY <1>5 DEF Removed
  <2>2. container'.id = container.id /\ container'.state = "not_created"
    BY <1>2, <2>1 DEF Container
  <2> QED BY <1>1, <2>2 DEF Serves
<1> QED BY <1>3, <1>4, <1>5 DEF ServerStep

\* Every step is one of these.
LEMMA LogSteps ==
  ASSUME IInv, [Next]_vars
  PROVE  Serves \/ Still \/ Quiet \/ Clears \/ Shows \/ Opens \/ Reads
<1> USE DEF IInv
<1>1. "status" \in Task /\ "logs" \in Task
  BY DEF Task
<1>2. CASE \E t \in Task : Step(t)
  BY <1>2, LogTaskSteps, StatusTaskSteps DEF Task
<1>3. CASE ServerStep
  BY <1>3, ServerSteps
<1>4. CASE Leaves
  <2>1. page'.log = <<>>
    BY <1>4 DEF Leaves, Blank
  <2> QED BY <1>4, <2>1, Beside DEF Leaves, SameServer, server, history
<1>5. CASE Leave \/ Await \/ Rest \/ UNCHANGED vars
  <2>1. UNCHANGED <<pc, message, stream, page, resumed, container, printed>>
    BY <1>5 DEF Leave, Await, Rest, vars, server, history
  <2> QED BY <2>1, Beside DEF SameServer
<1>6. CASE Finalize
  <2>1. ~Streaming
    BY <1>6 DEF Finalize, Position, Stream
  <2> QED BY <1>6, <2>1, Beside DEF Finalize, SameServer, server, history
<1>7. CASE Fault
  <2>1. UNCHANGED <<message, stream, page, resumed, container, printed>>
    BY <1>7 DEF Fault, Fails, NoAnswer, server
  <2>2. CASE NoAnswer
    <3>1. pc'["logs"] = pc["logs"]
      BY <1>1, <2>2, Moves DEF NoAnswer
    <3> QED BY <2>1, <3>1, Beside DEF SameServer
  <2>3. CASE Fails("status")
    <3>1. pc'["logs"] = pc["logs"]
      BY <1>1, <2>3, Moves DEF Fails
    <3> QED BY <2>1, <3>1, Beside DEF SameServer
  <2>4. CASE Fails("logs")
    <3>1. /\ pc["logs"] \in {"look", "inspect", "open", "record", "read"}
          /\ pc'["logs"] = IF pc["logs"] = "read" THEN "close" ELSE "failed"
      BY <1>1, <2>4, Moves DEF Fails
    <3>2. CASE pc["logs"] = "read"
      BY <2>1, <3>1, <3>2 DEF Still, SameServer, Streaming, Pending
    <3>3. CASE pc["logs"] # "read"
      BY <2>1, <3>1, <3>3 DEF Quiet, SameServer, Streaming, Pending
    <3> QED BY <3>2, <3>3
  <2> QED BY <1>7, <2>2, <2>3, <2>4 DEF Fault, Task
<1> QED BY <1>2, <1>3, <1>4, <1>5, <1>6, <1>7 DEF Next
-----------------------------------------------------------------------------
(* The log *)

\* The line that is held stays the one that the stream has come to.
LEMMA PositionKept ==
  ASSUME IInv, [Next]_vars
  PROVE  Position'
<1> USE DEF IInv
<1>1. container.id \in Nat /\ printed \in Nat
  BY DEF Stores, Container, Id
<1>2. container' \in Container /\ printed' \in Nat
  BY StoresKept DEF Stores
<1>3. Streaming => stream \in Stream /\ stream.id \in Nat /\ stream.at \in Nat
  BY DEF Position, Stream, Id
<1>4. CASE Still
  BY <1>4 DEF Still, SameServer, Position
<1>5. CASE Quiet \/ Clears
  BY <1>5 DEF Quiet, Clears, Position
<1>6. CASE Shows
  BY <1>6 DEF Shows, SameServer, Position, Streaming
<1>7. CASE Opens
  <2>1. TailLines \in Nat /\ container.id \in Id
    BY BoundAssumption DEF TailLines, Stores, Container
  <2>2. (IF printed > TailLines THEN printed - TailLines ELSE 0) \in 0 .. printed
    BY <1>1, <2>1
  <2> DEFINE at == IF printed > TailLines THEN printed - TailLines ELSE 0
  <2> HIDE DEF at
  <2>3. stream' = [id |-> container.id, owned |-> TRUE, at |-> at] /\ at \in Nat /\ at <= printed
    BY <1>1, <1>7, <2>2 DEF Opens, at
  <2>4. stream' \in Stream
    BY <2>1, <2>3 DEF Stream
  <2> QED BY <1>7, <2>3, <2>4 DEF Opens, SameServer, Position
<1>8. CASE Reads
  <2>1. stream \in Stream
    BY <1>8 DEF Reads, Position, Streaming
  <2>2. stream' \in Stream /\ stream'.id = stream.id /\ stream'.owned = stream.owned
        /\ stream'.at = stream.at + 1
    BY <1>8, <2>1 DEF Reads, Stream
  <2>3. stream.at + 1 <= printed /\ stream.owned
    BY <1>1, <1>8, <2>1 DEF Reads, Stream, Position, Streaming
  <2> QED BY <1>8, <2>2, <2>3 DEF Reads, SameServer, Position
<1>9. CASE Serves
  <2>1. (Streaming' <=> Streaming) /\ (Pending' <=> Pending)
    BY <1>9 DEF Serves, Streaming, Pending
  <2>2. container'.id \in Nat
    BY <1>2 DEF Container, Id
  <2> QED BY <1>1, <1>2, <1>3, <1>9, <2>1, <2>2 DEF Serves, Position
<1> QED BY <1>4, <1>5, <1>6, <1>7, <1>8, <1>9, LogSteps

\* The lines of a log are pairs of numbers.
LEMMA Lines ==
  ASSUME NEW log \in Seq(Line)
  PROVE  /\ Len(log) \in Nat /\ DOMAIN log = 1 .. Len(log)
         /\ \A i \in DOMAIN log : /\ log[i] \in Line /\ log[i][1] \in Nat
                                  /\ log[i][2] \in Nat /\ log[i][2] <= MaxLines
<1>1. \A l \in Line : l[1] \in Nat /\ l[2] \in Nat /\ l[2] <= MaxLines
  BY BoundAssumption DEF Line, Id
<1> QED BY <1>1

\* A log with one more line.
LEMMA Appended ==
  ASSUME NEW log \in Seq(Line), NEW line \in Line
  PROVE  /\ Append(log, line) \in Seq(Line) /\ Len(Append(log, line)) = Len(log) + 1
         /\ Append(log, line)[Len(log) + 1] = line
         /\ \A i \in 1 .. Len(log) : Append(log, line)[i] = log[i]
OBVIOUS

\* The line that is held is newer than those of the page, and is appended.
LEMMA HeldLine ==
  ASSUME IInv, Shows, client
  PROVE  /\ page.log \in Seq(Line) /\ message["logs"] \in Line
         /\ stream.id \in Nat /\ stream.at \in Nat
         /\ message["logs"] = <<stream.id, stream.at>>
         /\ page'.log = Append(page.log, message["logs"])
         /\ \A i \in DOMAIN page.log : Older(page.log[i], message["logs"])
<1> USE DEF IInv
<1>1. Pending /\ Streaming
  BY DEF Shows, Streaming
<1>2. stream \in Stream /\ message["logs"] = <<stream.id, stream.at>>
  BY <1>1 DEF Position
<1>3. Within(page.log, stream.id, stream.at - 1)
  BY <1>1 DEF Past, Sent
<1>4. stream.id \in Nat /\ stream.at \in Nat /\ stream.at - 1 + 1 = stream.at
  BY <1>2 DEF Stream, Id
<1>5. \A i \in DOMAIN page.log : Older(page.log[i], message["logs"])
  BY <1>2, <1>3, <1>4 DEF Within
<1> QED BY <1>1, <1>2, <1>4, <1>5 DEF Stores, Page, Shows, Tasks, Pending

\* Every step keeps the lines of the page in order.
LEMMA OrderedKept ==
  ASSUME IInv, [Next]_vars
  PROVE  Ordered'
<1> USE DEF IInv
<1>1. CASE page'.log = page.log
  BY <1>1 DEF Ordered
<1>2. CASE page'.log = <<>>
  BY <1>2 DEF Ordered
<1>3. CASE Shows /\ client
  <2> DEFINE log == page.log
             line == message["logs"]
  <2>1. log \in Seq(Line) /\ line \in Line /\ page'.log = Append(log, line)
    BY <1>3, HeldLine
  <2>2. \A i \in DOMAIN log : Older(log[i], line)
    BY <1>3, HeldLine
  <2>3. \A i, j \in DOMAIN log : i < j => Older(log[i], log[j])
    BY DEF Ordered
  <2> HIDE DEF log, line
  <2>4. ASSUME NEW i \in DOMAIN Append(log, line), NEW j \in DOMAIN Append(log, line), i < j
        PROVE  Older(Append(log, line)[i], Append(log, line)[j])
    <3>1. i \in 1 .. Len(log) + 1 /\ j \in 1 .. Len(log) + 1 /\ i < j /\ Len(log) \in Nat
      BY <2>1, <2>4, Appended
    <3>2. CASE j \in 1 .. Len(log)
      BY <2>1, <2>3, <3>1, <3>2, Appended, Lines
    <3>3. CASE j = Len(log) + 1
      BY <2>1, <2>2, <3>1, <3>3, Appended, Lines
    <3> QED BY <3>1, <3>2, <3>3
  <2> QED BY <2>1, <2>4 DEF Ordered
<1>4. Serves \/ Still \/ Quiet \/ Clears \/ Opens \/ Reads => page'.log \in {page.log, <<>>}
  BY DEF Serves, Still, Quiet, Clears, Opens, Reads
<1>5. Shows /\ ~client => page'.log = <<>>
  BY DEF Shows
<1> QED BY <1>1, <1>2, <1>3, <1>4, <1>5, LogSteps

\* Farther on, nothing is beyond either; nor in an empty log; nor after a line
\* that is not beyond.
LEMMA Farther ==
  ASSUME NEW log \in Seq(Line), NEW id \in Nat, NEW n \in Int, Within(log, id, n),
         NEW id2 \in Nat, NEW n2 \in Int, id < id2 \/ (id = id2 /\ n <= n2)
  PROVE  Within(log, id2, n2)
<1>1. \A i \in DOMAIN log : log[i][1] \in Nat /\ log[i][2] \in Nat
  BY Lines
<1>2. \A i \in DOMAIN log : log[i][1] < id \/ (log[i][1] = id /\ log[i][2] < n + 1)
  BY DEF Within, Older
<1>3. \A i \in DOMAIN log : log[i][1] < id2 \/ (log[i][1] = id2 /\ log[i][2] < n2 + 1)
  BY <1>1, <1>2
<1> QED BY <1>3 DEF Within, Older

\* An empty log is within everything.
LEMMA NothingWithin ==
  ASSUME NEW id, NEW n
  PROVE  Within(<<>>, id, n)
BY DEF Within

\* A line behind the others keeps a log within its bounds.
LEMMA OneMoreWithin ==
  ASSUME NEW log \in Seq(Line), NEW line \in Line, NEW id \in Nat, NEW n \in Int,
         Within(log, id, n), Older(line, <<id, n + 1>>)
  PROVE  Within(Append(log, line), id, n)
<1> DEFINE longer == Append(log, line)
           end == <<id, n + 1>>
<1>1. \A i \in 1 .. Len(log) : Older(log[i], end)
  BY Lines DEF Within
<1>2. /\ DOMAIN longer = 1 .. Len(log) + 1 /\ Len(log) \in Nat
      /\ longer[Len(log) + 1] = line /\ \A i \in 1 .. Len(log) : longer[i] = log[i]
  BY Appended, Lines
<1>3. Older(line, end)
  OBVIOUS
<1> HIDE DEF longer, end
<1>4. \A i \in DOMAIN longer : Older(longer[i], end)
  BY <1>1, <1>2, <1>3
<1> QED BY <1>4 DEF Within, longer, end

\* What a container can have printed: all of it once it is removed.
Printed == IF container.state = "not_created" THEN MaxLines ELSE printed

\* Every step shows lines only that have been written.
LEMMA PastKept ==
  ASSUME IInv, [Next]_vars
  PROVE  Past'
<1> USE DEF IInv
<1>1. /\ page.log \in Seq(Line) /\ page'.log \in Seq(Line)
      /\ container.id \in Nat /\ container'.id \in Nat
      /\ printed \in Nat /\ printed' \in Nat /\ printed <= MaxLines /\ MaxLines \in Nat
  BY StoresKept, BoundAssumption DEF Stores, Page, Container, Id
<1>2. /\ Printed \in Nat /\ Printed' \in Nat /\ printed <= Printed /\ Printed <= MaxLines
      /\ SameServer => Printed' = Printed
  BY <1>1 DEF Printed, SameServer
<1>3. Within(page.log, container.id, Printed)
  BY DEF Past, Printed
<1>4. Streaming => stream \in Stream /\ stream.id \in Nat /\ stream.at \in Nat
  BY DEF Position, Stream, Id
<1> HIDE DEF IInv
<1>5. Within(page'.log, container'.id, Printed')
  <2>1. CASE SameServer /\ page'.log \in {page.log, <<>>}
    BY <1>2, <1>3, <2>1, NothingWithin DEF SameServer
  <2>2. CASE Serves
    <3>1. page'.log = page.log
      BY <2>2 DEF Serves
    <3>2. CASE container'.id > container.id
      BY <1>1, <1>2, <1>3, <3>1, <3>2, Farther
    <3>3. CASE container'.id = container.id /\ Printed <= Printed'
      BY <1>1, <1>2, <1>3, <3>1, <3>3, Farther
    <3>4. container'.id > container.id \/ (container'.id = container.id /\ Printed <= Printed')
      BY <1>1, <1>2, <2>2 DEF Serves, Printed
    <3> QED BY <3>2, <3>3, <3>4
  <2>3. CASE Shows /\ client
    <3>1. /\ message["logs"] \in Line /\ message["logs"] = <<stream.id, stream.at>>
          /\ page'.log = Append(page.log, message["logs"]) /\ stream.id \in Nat /\ stream.at \in Nat
      BY <2>3, HeldLine
    <3>2. stream.at <= MaxLines
      <4>1. <<stream.id, stream.at>>[2] \in 1 .. MaxLines
        BY <3>1 DEF Line
      <4> QED BY <4>1
    <3>3. stream.id < container.id \/ (stream.id = container.id /\ stream.at <= Printed)
      BY <2>3, <3>2 DEF IInv, Position, Shows, Streaming, Printed
    <3>4. Older(message["logs"], <<container.id, Printed + 1>>)
      BY <1>1, <1>2, <3>1, <3>3 DEF Older
    <3>5. Within(page'.log, container.id, Printed)
      BY <1>1, <1>2, <1>3, <3>1, <3>4, OneMoreWithin
    <3> QED BY <1>2, <2>3, <3>5 DEF Shows, SameServer
  <2>4. Still \/ Quiet \/ Clears \/ Opens \/ Reads => SameServer /\ page'.log \in {page.log, <<>>}
    BY DEF Still, Quiet, Clears, Opens, Reads
  <2>5. Shows /\ ~client => SameServer /\ page'.log = <<>>
    BY DEF Shows
  <2> QED BY <2>1, <2>2, <2>3, <2>4, <2>5, LogSteps
<1>6. Streaming' => Within(page'.log, stream'.id, Sent')
  <2>1. CASE Serves \/ Still
    <3>1. /\ (Streaming' <=> Streaming) /\ (Pending' <=> Pending) /\ (Streaming => stream' = stream)
          /\ page'.log \in {page.log, <<>>}
      BY <2>1 DEF Serves, Still, Streaming, Pending
    <3>2. Streaming => Sent' = Sent
      BY <3>1 DEF Sent
    <3> QED BY <3>1, <3>2, NothingWithin DEF IInv, Past
  <2>2. CASE Quiet \/ Clears
    BY <2>2 DEF Quiet, Clears
  <2>3. CASE Shows
    <3>1. Streaming /\ stream' = stream /\ Sent' = stream.at /\ Sent = stream.at - 1
      BY <2>3 DEF Shows, Sent, Streaming
    <3>2. Within(page.log, stream.id, stream.at)
      BY <1>1, <1>4, <3>1, Farther DEF IInv, Past
    <3>3. CASE client
      <4>1. /\ message["logs"] \in Line /\ message["logs"] = <<stream.id, stream.at>>
            /\ page'.log = Append(page.log, message["logs"])
        BY <2>3, <3>3, HeldLine
      <4>2. Older(message["logs"], <<stream.id, stream.at + 1>>)
        BY <1>4, <3>1, <4>1 DEF Older
      <4>3. Within(page'.log, stream.id, stream.at)
        BY <1>1, <1>4, <3>1, <3>2, <4>1, <4>2, OneMoreWithin
      <4> QED BY <3>1, <4>3
    <3>4. CASE ~client
      BY <2>3, <3>4, NothingWithin DEF Shows
    <3> QED BY <3>3, <3>4
  <2>4. CASE Opens
    <3> DEFINE at == IF printed > TailLines THEN printed - TailLines ELSE 0
    <3>1. stream'.id = container.id /\ stream'.at = at /\ page'.log = page.log /\ Sent' = at
      BY <2>4 DEF Opens, Sent
    <3>2. CASE message["logs"] = Reset
      <4>1. page.log = <<>>
        BY <2>4, <3>2 DEF Opens, IInv, Past
      <4> QED BY <3>1, <4>1, NothingWithin
    <3>3. CASE message["logs"] # Reset
      <4>1. TailLines = 0
        BY <3>3 DEF TailLines, NewContainer, Resets
      <4>2. at = printed /\ Printed = printed
        BY <1>1, <2>4, <4>1 DEF Opens, Printed
      <4> QED BY <1>3, <3>1, <4>2
    <3> QED BY <3>2, <3>3
  <2>5. CASE Reads
    <3>1. Streaming /\ ~Pending /\ stream \in Stream /\ page'.log = page.log
      BY <1>4, <2>5 DEF Reads, Streaming, Pending
    <3>2. stream'.id = stream.id /\ stream'.at = stream.at + 1
      BY <2>5, <3>1 DEF Reads, Stream
    <3>3. Sent' = stream'.at - 1 /\ Sent = stream.at
      BY <2>5, <3>1 DEF Reads, Sent
    <3>4. Sent' = Sent
      BY <1>4, <3>1, <3>2, <3>3
    <3> QED BY <3>1, <3>2, <3>4 DEF IInv, Past
  <2> QED BY <2>1, <2>2, <2>3, <2>4, <2>5, LogSteps
<1>7. pc'["logs"] = "open" /\ message'["logs"] = Reset => page'.log = <<>>
  <2>1. CASE Serves \/ Still
    BY <2>1 DEF Serves, Still, IInv, Past
  <2>2. CASE Quiet \/ Clears \/ Shows \/ Opens \/ Reads
    BY <2>2 DEF Quiet, Clears, Shows, Opens, Reads
  <2> QED BY <2>1, <2>2, LogSteps
<1> QED BY <1>5, <1>6, <1>7 DEF Past, Printed

\* The successor of the last line continues a log without a gap.
LEMMA OneMoreSuccessive ==
  ASSUME NEW log \in Seq(Line), NEW line \in Line, Successive(log),
         log # <<>> => line = <<log[Len(log)][1], log[Len(log)][2] + 1>>
  PROVE  Successive(Append(log, line))
<1> DEFINE longer == Append(log, line)
           next(l) == <<l[1], l[2] + 1>>
<1>1. /\ Len(longer) = Len(log) + 1 /\ Len(log) \in Nat
      /\ longer[Len(log) + 1] = line /\ \A i \in 1 .. Len(log) : longer[i] = log[i]
  BY Appended, Lines
<1>2. \A i \in 2 .. Len(log) : log[i] = next(log[i-1])
  BY DEF Successive
<1>3. Len(log) > 0 => line = next(log[Len(log)])
  BY <1>1
<1> HIDE DEF longer, next
<1>4. ASSUME NEW i \in 2 .. Len(longer) PROVE longer[i] = next(longer[i-1])
  <2>1. i \in 2 .. Len(log) + 1 /\ i - 1 \in 1 .. Len(log)
    BY <1>1
  <2>2. longer[i-1] = log[i-1]
    BY <1>1, <2>1
  <2>3. CASE i \in 2 .. Len(log)
    <3>1. longer[i] = log[i]
      BY <1>1, <2>3
    <3> QED BY <1>2, <2>2, <2>3, <3>1
  <2>4. CASE i = Len(log) + 1
    BY <1>1, <1>3, <2>1, <2>2, <2>4
  <2> QED BY <1>1, <2>1, <2>3, <2>4
<1> QED BY <1>4 DEF Successive, longer, next

\* Every step leaves the page without a gap, until a stream is resumed.
LEMMA GaplessKept ==
  ASSUME IInv, [Next]_vars
  PROVE  Gapless'
<1> SUFFICES ASSUME ~resumed'
             PROVE  /\ Successive(page'.log)
                    /\ Streaming' /\ page'.log # <<>> =>
                         page'.log[Len(page'.log)] = <<stream'.id, Sent'>>
  BY DEF Gapless
<1>1. ~resumed => /\ Successive(page.log)
                  /\ Streaming /\ page.log # <<>> => page.log[Len(page.log)] = <<stream.id, Sent>>
  BY DEF IInv, Gapless
<1>2. Streaming => stream \in Stream /\ stream.id \in Nat /\ stream.at \in Nat
  BY DEF IInv, Position, Stream, Id
<1>3. Successive(<<>>)
  BY DEF Successive
<1>4. CASE Serves \/ Still
  <2>1. /\ (Streaming' <=> Streaming) /\ (Pending' <=> Pending) /\ (Streaming => stream' = stream)
        /\ page'.log \in {page.log, <<>>} /\ ~resumed
    BY <1>4 DEF Serves, Still, Streaming, Pending
  <2>2. Streaming => Sent' = Sent
    BY <2>1 DEF Sent
  <2> QED BY <1>1, <1>3, <2>1, <2>2
<1>5. CASE Quiet \/ Clears
  BY <1>1, <1>3, <1>5 DEF Quiet, Clears
<1>6. CASE Shows
  <2>1. /\ ~resumed /\ Streaming /\ stream' = stream /\ Sent' = stream.at /\ Sent = stream.at - 1
    BY <1>6 DEF Shows, Sent, Streaming
  <2>2. CASE client
    <3> DEFINE log == page.log
               line == message["logs"]
    <3>1. /\ log \in Seq(Line) /\ line \in Line /\ line = <<stream.id, stream.at>>
          /\ page'.log = Append(log, line)
      BY <1>6, <2>2, HeldLine
    <3>2. Successive(log)
      BY <1>1, <2>1
    <3>3. log # <<>> => log[Len(log)] = <<stream.id, stream.at - 1>>
      BY <1>1, <2>1
    <3> HIDE DEF log
    <3>4. log # <<>> => line = <<log[Len(log)][1], log[Len(log)][2] + 1>>
      <4> SUFFICES ASSUME log # <<>> PROVE line = <<log[Len(log)][1], log[Len(log)][2] + 1>>
        OBVIOUS
      <4>1. log[Len(log)][1] = stream.id /\ log[Len(log)][2] = stream.at - 1
        BY <3>3
      <4>2. stream.at - 1 + 1 = stream.at
        BY <1>2, <2>1
      <4> QED BY <3>1, <4>1, <4>2
    <3> HIDE DEF line
    <3>5. Successive(page'.log)
      BY <3>1, <3>2, <3>4, OneMoreSuccessive
    <3>6. page'.log[Len(page'.log)] = <<stream.id, stream.at>>
      BY <3>1, Appended
    <3> QED BY <2>1, <3>5, <3>6
  <2>3. CASE ~client
    BY <1>3, <1>6, <2>3 DEF Shows
  <2> QED BY <2>2, <2>3
<1>7. CASE Opens
  <2>1. page'.log = <<>>
    BY <1>7 DEF Opens, IInv, Past
  <2> QED BY <1>3, <2>1
<1>8. CASE Reads
  <2>1. /\ ~resumed /\ Streaming /\ ~Pending /\ page'.log = page.log
    BY <1>8 DEF Reads, Streaming, Pending
  <2>2. stream'.id = stream.id /\ stream'.at = stream.at + 1
    BY <1>2, <1>8, <2>1 DEF Reads, Stream
  <2>3. Sent' = stream'.at - 1 /\ Sent = stream.at
    BY <1>8, <2>1 DEF Reads, Sent
  <2>4. Sent' = Sent
    BY <1>2, <2>1, <2>2, <2>3
  <2> QED BY <1>1, <2>1, <2>2, <2>4
<1> QED BY <1>4, <1>5, <1>6, <1>7, <1>8, LogSteps
-----------------------------------------------------------------------------
(* The theorems *)

\* The first state satisfies the invariant.
LEMMA Initially == Init => IInv
<1> SUFFICES ASSUME Init PROVE IInv
  OBVIOUS
<1>1. "status" \in Task /\ "logs" \in Task /\ None \notin Task /\ None # Reset
  BY NoneAssumption DEF Task
<1>2. Blank \in Page /\ Blank.log = <<>>
  BY DEF Blank, Page
<1>3. MaxStarts \in Nat /\ MaxLines \in Nat
  BY BoundAssumption
<1>4. Stores
  <2>1. container \in Container /\ container.id = 1
    BY <1>3 DEF Init, Container, Id, State
  <2>2. /\ printed = 0 /\ starts = 0 /\ client = TRUE /\ resumed = FALSE /\ handler = "serving"
        /\ page = Blank /\ previous = None /\ streamed = None /\ lock = None /\ stream = None
    BY DEF Init
  <2>3. printed \in 0 .. MaxLines /\ starts \in 0 .. MaxStarts /\ container.id <= starts + 1
    BY <1>3, <2>1, <2>2
  <2> QED BY <1>2, <2>1, <2>2, <2>3 DEF Stores
<1>5. \A t \in Task : pc[t] = "look"
  BY DEF Init
<1>6. Tasks
  <2>1. DOMAIN pc = Task /\ DOMAIN message = Task /\ DOMAIN looked = Task /\ lock = None
    BY DEF Init
  <2>2. \A t \in Task : "look" \in StepsOf[t]
    BY DEF StepsOf, Task
  <2> QED BY <1>1, <1>5, <2>1, <2>2 DEF Tasks
<1>7. ~Streaming /\ page.log = <<>> /\ handler = "serving"
  BY <1>1, <1>2, <1>5 DEF Init, Streaming, Pending
<1>8. AwaitedFirst /\ Position /\ Ordered
  BY <1>7 DEF AwaitedFirst, Position, Ordered
<1>9. Past
  BY <1>7, NothingWithin DEF Past
<1>10. Gapless
  BY <1>7 DEF Gapless, Successive
<1> QED BY <1>4, <1>6, <1>8, <1>9, <1>10 DEF IInv

\* Every step keeps the invariant.
LEMMA Inductively == IInv /\ [Next]_vars => IInv'
BY StoresKept, TasksKept, AwaitedFirstKept, PositionKept, OrderedKept, PastKept, GaplessKept DEF IInv

\* Every reachable state satisfies the invariant.
LEMMA Invariant == Spec => []IInv
BY Initially, Inductively, PTL DEF Spec

\* Every variable has its type, and the two tasks exclude each other from the
\* socket: whoever sends holds send_lock, and nobody else does (server_console).
THEOREM TypeCorrect == Spec => []TypeOK
<1>1. IInv => TypeOK
  BY DEF IInv, Stores, Tasks, Page, TypeOK
<1> QED BY <1>1, Invariant, PTL

\* Whatever fails and whenever the browser leaves, the handler returns, and so
\* closes its session, only after the status task that uses the session.
THEOREM SessionOutlivesItsUser == Spec => []SessionUnused
<1>1. IInv => SessionUnused
  BY DEF IInv, AwaitedFirst, SessionUnused
<1> QED BY <1>1, Invariant, PTL

\* The page shows the lines of the server's containers in their order, none of
\* them twice; and until a stream is resumed those of one container without a
\* gap, for every number of containers and lines and every tail (stream_logs).
THEOREM LogIsFaithful == Spec => []LogFaithful
<1>1. IInv => LogFaithful
  <2> SUFFICES ASSUME IInv PROVE LogFaithful
    OBVIOUS
  <2>1. Ordered /\ (~resumed => Successive(page.log))
    BY DEF IInv, Gapless
  <2> QED BY <2>1 DEF Ordered, Older, Successive, LogFaithful
<1> QED BY <1>1, Invariant, PTL
=============================================================================
