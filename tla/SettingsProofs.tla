---------------------------- MODULE SettingsProofs ----------------------------
(***************************************************************************)
(* Theorems about Settings for every set of handlers, values and ports and *)
(* every bound.                                                            *)
(***************************************************************************)
EXTENDS Settings, TLAPS

(* The inductive invariant *)

Steps == {"previous", "flush", "read", "replace", "commit", "status", "command", "answer",
          "refused", "save", "start", "stop"}

Task == [kind : Kind, step : Steps, n : 0 .. MaxRequests, want : File, port : Port, loaded : Port,
         previous : (Value \X Value) \cup {None}, stored : File \cup {None},
         up : BOOLEAN, applied : BOOLEAN, file0 : File \cup {None}, row0 : Row \cup {None},
         inStep0 : BOOLEAN, disturbed : BOOLEAN]

StepsOf(kind) ==
  IF kind = "ui" THEN Steps \ {"save", "start", "stop"}
  ELSE IF kind = "api" THEN {"flush", "read", "replace", "commit", "answer", "refused"}
  ELSE IF kind = "edit" THEN {"save", "answer"}
  ELSE IF kind = "start" THEN {"start"} ELSE {"stop", "start"}

Stores ==
  /\ file \in File /\ row \in Row /\ container \in Container
  /\ row.port \notin Taken /\ lock \in Handler \cup {None}
  /\ requests \in 0 .. MaxRequests /\ faults \in Nat /\ unpaired \in BOOLEAN

Tasks ==
  /\ task \in [Handler -> Task \cup {Idle}]
  /\ \A h \in Handler : Active(h) =>
       /\ task[h].step \in StepsOf(task[h].kind)
       /\ task[h].want.by = task[h].n
       /\ task[h].applied => task[h].step = "answer"
       /\ task[h].step = "replace" => task[h].stored \in File

\* The lock of the row is held from the UPDATE to the commit, by a request that
\* changes the profile and asks for a port that is free.
Updating(h) == task[h].step \in {"read", "replace", "commit"} /\ ProfileChanged(h)
Locking ==
  \A h \in Handler : /\ lock = h <=> Updating(h)
                     /\ lock = h => task[h].port \notin Taken

Undisturbed(h) == Active(h) /\ ~task[h].disturbed

\* Who is not disturbed is alone.
Alone == \A g, h \in Handler : Undisturbed(h) /\ Active(g) => g = h

Before == {"previous", "flush", "read", "replace", "save", "refused", "start", "stop"}

\* How far an undisturbed request has come in the file and the row.
Progress(h) ==
  Undisturbed(h) =>
    LET a == task[h] IN
    /\ a.file0 \in File /\ a.row0 \in Row /\ a.row0.port = a.loaded
    /\ a.step \in Before => file = a.file0 /\ row = a.row0
    /\ a.step = "replace" => a.stored = a.file0
    /\ a.step = "commit" => file = Wanted(h) /\ row = a.row0
    /\ a.step \in {"status", "command", "answer"} => file = Wanted(h) /\ row.port = a.port
    /\ a.kind \in {"edit", "start", "restart"} => a.port = a.loaded

\* What an undisturbed request knows of the server.
Knowledge(h) ==
  Undisturbed(h) =>
    LET a == task[h] IN
    /\ a.kind = "restart" /\ a.step = "start" => ~Running
    /\ a.kind = "ui" /\ a.step # "previous" => a.previous = Pair(a.file0)
    /\ a.kind = "ui" /\ a.inStep0 /\ Running =>
         /\ container.plan = a.file0.plan /\ container.port = a.loaded
         /\ container.live = IF a.applied THEN a.want.live ELSE a.file0.live
         /\ a.step \in {"command", "answer"} => a.up

\* The settings in the file are somebody's.
Asked ==
  /\ Pair(file) \in asked
  /\ \A h \in Handler : Writes(h) => Pair(task[h].want) \in asked

\* Whose the file is, while file and row are written in pairs.
Versions ==
  faults = 0 /\ ~unpaired =>
    file.by = IF lock # None /\ task[lock].step = "commit" THEN task[lock].n ELSE row.by

IInv ==
  /\ Stores /\ Tasks /\ Locking /\ Alone
  /\ \A h \in Handler : Progress(h) /\ Knowledge(h)
  /\ Asked /\ Versions
-----------------------------------------------------------------------------
(* What a step does to the requests *)

\* The request of h goes on as the same request; only its step and what it
\* has read may differ.
Same(h) ==
  /\ task'[h] \in Task
  /\ task'[h].kind = task[h].kind /\ task'[h].n = task[h].n
  /\ task'[h].want = task[h].want /\ task'[h].port = task[h].port
  /\ task'[h].loaded = task[h].loaded /\ task'[h].file0 = task[h].file0
  /\ task'[h].row0 = task[h].row0 /\ task'[h].inStep0 = task[h].inStep0
  /\ task'[h].disturbed = task[h].disturbed

Kept(h) ==
  /\ Same(h)
  /\ task'[h].previous = task[h].previous /\ task'[h].stored = task[h].stored
  /\ task'[h].up = task[h].up /\ task'[h].applied = task[h].applied

Others(h) ==
  /\ task' \in [Handler -> Task \cup {Idle}]
  /\ \A g \in Handler : g # h => task'[g] = task[g]

\* A handler that is at some step of a request has a request.
LEMMA ActiveTask ==
  ASSUME Tasks, NEW h \in Handler, Active(h) \/ \E step \in Steps : At(h, step)
  PROVE  task[h] \in Task /\ Active(h) /\ task[h].kind \in Kind /\ task[h].step \in Steps
<1>1. task[h] # Idle
  BY DEF Active, At, Idle, Steps
<1>2. task[h] \in Task
  BY <1>1 DEF Tasks
<1> QED BY <1>2 DEF Active, Task, Kind

\* Going to another step changes nothing else.
LEMMA Moves ==
  ASSUME Tasks, NEW h \in Handler, task[h] \in Task, NEW step \in Steps, task' = Goto(h, step)
  PROVE  Others(h) /\ Kept(h) /\ task'[h].step = step
BY DEF Tasks, Goto, Others, Kept, Same, Task

\* A request that is replaced by another one leaves the others alone.
LEMMA Becomes ==
  ASSUME Tasks, NEW h \in Handler, NEW new \in Task, task' = [task EXCEPT ![h] = new]
  PROVE  Others(h) /\ task'[h] = new
BY DEF Tasks, Others

\* The end of a request.
LEMMA Ends ==
  ASSUME Tasks, NEW h \in Handler, task' = End(h)
  PROVE  Others(h) /\ task'[h] = Idle
BY DEF Tasks, End, Others

\* A request remembers what the file says.
LEMMA PreviousMoves ==
  ASSUME Tasks, Stores, NEW h \in Handler, Previous(h)
  PROVE  /\ Active(h) /\ Others(h) /\ Same(h) /\ task'[h].step = "flush"
         /\ task'[h].previous = Pair(file)
         /\ task'[h].stored = task[h].stored
         /\ task'[h].up = task[h].up /\ task'[h].applied = task[h].applied
<1>1. task[h] \in Task /\ Active(h)
  BY ActiveTask DEF Previous, Steps
<1>2. Pair(file) \in Value \X Value
  BY DEF Stores, File, Pair
<1> DEFINE new == [task[h] EXCEPT !.previous = Pair(file), !.step = "flush"]
<1>3. new \in Task
  BY <1>1, <1>2 DEF Task, Steps
<1>4. task' = [task EXCEPT ![h] = new]
  BY <1>1 DEF Previous, After
<1>5. Others(h) /\ task'[h] = new
  BY <1>3, <1>4, Becomes
<1> QED BY <1>1, <1>3, <1>5 DEF Same, Task

\* It takes the lock of the row, or is refused a port that is taken.
LEMMA FlushMoves ==
  ASSUME Tasks, NEW h \in Handler, Flush(h)
  PROVE  /\ Active(h) /\ Others(h) /\ Kept(h)
         /\ task'[h].step = IF ProfileChanged(h) /\ task[h].port \in Taken THEN "refused" ELSE "read"
<1>1. task[h] \in Task /\ Active(h)
  BY ActiveTask DEF Flush, Steps
<1> QED BY <1>1, Moves DEF Flush, After, Steps

\* It reads the file that it will change.
LEMMA ReadMoves ==
  ASSUME Tasks, Stores, NEW h \in Handler, Read(h)
  PROVE  /\ Active(h) /\ Others(h) /\ Same(h) /\ task'[h].step = "replace"
         /\ task'[h].previous = task[h].previous
         /\ task'[h].stored = file
         /\ task'[h].up = task[h].up /\ task'[h].applied = task[h].applied
<1>1. task[h] \in Task /\ Active(h)
  BY ActiveTask DEF Read, Steps
<1> DEFINE new == [task[h] EXCEPT !.stored = file, !.step = "replace"]
<1>2. new \in Task
  BY <1>1 DEF Task, Steps, Stores
<1>3. task' = [task EXCEPT ![h] = new]
  BY <1>1 DEF Read, After
<1>4. Others(h) /\ task'[h] = new
  BY <1>2, <1>3, Becomes
<1> QED BY <1>1, <1>2, <1>4 DEF Same, Task

\* It replaces the file.
LEMMA ReplaceMoves ==
  ASSUME Tasks, NEW h \in Handler, Replace(h)
  PROVE  /\ Active(h) /\ Others(h) /\ Same(h) /\ task'[h].step = "commit"
         /\ task'[h].previous = task[h].previous
         /\ task'[h].stored = None
         /\ task'[h].up = task[h].up /\ task'[h].applied = task[h].applied
<1>1. task[h] \in Task /\ Active(h)
  BY ActiveTask DEF Replace, Steps
<1> DEFINE new == [task[h] EXCEPT !.stored = None, !.step = "commit"]
<1>2. new \in Task
  BY <1>1 DEF Task, Steps
<1>3. task' = [task EXCEPT ![h] = new]
  BY <1>1 DEF Replace, After
<1>4. Others(h) /\ task'[h] = new
  BY <1>2, <1>3, Becomes
<1> QED BY <1>1, <1>2, <1>4 DEF Same, Task

\* It commits the row.
LEMMA CommitMoves ==
  ASSUME Tasks, NEW h \in Handler, Commit(h)
  PROVE  /\ Active(h) /\ Others(h) /\ Kept(h)
         /\ task'[h].step = IF task[h].kind = "ui" THEN "status" ELSE "answer"
<1>1. task[h] \in Task /\ Active(h)
  BY ActiveTask DEF Commit, Steps
<1> QED BY <1>1, Moves DEF Commit, Steps

\* It asks whether the server runs.
LEMMA StatusMoves ==
  ASSUME Tasks, NEW h \in Handler, Status(h)
  PROVE  /\ Active(h) /\ Others(h) /\ Same(h) /\ task'[h].step = "command"
         /\ task'[h].previous = task[h].previous /\ task'[h].stored = task[h].stored
         /\ task'[h].up = Running /\ task'[h].applied = task[h].applied
<1>1. task[h] \in Task /\ Active(h)
  BY ActiveTask DEF Status, Steps
<1>2. Running \in BOOLEAN
  BY DEF Running
<1> DEFINE new == [task[h] EXCEPT !.up = Running, !.step = "command"]
<1>3. new \in Task
  BY <1>1, <1>2 DEF Task, Steps
<1>4. task' = [task EXCEPT ![h] = new]
  BY <1>1 DEF Status
<1>5. Others(h) /\ task'[h] = new
  BY <1>3, <1>4, Becomes
<1> QED BY <1>1, <1>3, <1>5 DEF Same, Task

\* A command that is sent finds the server running, sets the live key of the
\* container and is remembered as applied.
LEMMA CommandMoves ==
  ASSUME Tasks, NEW h \in Handler, Command(h)
  PROVE  /\ Active(h) /\ Others(h) /\ Same(h) /\ task'[h].step = "answer"
         /\ task'[h].previous = task[h].previous /\ task'[h].stored = task[h].stored
         /\ task'[h].up = task[h].up
         /\ container' = IF task'[h].applied
                         THEN [container EXCEPT !.live = task[h].want.live] ELSE container
<1>1. task[h] \in Task /\ Active(h)
  BY ActiveTask DEF Command, Steps
<1>2. PICK sent \in {FALSE, task[h].up /\ LiveChanged(h) /\ Running} :
        /\ container' = IF sent THEN [container EXCEPT !.live = task[h].want.live] ELSE container
        /\ task' = [task EXCEPT ![h].applied = sent, ![h].step = "answer"]
  BY DEF Command
<1>3. sent \in BOOLEAN
  BY <1>1 DEF LiveChanged, Running, Task
<1> DEFINE new == [task[h] EXCEPT !.applied = sent, !.step = "answer"]
<1>4. new \in Task
  BY <1>1, <1>3 DEF Task, Steps
<1>5. task' = [task EXCEPT ![h] = new]
  BY <1>1, <1>2
<1>6. Others(h) /\ task'[h] = new
  BY <1>4, <1>5, Becomes
<1>7. Same(h) /\ task'[h].step = "answer" /\ task'[h].applied = sent
  BY <1>1, <1>4, <1>6 DEF Same, Task
<1>8. /\ task'[h].previous = task[h].previous /\ task'[h].stored = task[h].stored
      /\ task'[h].up = task[h].up
  BY <1>1, <1>6 DEF Task
<1> QED BY <1>1, <1>2, <1>6, <1>7, <1>8

\* It answers.
LEMMA AnswerMoves ==
  ASSUME Tasks, NEW h \in Handler, Answer(h)
  PROVE  Active(h) /\ Others(h) /\ task'[h] = Idle
BY ActiveTask, Ends DEF Answer, Steps

\* The editor of files saves.
LEMMA SaveMoves ==
  ASSUME Tasks, NEW h \in Handler, Save(h)
  PROVE  Active(h) /\ Others(h) /\ Kept(h) /\ task'[h].step = "answer"
<1>1. task[h] \in Task /\ Active(h)
  BY ActiveTask DEF Save, Steps
<1> QED BY <1>1, Moves DEF Save, Steps

\* A restart ends with a start.
LEMMA StartMoves ==
  ASSUME Tasks, NEW h \in Handler, Start(h)
  PROVE  Active(h) /\ Others(h) /\ task'[h] = Idle
BY ActiveTask, Ends DEF Start, Steps

\* A restart begins with a stop.
LEMMA StopMoves ==
  ASSUME Tasks, NEW h \in Handler, Stop(h)
  PROVE  Active(h) /\ Others(h) /\ Kept(h) /\ task'[h].step = "start"
<1>1. task[h] \in Task /\ Active(h)
  BY ActiveTask DEF Stop, Steps
<1> QED BY <1>1, Moves DEF Stop, Steps

\* A step that fails is undone, or ends the request.
LEMMA FailsMoves ==
  ASSUME Tasks, NEW h \in Handler, Fails(h)
  PROVE  /\ Active(h) /\ Others(h)
         /\ \/ /\ task[h].step \in {"read", "replace"} /\ Kept(h) /\ task'[h].step = "refused"
            \/ task[h].step = "commit" /\ task'[h] = Idle
<1>1. task[h] \in Task /\ Active(h)
  BY ActiveTask DEF Fails, WriteFails, CommitFails, Steps
<1>2. CASE WriteFails(h)
  BY <1>1, <1>2, Moves DEF WriteFails, At, Steps
<1>3. CASE CommitFails(h)
  BY <1>1, <1>3, Ends DEF CommitFails, At
<1> QED BY <1>2, <1>3 DEF Fails

\* A request that is disturbed forgets its history and goes on as it was.
Upset(h) ==
  /\ task'[h] \in Task /\ task'[h].disturbed
  /\ task'[h].kind = task[h].kind /\ task'[h].step = task[h].step
  /\ task'[h].n = task[h].n /\ task'[h].want = task[h].want
  /\ task'[h].port = task[h].port /\ task'[h].loaded = task[h].loaded
  /\ task'[h].stored = task[h].stored /\ task'[h].applied = task[h].applied

\* A request that is disturbed stays what it is.
LEMMA DisturbedTyped ==
  ASSUME NEW a \in Task
  PROVE  LET b == Disturbed(a) IN
         /\ b \in Task /\ b.disturbed
         /\ b.kind = a.kind /\ b.step = a.step /\ b.n = a.n /\ b.want = a.want
         /\ b.port = a.port /\ b.loaded = a.loaded /\ b.stored = a.stored /\ b.applied = a.applied
<1>1. a # Idle
  BY DEF Task, Idle, Kind
<1> QED BY <1>1 DEF Disturbed, Task

\* The request as it begins.
Begun(h, kind, plan, live, port) ==
  LET a == task'[h] IN
  /\ a \in Task /\ a.kind = kind /\ a.step = FirstStep(kind)
  /\ Pair(a.want) = <<plan, live>> /\ a.want.by = a.n
  /\ a.port = port /\ a.loaded = row.port /\ ~a.applied
  /\ ~a.disturbed => a.file0 = file /\ a.row0 = row /\ a.inStep0 = InStep

\* What a request begins with.
LEMMA FirstSteps ==
  ASSUME NEW kind \in Kind
  PROVE  FirstStep(kind) \in StepsOf(kind) \cap {"previous", "flush", "save", "start", "stop"}
BY DEF FirstStep, Kind, StepsOf, Steps

\* A new request has its type, and remembers the stores of its beginning.
LEMMA NewTyped ==
  ASSUME Stores, NEW kind \in Kind, NEW plan \in Value, NEW live \in Value, NEW port \in Port,
         requests' \in 0 .. MaxRequests
  PROVE  LET a == New(kind, plan, live, port) IN
         /\ a \in Task /\ a.kind = kind /\ a.step = FirstStep(kind)
         /\ Pair(a.want) = <<plan, live>> /\ a.want.by = a.n
         /\ a.port = port /\ a.loaded = row.port /\ ~a.applied /\ ~a.disturbed
         /\ a.file0 = file /\ a.row0 = row /\ a.inStep0 = InStep
<1> DEFINE w == [plan |-> plan, live |-> live, by |-> requests',
                 other |-> IF kind = "edit" THEN requests' ELSE 0]
           first == FirstStep(kind)
<1>1. w \in File /\ Pair(w) = <<plan, live>> /\ w.by = requests'
  <2>1. (IF kind = "edit" THEN requests' ELSE 0) \in 0 .. MaxRequests
    BY BoundAssumption
  <2> QED BY <2>1 DEF File, Pair
<1>2. first \in Steps
  BY FirstSteps DEF Steps
<1>3. row.port \in Port /\ InStep \in BOOLEAN
  BY DEF Stores, Row, InStep
<1>4. New(kind, plan, live, port) =
        [kind |-> kind, step |-> first, n |-> requests', want |-> w,
         port |-> port, loaded |-> row.port, previous |-> None, stored |-> None,
         up |-> FALSE, applied |-> FALSE,
         file0 |-> file, row0 |-> row, inStep0 |-> InStep, disturbed |-> FALSE]
  BY DEF New
<1> HIDE DEF w, first
<1> QED BY <1>1, <1>2, <1>3, <1>4 DEF Task, Stores, first

\* A request that begins disturbs the others, and they disturb it.
LEMMA BeginMoves ==
  ASSUME Tasks, Stores, NEW h \in Handler, NEW kind \in Kind, NEW plan \in Value,
         NEW live \in Value, NEW port \in Port, Begin(h, kind, plan, live, port)
  PROVE  /\ ~Active(h) /\ Begun(h, kind, plan, live, port) /\ requests' \in 0 .. MaxRequests
         /\ task' \in [Handler -> Task \cup {Idle}]
         /\ \A g \in Handler : g # h =>
              IF Active(g) THEN Upset(g) /\ task'[h].disturbed
              ELSE task[g] = Idle /\ task'[g] = Idle
<1>1. requests' \in 0 .. MaxRequests /\ ~Active(h)
  BY BoundAssumption DEF Begin, Stores
<1> DEFINE new == New(kind, plan, live, port)
           alone == \A g \in Handler : ~Active(g)
<1>2. task' = [g \in Handler |->
                 IF g # h THEN Disturbed(task[g]) ELSE IF alone THEN new ELSE Disturbed(new)]
  BY DEF Begin
<1>3. /\ new \in Task /\ new.kind = kind /\ new.step = FirstStep(kind)
      /\ Pair(new.want) = <<plan, live>> /\ new.want.by = new.n
      /\ new.port = port /\ new.loaded = row.port /\ ~new.applied /\ ~new.disturbed
      /\ new.file0 = file /\ new.row0 = row /\ new.inStep0 = InStep
  BY <1>1, NewTyped
<1> HIDE DEF new
<1>4. Begun(h, kind, plan, live, port) /\ (~alone => task'[h].disturbed)
  <2>1. CASE alone
    BY <1>2, <1>3, <2>1 DEF Begun
  <2>2. CASE ~alone
    <3>1. task'[h] = Disturbed(new)
      BY <1>2, <2>2
    <3> QED BY <1>3, <2>2, <3>1, DisturbedTyped DEF Begun
  <2> QED BY <2>1, <2>2
<1>5. ASSUME NEW g \in Handler, g # h
      PROVE  IF Active(g) THEN Upset(g) /\ task'[h].disturbed ELSE task[g] = Idle /\ task'[g] = Idle
  <2>1. task'[g] = Disturbed(task[g])
    BY <1>2, <1>5
  <2>2. CASE Active(g)
    <3>1. task[g] \in Task
      BY <2>2, ActiveTask
    <3> QED BY <1>4, <2>1, <2>2, <3>1, DisturbedTyped DEF Upset
  <2>3. CASE ~Active(g)
    <3>1. task[g] = Idle
      BY <2>3 DEF Tasks, Active, Task, Kind
    <3> QED BY <2>1, <2>3, <3>1 DEF Disturbed
  <2> QED BY <2>2, <2>3
<1>6. task' \in [Handler -> Task \cup {Idle}]
  <2>1. \A g \in Handler : task'[g] \in Task \cup {Idle}
    BY <1>4, <1>5 DEF Begun, Upset
  <2> QED BY <1>2, <2>1
<1> QED BY <1>1, <1>4, <1>5, <1>6

\* A request begins with values that the forms and the stores offer.
LEMMA Requests ==
  ASSUME Stores, NEW h \in Handler, Request(h)
  PROVE  \E kind \in Kind, plan \in Value, live \in Value, port \in Port :
           /\ Begin(h, kind, plan, live, port)
           /\ kind \in {"edit", "start", "restart"} => port = row.port
<1>1. file.plan \in Value /\ file.live \in Value /\ row.port \in Port
  BY DEF Stores, File, Row
<1> QED BY <1>1 DEF Request, Kind
-----------------------------------------------------------------------------
(* The steps keep the parts of the invariant that types are made of *)

\* What a handler may do to the requests, all of it.
LEMMA StepSummary ==
  ASSUME Tasks, Stores, NEW h \in Handler, Step(h)
  PROVE  /\ Active(h) /\ task[h] \in Task /\ Others(h)
         /\ task'[h] = Idle \/ Same(h)
<1>1. Active(h) /\ Others(h) /\ (task'[h] = Idle \/ Same(h))
  BY PreviousMoves, FlushMoves, ReadMoves, ReplaceMoves, CommitMoves, StatusMoves, CommandMoves,
     AnswerMoves, SaveMoves, StartMoves, StopMoves, FailsMoves DEF Step, Kept
<1> QED BY <1>1, ActiveTask

\* The steps of a request belong to its kind.
LEMMA StepsFollow ==
  ASSUME Tasks, Stores, NEW h \in Handler, Step(h), task'[h] # Idle
  PROVE  /\ task'[h].step \in StepsOf(task[h].kind)
         /\ task'[h].applied => task'[h].step = "answer"
         /\ task'[h].step = "replace" => task'[h].stored \in File
<1>1. /\ task[h] \in Task /\ task[h].step \in StepsOf(task[h].kind) /\ task[h].kind \in Kind
      /\ task[h].applied => task[h].step = "answer"
  BY StepSummary DEF Tasks, Task
<1>2. CASE Previous(h) \/ Status(h) \/ Flush(h)
  BY <1>1, <1>2, PreviousMoves, StatusMoves, FlushMoves
     DEF Previous, Status, Flush, At, Kept, StepsOf, Steps, Kind
<1>3. CASE Read(h) \/ Replace(h)
  BY <1>1, <1>3, ReadMoves, ReplaceMoves DEF Read, Replace, At, StepsOf, Steps, Kind, Stores
<1>4. CASE Commit(h)
  BY <1>1, <1>4, CommitMoves DEF Commit, At, Kept, StepsOf, Steps, Kind
<1>5. CASE Command(h)
  BY <1>1, <1>5, CommandMoves DEF Command, At, StepsOf, Steps, Kind
<1>6. CASE Save(h)
  BY <1>1, <1>6, SaveMoves DEF Save, At, Kept, StepsOf, Steps, Kind
<1>7. CASE Stop(h)
  BY <1>1, <1>7, StopMoves DEF Stop, At, Kept, StepsOf, Steps, Kind
<1>8. CASE Fails(h)
  BY <1>1, <1>8, FailsMoves DEF Kept, StepsOf, Steps, Kind
<1>9. CASE Answer(h) \/ Start(h)
  BY <1>9, AnswerMoves, StartMoves
<1> QED BY <1>2, <1>3, <1>4, <1>5, <1>6, <1>7, <1>8, <1>9 DEF Step

\* Requests keep their form.
LEMMA TasksKept ==
  ASSUME IInv, [Next]_vars
  PROVE  Tasks'
<1>1. ASSUME NEW h \in Handler, Request(h) PROVE Tasks'
  <2>1. PICK kind \in Kind, plan \in Value, live \in Value, port \in Port :
          Begin(h, kind, plan, live, port)
    BY <1>1, Requests DEF IInv
  <2>2. /\ Begun(h, kind, plan, live, port)
        /\ task' \in [Handler -> Task \cup {Idle}]
        /\ \A g \in Handler : g # h =>
             IF Active(g) THEN Upset(g) /\ task'[h].disturbed ELSE task[g] = Idle /\ task'[g] = Idle
    BY <2>1, BeginMoves DEF IInv
  <2>3. ASSUME NEW g \in Handler, Active(g)'
        PROVE  /\ task'[g].step \in StepsOf(task'[g].kind)
               /\ task'[g].want.by = task'[g].n
               /\ task'[g].applied => task'[g].step = "answer"
               /\ task'[g].step = "replace" => task'[g].stored \in File
    <3>1. CASE g = h
      BY <2>2, <3>1, FirstSteps DEF Begun
    <3>2. CASE g # h
      <4>1. Active(g) /\ Upset(g)
        BY <2>2, <2>3, <3>2 DEF Active, Idle
      <4> QED BY <4>1 DEF Upset, IInv, Tasks
    <3> QED BY <3>1, <3>2
  <2> QED BY <2>2, <2>3 DEF Tasks
<1>2. ASSUME NEW h \in Handler, Step(h) PROVE Tasks'
  <2>1. Active(h) /\ Others(h) /\ (task'[h] = Idle \/ Same(h))
    BY <1>2, StepSummary DEF IInv
  <2>2. task'[h] # Idle => /\ task'[h].step \in StepsOf(task[h].kind)
                           /\ task'[h].applied => task'[h].step = "answer"
                           /\ task'[h].step = "replace" => task'[h].stored \in File
    BY <1>2, StepsFollow DEF IInv
  <2>3. ASSUME NEW g \in Handler, Active(g)'
        PROVE  /\ task'[g].step \in StepsOf(task'[g].kind)
               /\ task'[g].want.by = task'[g].n
               /\ task'[g].applied => task'[g].step = "answer"
               /\ task'[g].step = "replace" => task'[g].stored \in File
    <3>1. CASE g = h
      <4>1. task'[h] # Idle
        BY <2>3, <3>1 DEF Active, Idle
      <4> QED BY <2>1, <2>2, <3>1, <4>1 DEF Same, IInv, Tasks
    <3>2. CASE g # h
      BY <2>1, <2>3, <3>2 DEF Others, Active, IInv, Tasks
    <3> QED BY <3>1, <3>2
  <2> QED BY <2>1, <2>3 DEF Tasks, Others
<1>3. CASE UNCHANGED task
  BY <1>3 DEF IInv, Tasks, Active
<1>4. CASE PanelStops
  BY <1>4 DEF PanelStops, Tasks, Active, Idle
<1> QED BY <1>1, <1>2, <1>3, <1>4 DEF Next, ServerStops, Rest, vars

\* What a handler writes is well formed.
LEMMA OutputTyped ==
  ASSUME IInv, NEW h \in Handler, Replace(h)
  PROVE  Output(h) \in File
<1>1. task[h] \in Task /\ task[h].stored \in File
  BY ActiveTask DEF Replace, Steps, At, IInv, Tasks
<1>2. task[h].want \in File /\ task[h].stored.other \in 0 .. MaxRequests
  BY <1>1 DEF Task, File
<1> QED BY <1>2 DEF Output, File

\* The stores keep their types, and the row a port that is free.
LEMMA StoresKept ==
  ASSUME IInv, [Next]_vars
  PROVE  Stores'
<1>1. ASSUME NEW h \in Handler, Request(h) PROVE Stores'
  <2>1. PICK kind \in Kind, plan \in Value, live \in Value, port \in Port :
          Begin(h, kind, plan, live, port)
    BY <1>1, Requests DEF IInv
  <2>2. requests' \in 0 .. MaxRequests
    BY <2>1, BeginMoves DEF IInv
  <2> QED BY <2>1, <2>2 DEF Begin, IInv, Stores
<1>2. ASSUME NEW h \in Handler, Step(h) PROVE Stores'
  <2>0. task[h] \in Task /\ Active(h)
    BY <1>2, StepSummary DEF IInv
  <2>1. CASE Previous(h) \/ Read(h) \/ Status(h) \/ Answer(h)
    BY <2>1 DEF Previous, Read, Status, Answer, history, IInv, Stores
  <2>2. CASE Flush(h)
    BY <2>2 DEF Flush, history, IInv, Stores
  <2>3. CASE Replace(h)
    <3>1. unpaired' \in BOOLEAN
      BY <2>3 DEF Replace, IInv, Stores, ProfileChanged
    <3> QED BY <2>3, <3>1, OutputTyped DEF Replace, IInv, Stores
  <2>4. CASE Commit(h)
    <3>1. row' \in Row /\ row'.port \notin Taken
      <4>1. CASE ProfileChanged(h)
        <5>1. task[h].port \notin Taken
          BY <2>4, <4>1 DEF Commit, At, IInv, Locking, Updating
        <5>2. task[h].port \in Port /\ task[h].n \in 0 .. MaxRequests
          BY <2>0 DEF Task
        <5> QED BY <2>4, <4>1, <5>1, <5>2 DEF Commit, Row
      <4>2. CASE ~ProfileChanged(h)
        BY <2>4, <4>2 DEF Commit, IInv, Stores
      <4> QED BY <4>1, <4>2
    <3> QED BY <2>4, <3>1 DEF Commit, Release, history, IInv, Stores
  <2>5. CASE Command(h)
    <3>1. task[h].want.live \in Value
      BY <2>0 DEF Task, File
    <3>2. [container EXCEPT !.live = task[h].want.live] \in Container
      BY <3>1 DEF Container, IInv, Stores
    <3> QED BY <2>5, <3>2 DEF Command, history, IInv, Stores
  <2>6. CASE Save(h)
    <3>1. task[h].want \in File
      BY <2>0 DEF Task
    <3> QED BY <2>6, <3>1 DEF Save, IInv, Stores
  <2>7. CASE Start(h)
    <3>1. task[h].loaded \in Port
      BY <2>0 DEF Task
    <3>2. Started(task[h].loaded) \in Container
      BY <3>1 DEF Started, Container, File, IInv, Stores
    <3> QED BY <2>7, <3>2 DEF Start, history, IInv, Stores
  <2>8. CASE Stop(h)
    <3>1. Exits \in Container
      BY DEF Exits, Container, IInv, Stores
    <3> QED BY <2>8, <3>1 DEF Stop, history, IInv, Stores
  <2>9. CASE Fails(h)
    BY <2>9 DEF Fails, Release, history, IInv, Stores
  <2> QED BY <1>2, <2>1, <2>2, <2>3, <2>4, <2>5, <2>6, <2>7, <2>8, <2>9 DEF Step
<1>3. CASE ServerStops
  <2>1. Exits \in Container
    BY DEF Exits, Container, IInv, Stores
  <2> QED BY <1>3, <2>1 DEF ServerStops, history, IInv, Stores
<1>4. CASE PanelStops
  BY <1>4 DEF PanelStops, history, IInv, Stores
<1>5. CASE UNCHANGED vars
  BY <1>5 DEF vars, history, IInv, Stores
<1> QED BY <1>1, <1>2, <1>3, <1>4, <1>5 DEF Next, Rest
-----------------------------------------------------------------------------
(* The lock of the row *)

\* Updating of a request that goes on depends on its step only.
LEMMA UpdatingSame ==
  ASSUME NEW h \in Handler, Same(h)
  PROVE  Updating(h)' <=> task'[h].step \in {"read", "replace", "commit"} /\ ProfileChanged(h)
BY DEF Same, Updating, ProfileChanged

LockOK(h) == (lock = h <=> Updating(h)) /\ (lock = h => task[h].port \notin Taken)

\* The request that changes the profile holds the lock from the UPDATE to the
\* commit or the rollback, alone, and with a port that is free.
LEMMA LockingKept ==
  ASSUME IInv, [Next]_vars
  PROVE  Locking'
<1> SUFFICES ASSUME NEW g \in Handler PROVE LockOK(g)'
  BY DEF Locking, LockOK
<1>0. /\ \A h \in Handler : LockOK(h)
      /\ Tasks /\ Stores
  BY DEF IInv, Locking, LockOK
<1>1. ASSUME NEW h \in Handler, Request(h) PROVE LockOK(g)'
  <2>1. PICK kind \in Kind, plan \in Value, live \in Value, port \in Port :
          Begin(h, kind, plan, live, port)
    BY <1>0, <1>1, Requests
  <2>2. /\ ~Active(h) /\ Begun(h, kind, plan, live, port)
        /\ \A f \in Handler : f # h =>
             IF Active(f) THEN Upset(f) /\ task'[h].disturbed ELSE task[f] = Idle /\ task'[f] = Idle
    BY <1>0, <2>1, BeginMoves
  <2>3. lock' = lock
    BY <2>1 DEF Begin
  <2>4. CASE g = h
    <3>1. ~Updating(h)
      BY <1>0, <2>2, ActiveTask DEF Updating, At, Steps
    <3>2. ~Updating(h)'
      BY <2>2, FirstSteps DEF Begun, Updating
    <3> QED BY <1>0, <2>3, <2>4, <3>1, <3>2 DEF LockOK
  <2>5. CASE g # h /\ Active(g)
    BY <1>0, <2>2, <2>3, <2>5 DEF LockOK, Updating, ProfileChanged, Upset
  <2>6. CASE g # h /\ ~Active(g)
    BY <1>0, <2>2, <2>3, <2>6 DEF LockOK, Updating, ProfileChanged
  <2> QED BY <2>4, <2>5, <2>6
<1>2. ASSUME NEW h \in Handler, Step(h) PROVE LockOK(g)'
  <2>0. task[h] \in Task /\ Active(h) /\ Others(h)
    BY <1>0, <1>2, StepSummary
  <2>1. g # h => (Updating(g)' <=> Updating(g)) /\ task'[g] = task[g]
    BY <2>0 DEF Others, Updating, ProfileChanged
  <2>2. CASE Previous(h) \/ Status(h) \/ Command(h) \/ Save(h) \/ Stop(h)
    <3>1. lock' = lock
      BY <2>2 DEF Previous, Status, Command, Save, Stop
    <3>2. ~Updating(h) /\ ~Updating(h)'
      BY <1>0, <2>2, UpdatingSame, PreviousMoves, StatusMoves, CommandMoves, SaveMoves, StopMoves
         DEF Previous, Status, Command, Save, Stop, At, Updating, Kept
    <3> QED BY <1>0, <2>1, <3>1, <3>2 DEF LockOK
  <2>3. CASE Answer(h) \/ Start(h)
    <3>1. lock' = lock /\ ~Updating(h)
      BY <2>3 DEF Answer, Start, At, Updating
    <3>2. ~Updating(h)'
      BY <1>0, <2>3, AnswerMoves, StartMoves DEF Updating, Idle
    <3> QED BY <1>0, <2>1, <3>1, <3>2 DEF LockOK
  <2>4. CASE Flush(h)
    <3>1. Kept(h) /\ task'[h].step = IF ProfileChanged(h) /\ task[h].port \in Taken
                                     THEN "refused" ELSE "read"
      BY <1>0, <2>4, FlushMoves
    <3>2. lock' = IF ProfileChanged(h) /\ task[h].port \notin Taken THEN h ELSE lock
      BY <2>4 DEF Flush
    <3>3. ProfileChanged(h) => lock = None
      BY <2>4 DEF Flush
    <3>4. ~Updating(h) /\ (Updating(h)' <=> ProfileChanged(h) /\ task[h].port \notin Taken)
      BY <2>4, <3>1, UpdatingSame DEF Flush, At, Updating, Kept
    <3>5. task'[h].port = task[h].port
      BY <3>1 DEF Kept, Same
    <3>6. h # None /\ g # None
      BY NoneAssumption
    <3> QED BY <1>0, <2>1, <3>2, <3>3, <3>4, <3>5, <3>6 DEF LockOK
  <2>5. CASE Read(h) \/ Replace(h)
    <3>1. lock' = lock
      BY <2>5 DEF Read, Replace
    <3>2. Updating(h) <=> Updating(h)'
      BY <1>0, <2>5, UpdatingSame, ReadMoves, ReplaceMoves DEF Read, Replace, At, Updating
    <3>3. task'[h].port = task[h].port
      BY <1>0, <2>5, ReadMoves, ReplaceMoves DEF Same
    <3> QED BY <1>0, <2>1, <3>1, <3>2, <3>3 DEF LockOK
  <2>6. CASE Commit(h) \/ Fails(h)
    <3>1. lock' = Release(h)
      BY <2>6 DEF Commit, Fails
    <3>2. ~Updating(h)'
      BY <1>0, <2>6, UpdatingSame, CommitMoves, FailsMoves DEF Updating, Idle, Kept
    <3>3. h # None /\ g # None
      BY NoneAssumption
    <3> QED BY <1>0, <2>1, <3>1, <3>2, <3>3 DEF LockOK, Release
  <2> QED BY <1>2, <2>2, <2>3, <2>4, <2>5, <2>6 DEF Step
<1>3. CASE UNCHANGED <<task, lock>>
  BY <1>0, <1>3 DEF LockOK, Updating, ProfileChanged
<1>4. CASE PanelStops
  <2>1. ~Updating(g)' /\ lock' # g
    BY <1>4, NoneAssumption DEF PanelStops, Updating, Idle
  <2> QED BY <2>1 DEF LockOK
<1> QED BY <1>1, <1>2, <1>3, <1>4 DEF Next, ServerStops, Rest, vars
-----------------------------------------------------------------------------
(* Who is not disturbed is alone *)

\* After a step of h nobody but h can be both active and undisturbed ... and
\* whoever is, was so before.
LEMMA StepAlone ==
  ASSUME IInv, NEW h \in Handler, Step(h), NEW g \in Handler, Undisturbed(g)'
  PROVE  g = h /\ Undisturbed(h) /\ Same(h)
<1>1. Active(h) /\ Others(h) /\ (task'[h] = Idle \/ Same(h))
  BY StepSummary DEF IInv
<1>2. g # h => Undisturbed(g)
  BY <1>1 DEF Others, Undisturbed, Active
<1>3. g = h
  BY <1>1, <1>2 DEF IInv, Alone
<1>4. task'[h] # Idle
  BY <1>3 DEF Undisturbed, Active, Idle
<1> QED BY <1>1, <1>3, <1>4 DEF Undisturbed, Active, Same

\* Two requests that are served at the same time are both disturbed.
LEMMA AloneKept ==
  ASSUME IInv, [Next]_vars
  PROVE  Alone'
<1> SUFFICES ASSUME NEW f \in Handler, NEW g \in Handler, Undisturbed(g)', Active(f)'
             PROVE  f = g
  BY DEF Alone
<1>1. ASSUME NEW h \in Handler, Request(h) PROVE f = g
  <2>1. PICK kind \in Kind, plan \in Value, live \in Value, port \in Port :
          Begin(h, kind, plan, live, port)
    BY <1>1, Requests DEF IInv
  <2>2. \A e \in Handler : e # h =>
          IF Active(e) THEN Upset(e) /\ task'[h].disturbed ELSE task[e] = Idle /\ task'[e] = Idle
    BY <2>1, BeginMoves DEF IInv
  <2>3. g = h
    BY <2>2 DEF Undisturbed, Active, Upset, Idle
  <2> QED BY <2>2, <2>3 DEF Undisturbed, Active, Upset, Idle
<1>2. ASSUME NEW h \in Handler, Step(h) PROVE f = g
  <2>1. g = h /\ Undisturbed(h)
    BY <1>2, StepAlone
  <2>2. f # h => Active(f)
    BY <1>2, StepSummary DEF Others, Active, IInv
  <2> QED BY <2>1, <2>2 DEF IInv, Alone
<1>3. CASE UNCHANGED task
  BY <1>3 DEF IInv, Alone, Undisturbed, Active
<1>4. CASE PanelStops
  BY <1>4 DEF PanelStops, Active, Idle
<1> QED BY <1>1, <1>2, <1>3, <1>4 DEF Next, ServerStops, Rest, vars
-----------------------------------------------------------------------------
(* The file and the row of an undisturbed request *)

\* What the file is to become stays the same.
LEMMA WantedSame ==
  ASSUME NEW h \in Handler, Same(h)
  PROVE  Wanted(h)' = Wanted(h)
BY DEF Same, Wanted

\* A request that disturbs nobody begins at the beginning.
LEMMA ProgressBegins ==
  ASSUME IInv, NEW h \in Handler, Request(h), NEW g \in Handler, Undisturbed(g)'
  PROVE  /\ g = h /\ task'[g].step \in {"previous", "flush", "save", "start", "stop"}
         /\ task'[g].file0 = file /\ task'[g].row0 = row /\ task'[g].inStep0 = InStep
         /\ task'[g].loaded = row.port /\ ~task'[g].applied
         /\ task'[g].step \in StepsOf(task'[g].kind)
         /\ task'[g].kind = "ui" => task'[g].step = "previous"
         /\ task'[g].kind = "restart" => task'[g].step = "stop"
         /\ task'[g].kind \in {"edit", "start", "restart"} => task'[g].port = row.port
         /\ UNCHANGED <<file, row, container>>
<1>1. PICK kind \in Kind, plan \in Value, live \in Value, port \in Port :
        /\ Begin(h, kind, plan, live, port)
        /\ kind \in {"edit", "start", "restart"} => port = row.port
  BY Requests DEF IInv
<1>2. /\ Begun(h, kind, plan, live, port)
      /\ \A e \in Handler : e # h =>
          IF Active(e) THEN Upset(e) /\ task'[h].disturbed ELSE task[e] = Idle /\ task'[e] = Idle
  BY <1>1, BeginMoves DEF IInv
<1>3. g = h
  BY <1>2 DEF Undisturbed, Active, Upset, Idle
<1>4. /\ FirstStep(kind) \in StepsOf(kind) \cap {"previous", "flush", "save", "start", "stop"}
      /\ kind = "ui" => FirstStep(kind) = "previous"
      /\ kind = "restart" => FirstStep(kind) = "stop"
  BY FirstSteps DEF FirstStep
<1>5. UNCHANGED <<file, row, container>>
  BY <1>1 DEF Begin
<1>6. ~task'[h].disturbed
  BY <1>3 DEF Undisturbed
<1> QED BY <1>1, <1>2, <1>3, <1>4, <1>5, <1>6 DEF Begun

\* At every step an undisturbed request has done to the file and to the row
\* what it should have done by then, and no more.
LEMMA ProgressKept ==
  ASSUME IInv, [Next]_vars, NEW g \in Handler
  PROVE  Progress(g)'
<1> SUFFICES ASSUME Undisturbed(g)' PROVE Progress(g)'
  BY DEF Progress
<1>1. ASSUME NEW h \in Handler, Request(h) PROVE Progress(g)'
  <2>1. /\ task'[g].step \in {"previous", "flush", "save", "start", "stop"}
        /\ task'[g].file0 = file /\ task'[g].row0 = row /\ task'[g].loaded = row.port
        /\ task'[g].kind \in {"edit", "start", "restart"} => task'[g].port = row.port
        /\ UNCHANGED <<file, row>>
    BY <1>1, ProgressBegins
  <2> QED BY <2>1 DEF Progress, Before, IInv, Stores
<1>2. ASSUME NEW h \in Handler, Step(h) PROVE Progress(g)'
  <2>0. g = h /\ Undisturbed(h) /\ Same(h) /\ task[h] \in Task
    BY <1>2, StepAlone, StepSummary DEF IInv
  <2>1. /\ task[h].file0 \in File /\ task[h].row0 \in Row /\ task[h].row0.port = task[h].loaded
        /\ task[h].step \in Before => file = task[h].file0 /\ row = task[h].row0
        /\ task[h].step = "replace" => task[h].stored = task[h].file0
        /\ task[h].step = "commit" => file = Wanted(h) /\ row = task[h].row0
        /\ task[h].step \in {"status", "command", "answer"} =>
             file = Wanted(h) /\ row.port = task[h].port
        /\ task[h].kind \in {"edit", "start", "restart"} => task[h].port = task[h].loaded
    BY <2>0 DEF IInv, Progress
  <2>2. /\ task'[h].file0 = task[h].file0 /\ task'[h].row0 = task[h].row0
        /\ task'[h].loaded = task[h].loaded /\ task'[h].port = task[h].port
        /\ task'[h].kind = task[h].kind /\ Wanted(h)' = Wanted(h)
    BY <2>0, WantedSame DEF Same
  <2>3. CASE Previous(h) \/ Flush(h)
    <3>1. task'[h].step \in {"flush", "refused", "read"} /\ task[h].step \in Before
      BY <2>3, PreviousMoves, FlushMoves DEF Previous, Flush, At, Before, IInv
    <3>2. UNCHANGED <<file, row>>
      BY <2>3 DEF Previous, Flush
    <3> QED BY <2>0, <2>1, <2>2, <3>1, <3>2 DEF Progress, Before
  <2>4. CASE Read(h)
    <3>1. task'[h].step = "replace" /\ task'[h].stored = file /\ task[h].step \in Before
      BY <2>4, ReadMoves DEF Read, At, Before, IInv
    <3>2. UNCHANGED <<file, row>>
      BY <2>4 DEF Read
    <3> QED BY <2>0, <2>1, <2>2, <3>1, <3>2 DEF Progress, Before
  <2>5. CASE Replace(h)
    <3>1. task'[h].step = "commit" /\ task[h].step = "replace" /\ task[h].step \in Before
      BY <2>5, ReplaceMoves DEF Replace, At, Before, IInv
    <3>2. file' = Output(h) /\ row' = row
      BY <2>5 DEF Replace
    <3>3. task[h].kind # "edit"
      BY <2>0, <3>1 DEF IInv, Tasks, StepsOf, Undisturbed
    <3>4. Output(h) = Wanted(h)
      BY <2>1, <3>1, <3>3 DEF Output, Wanted
    <3> QED BY <2>0, <2>1, <2>2, <3>1, <3>2, <3>4 DEF Progress, Before
  <2>6. CASE Commit(h)
    <3>1. task'[h].step \in {"status", "answer"} /\ task[h].step = "commit"
      BY <2>6, CommitMoves DEF Commit, At, IInv
    <3>2. file' = file /\ row'.port = task[h].port
      BY <2>1, <2>6, <3>1 DEF Commit, ProfileChanged
    <3> QED BY <2>0, <2>1, <2>2, <3>1, <3>2 DEF Progress, Before
  <2>7. CASE Status(h) \/ Command(h)
    <3>1. task'[h].step \in {"command", "answer"} /\ task[h].step \in {"status", "command"}
      BY <2>7, StatusMoves, CommandMoves DEF Status, Command, At, IInv
    <3>2. UNCHANGED <<file, row>>
      BY <2>7 DEF Status, Command
    <3> QED BY <2>0, <2>1, <2>2, <3>1, <3>2 DEF Progress, Before
  <2>8. CASE Save(h)
    <3>1. task'[h].step = "answer" /\ task[h].step = "save" /\ task[h].step \in Before
      BY <2>8, SaveMoves DEF Save, At, IInv, Before
    <3>2. file' = task[h].want /\ row' = row
      BY <2>8 DEF Save
    <3>3. task[h].kind = "edit"
      BY <2>0, <3>1 DEF IInv, Tasks, StepsOf, Undisturbed
    <3>4. task[h].want = Wanted(h)
      BY <3>3 DEF Wanted
    <3> QED BY <2>0, <2>1, <2>2, <3>1, <3>2, <3>3, <3>4 DEF Progress, Before
  <2>9. CASE Stop(h)
    <3>1. task'[h].step = "start" /\ task[h].step \in Before
      BY <2>9, StopMoves DEF Stop, At, IInv, Before
    <3>2. UNCHANGED <<file, row>>
      BY <2>9 DEF Stop
    <3> QED BY <2>0, <2>1, <2>2, <3>1, <3>2 DEF Progress, Before
  <2>10. CASE Fails(h)
    <3>1. task'[h].step = "refused" /\ task[h].step \in Before
      BY <2>0, <2>10, FailsMoves DEF Same, Task, Idle, IInv, Before, Kind
    <3>2. UNCHANGED <<file, row>>
      BY <2>10 DEF Fails
    <3> QED BY <2>0, <2>1, <2>2, <3>1, <3>2 DEF Progress, Before
  <2>11. CASE Answer(h) \/ Start(h)
    <3>1. task'[h] = Idle
      BY <2>11, AnswerMoves, StartMoves DEF IInv
    <3> QED BY <2>0, <3>1 DEF Undisturbed, Active, Idle
  <2> QED BY <1>2, <2>3, <2>4, <2>5, <2>6, <2>7, <2>8, <2>9, <2>10, <2>11 DEF Step
<1>3. CASE UNCHANGED <<task, file, row>>
  BY <1>3 DEF IInv, Progress, Undisturbed, Active, Wanted
<1>4. CASE PanelStops
  BY <1>4 DEF PanelStops, Undisturbed, Active, Idle
<1> QED BY <1>1, <1>2, <1>3, <1>4 DEF Next, ServerStops, Rest, vars
-----------------------------------------------------------------------------
(* The server during an undisturbed request *)

\* What the container has of the saved settings, as the request knows it.
Loaded(h) ==
  task[h].kind = "ui" /\ task[h].inStep0 /\ Running =>
    /\ container.plan = task[h].file0.plan /\ container.port = task[h].loaded
    /\ container.live = IF task[h].applied THEN task[h].want.live ELSE task[h].file0.live
    /\ task[h].step \in {"command", "answer"} => task[h].up

\* A step that leaves the container and the command alone leaves what the
\* request knows of it.
LEMMA LoadedSame ==
  ASSUME NEW h \in Handler, Same(h), Loaded(h), UNCHANGED container,
         task'[h].up = task[h].up, task'[h].applied = task[h].applied,
         task'[h].step \in {"command", "answer"} => task[h].step \in {"command", "answer"}
                                                    \/ task[h].kind # "ui"
  PROVE  Loaded(h)'
BY DEF Same, Loaded, Running

\* A request that nobody disturbs knows what the server has loaded: what was
\* saved before, until it sends the live settings itself.
LEMMA KnowledgeKept ==
  ASSUME IInv, [Next]_vars, NEW g \in Handler
  PROVE  Knowledge(g)'
<1> SUFFICES ASSUME Undisturbed(g)'
             PROVE  /\ task'[g].kind = "restart" /\ task'[g].step = "start" => ~Running'
                    /\ task'[g].kind = "ui" /\ task'[g].step # "previous" =>
                         task'[g].previous = Pair(task'[g].file0)
                    /\ Loaded(g)'
  BY DEF Knowledge, Loaded
<1>1. ASSUME NEW h \in Handler, Request(h)
      PROVE  /\ task'[g].kind = "restart" /\ task'[g].step = "start" => ~Running'
             /\ task'[g].kind = "ui" /\ task'[g].step # "previous" =>
                  task'[g].previous = Pair(task'[g].file0)
             /\ Loaded(g)'
  <2>1. /\ task'[g].file0 = file /\ task'[g].inStep0 = InStep
        /\ task'[g].loaded = row.port /\ ~task'[g].applied
        /\ task'[g].kind = "ui" => task'[g].step = "previous"
        /\ task'[g].kind = "restart" => task'[g].step = "stop"
        /\ UNCHANGED <<file, row, container>>
    BY <1>1, ProgressBegins
  <2> QED BY <2>1 DEF Loaded, InStep, Pair, Running
<1>2. ASSUME NEW h \in Handler, Step(h)
      PROVE  /\ task'[g].kind = "restart" /\ task'[g].step = "start" => ~Running'
             /\ task'[g].kind = "ui" /\ task'[g].step # "previous" =>
                  task'[g].previous = Pair(task'[g].file0)
             /\ Loaded(g)'
  <2>0. g = h /\ Undisturbed(h) /\ Same(h) /\ task[h] \in Task /\ Tasks /\ Stores
    BY <1>2, StepAlone, StepSummary DEF IInv
  <2>1. /\ task[h].kind = "restart" /\ task[h].step = "start" => ~Running
        /\ task[h].kind = "ui" /\ task[h].step # "previous" =>
             task[h].previous = Pair(task[h].file0)
        /\ Loaded(h)
        /\ task[h].step \in StepsOf(task[h].kind)
        /\ task[h].applied => task[h].step = "answer"
        /\ task[h].step \in Before => file = task[h].file0
    BY <2>0 DEF IInv, Knowledge, Loaded, Tasks, Undisturbed, Progress
  <2>2. task'[h].kind = task[h].kind /\ task'[h].file0 = task[h].file0
    BY <2>0 DEF Same
  <2>3. CASE Previous(h)
    <3>1. task'[h].step = "flush" /\ task'[h].previous = Pair(file) /\ file = task[h].file0
          /\ task'[h].up = task[h].up /\ task'[h].applied = task[h].applied
      BY <2>0, <2>1, <2>3, PreviousMoves DEF Previous, At, Before
    <3>2. UNCHANGED container
      BY <2>3 DEF Previous
    <3>3. Loaded(h)'
      BY <2>0, <2>1, <3>1, <3>2, LoadedSame
    <3> QED BY <2>0, <2>2, <3>1, <3>3
  <2>4. CASE Flush(h) \/ Read(h) \/ Replace(h) \/ Fails(h)
    <3>1. task'[h].step \in {"refused", "read", "replace", "commit"}
          /\ task'[h].previous = task[h].previous /\ task[h].step \in {"flush", "read", "replace"}
          /\ task'[h].up = task[h].up /\ task'[h].applied = task[h].applied
      BY <2>0, <2>4, FlushMoves, ReadMoves, ReplaceMoves, FailsMoves, SMTT(60)
         DEF Flush, Read, Replace, At, Kept, Same, Task, Idle, Kind
    <3>2. UNCHANGED container
      BY <2>4 DEF Flush, Read, Replace, Fails
    <3>3. Loaded(h)'
      BY <2>0, <2>1, <3>1, <3>2, LoadedSame
    <3> QED BY <2>0, <2>1, <2>2, <3>1, <3>3
  <2>5. CASE Commit(h)
    <3>1. task'[h].step = (IF task[h].kind = "ui" THEN "status" ELSE "answer")
          /\ task'[h].previous = task[h].previous /\ task[h].step = "commit"
          /\ task'[h].up = task[h].up /\ task'[h].applied = task[h].applied
      BY <2>0, <2>5, CommitMoves DEF Commit, At, Kept
    <3>2. UNCHANGED container
      BY <2>5 DEF Commit
    <3>3. Loaded(h)'
      BY <2>0, <2>1, <3>1, <3>2, LoadedSame
    <3> QED BY <2>0, <2>1, <2>2, <3>1, <3>3
  <2>6. CASE Status(h)
    <3>1. task'[h].step = "command" /\ task'[h].previous = task[h].previous
          /\ task[h].step = "status" /\ task'[h].up = Running /\ task'[h].applied = task[h].applied
      BY <2>0, <2>6, StatusMoves DEF Status, At
    <3>2. UNCHANGED container
      BY <2>6 DEF Status
    <3>3. Loaded(h)'
      BY <2>0, <2>1, <3>1, <3>2 DEF Loaded, Same, Running
    <3> QED BY <2>0, <2>1, <2>2, <3>1, <3>3
  <2>7. CASE Command(h)
    <3>1. task'[h].step = "answer" /\ task'[h].previous = task[h].previous
          /\ task[h].step = "command" /\ task'[h].up = task[h].up
          /\ container' = IF task'[h].applied
                          THEN [container EXCEPT !.live = task[h].want.live] ELSE container
      BY <2>0, <2>7, CommandMoves DEF Command, At
    <3>2. container \in Container
      BY <2>0 DEF Stores
    <3>3. /\ container'.is = container.is /\ container'.plan = container.plan
          /\ container'.port = container.port
          /\ container'.live = IF task'[h].applied THEN task[h].want.live ELSE container.live
      BY <3>1, <3>2 DEF Container
    <3>4. Loaded(h)'
      BY <2>0, <2>1, <3>1, <3>3 DEF Loaded, Same, Running
    <3> QED BY <2>0, <2>1, <2>2, <3>1, <3>4
  <2>8. CASE Save(h) \/ Stop(h)
    <3>1. task'[h].step \in {"answer", "start"} /\ task[h].step \in {"save", "stop"}
      BY <2>0, <2>8, SaveMoves, StopMoves DEF Save, Stop, At
    <3>2. task[h].kind # "ui"
      BY <2>1, <3>1 DEF StepsOf
    <3>3. task[h].kind = "restart" => ~Running'
      <4>1. CASE Stop(h)
        BY <2>0, <4>1 DEF Stop, Exits, Running, Stores, Container
      <4>2. CASE Save(h)
        BY <2>1, <4>2 DEF Save, At, StepsOf
      <4> QED BY <2>8, <4>1, <4>2
    <3> QED BY <2>0, <2>2, <3>2, <3>3 DEF Loaded
  <2>9. CASE Answer(h) \/ Start(h)
    <3>1. task'[h] = Idle
      BY <2>0, <2>9, AnswerMoves, StartMoves
    <3> QED BY <2>0, <3>1 DEF Undisturbed, Active, Idle
  <2> QED BY <1>2, <2>3, <2>4, <2>5, <2>6, <2>7, <2>8, <2>9 DEF Step
<1>3. ASSUME UNCHANGED task, Running' => Running /\ container' = container
      PROVE  /\ task'[g].kind = "restart" /\ task'[g].step = "start" => ~Running'
             /\ task'[g].kind = "ui" /\ task'[g].step # "previous" =>
                  task'[g].previous = Pair(task'[g].file0)
             /\ Loaded(g)'
  <2>1. /\ task[g].kind = "restart" /\ task[g].step = "start" => ~Running
        /\ task[g].kind = "ui" /\ task[g].step # "previous" =>
             task[g].previous = Pair(task[g].file0)
        /\ Loaded(g)
    BY <1>3 DEF IInv, Knowledge, Loaded, Undisturbed, Active
  <2> QED BY <1>3, <2>1 DEF Loaded
<1>4. CASE ServerStops
  <2>1. ~Running'
    BY <1>4 DEF ServerStops, Exits, Running, IInv, Stores, Container
  <2> QED BY <1>3, <1>4, <2>1 DEF ServerStops
<1>5. CASE UNCHANGED vars
  <2>1. UNCHANGED <<task, container>> /\ (Running' => Running)
    BY <1>5 DEF vars, Running
  <2> QED BY <1>3, <2>1
<1>6. CASE PanelStops
  BY <1>6 DEF PanelStops, Undisturbed, Active, Idle
<1> QED BY <1>1, <1>2, <1>4, <1>5, <1>6 DEF Next, Rest
-----------------------------------------------------------------------------
(* Whose settings are in the file *)

\* The file holds a pair of settings that one request asked for.
LEMMA AskedKept ==
  ASSUME IInv, [Next]_vars
  PROVE  Asked'
<1>1. ASSUME NEW h \in Handler, Request(h) PROVE Asked'
  <2>1. PICK kind \in Kind, plan \in Value, live \in Value, port \in Port :
          Begin(h, kind, plan, live, port)
    BY <1>1, Requests DEF IInv
  <2>2. /\ Begun(h, kind, plan, live, port)
        /\ \A e \in Handler : e # h =>
            IF Active(e) THEN Upset(e) /\ task'[h].disturbed ELSE task[e] = Idle /\ task'[e] = Idle
    BY <2>1, BeginMoves DEF IInv
  <2>3. file' = file /\ asked' = IF kind \in Writer THEN asked \cup {<<plan, live>>} ELSE asked
    BY <2>1 DEF Begin
  <2>4. ASSUME NEW g \in Handler, Writes(g)' PROVE Pair(task'[g].want) \in asked'
    <3>1. CASE g = h
      BY <2>2, <2>3, <2>4, <3>1 DEF Begun, Writes
    <3>2. CASE g # h
      <4>1. Writes(g) /\ task'[g].want = task[g].want
        BY <2>2, <2>4, <3>2 DEF Writes, Upset, Idle, Writer
      <4> QED BY <2>3, <4>1 DEF IInv, Asked
    <3> QED BY <3>1, <3>2
  <2> QED BY <2>3, <2>4 DEF IInv, Asked
<1>2. ASSUME NEW h \in Handler, Step(h) PROVE Asked'
  <2>1. Active(h) /\ task[h] \in Task /\ Others(h) /\ (task'[h] = Idle \/ Same(h))
    BY <1>2, StepSummary DEF IInv
  <2>2. ASSUME NEW g \in Handler, Writes(g)' PROVE Writes(g) /\ task'[g].want = task[g].want
    BY <2>1, <2>2 DEF Others, Same, Writes, Idle, Writer
  <2>3. asked' = asked
    BY <1>2 DEF Step, Previous, Flush, Read, Replace, Commit, Status, Command, Answer, Save, Start,
       Stop, Fails, history
  <2>4. file' = file \/ (Writes(h) /\ Pair(file)' = Pair(task[h].want))
    <3>1. CASE Replace(h)
      <4>1. Writes(h)
        BY <2>1, <3>1 DEF Replace, At, IInv, Tasks, StepsOf, Writes, Writer, Task, Kind
      <4>2. task[h].want \in File
        BY <2>1 DEF Task
      <4>3. Output(h).plan = task[h].want.plan /\ Output(h).live = task[h].want.live
        BY <4>2 DEF Output, File
      <4> QED BY <3>1, <4>1, <4>3 DEF Replace, Pair
    <3>2. CASE Save(h)
      <4>1. Writes(h)
        BY <2>1, <3>2 DEF Save, At, IInv, Tasks, StepsOf, Writes, Writer, Task, Kind
      <4> QED BY <3>2, <4>1 DEF Save
    <3>3. CASE Previous(h) \/ Flush(h) \/ Read(h) \/ Commit(h) \/ Status(h) \/ Command(h)
      <4>1. file' = file
        BY <3>3 DEF Previous, Flush, Read, Commit, Status, Command
      <4> QED BY <4>1
    <3>4. CASE Answer(h) \/ Start(h) \/ Stop(h) \/ Fails(h)
      <4>1. file' = file
        BY <3>4 DEF Answer, Start, Stop, Fails
      <4> QED BY <4>1
    <3> QED BY <1>2, <3>1, <3>2, <3>3, <3>4 DEF Step
  <2> QED BY <2>2, <2>3, <2>4 DEF IInv, Asked, Pair
<1>3. CASE UNCHANGED <<task, file, asked>>
  BY <1>3 DEF IInv, Asked, Writes
<1>4. CASE PanelStops
  BY <1>4 DEF PanelStops, history, IInv, Asked, Writes, Writer, Idle
<1> QED BY <1>1, <1>2, <1>3, <1>4 DEF Next, ServerStops, Rest, vars, history

\* Whose the row will be when the lock is given back.
Owner == IF lock # None /\ task[lock].step = "commit" THEN task[lock].n ELSE row.by

\* As long as every request that writes the file changes the profile too, file
\* and row are written in pairs under the lock.
LEMMA VersionsKept ==
  ASSUME IInv, [Next]_vars
  PROVE  Versions'
<1> SUFFICES ASSUME faults' = 0, ~unpaired' PROVE file'.by = Owner'
  BY DEF Versions, Owner
<1>0. /\ \A h \in Handler : (lock = h <=> Updating(h)) /\ h # None
      /\ lock \in Handler \cup {None}
      /\ faults \in Nat
      /\ faults = 0 /\ ~unpaired => file.by = Owner
  BY NoneAssumption DEF IInv, Locking, Stores, Versions, Owner
<1>1. ASSUME NEW h \in Handler, Request(h) PROVE file'.by = Owner'
  <2>1. PICK kind \in Kind, plan \in Value, live \in Value, port \in Port :
          Begin(h, kind, plan, live, port)
    BY <1>1, Requests DEF IInv
  <2>2. /\ ~Active(h) /\ Begun(h, kind, plan, live, port)
        /\ \A e \in Handler : e # h =>
            IF Active(e) THEN Upset(e) /\ task'[h].disturbed ELSE task[e] = Idle /\ task'[e] = Idle
    BY <2>1, BeginMoves DEF IInv
  <2>3. UNCHANGED <<file, row, lock, faults, unpaired>>
    BY <2>1 DEF Begin
  <2>4. lock # h
    BY <1>0, <2>2, ActiveTask DEF Updating, At, Steps, IInv
  <2>5. lock # None => task'[lock].step = task[lock].step /\ task'[lock].n = task[lock].n
    BY <1>0, <2>2, <2>4 DEF Upset
  <2> QED BY <1>0, <2>3, <2>5 DEF Owner
<1>2. ASSUME NEW h \in Handler, Step(h) PROVE file'.by = Owner'
  <2>0. Active(h) /\ task[h] \in Task /\ Others(h) /\ Tasks /\ Stores
    BY <1>2, StepSummary DEF IInv
  <2>1. \A g \in Handler : g # h => task'[g] = task[g]
    BY <2>0 DEF Others
  <2>2. CASE \/ Previous(h) \/ Read(h) \/ Status(h) \/ Command(h) \/ Answer(h) \/ Start(h)
             \/ Stop(h)
    <3>1. UNCHANGED <<file, row, lock, faults, unpaired>>
      BY <2>2 DEF Previous, Read, Status, Command, Answer, Start, Stop, history
    <3>2. task[h].step # "commit"
      BY <2>2 DEF Previous, Read, Status, Command, Answer, Start, Stop, At
    <3>3. task'[h].step # "commit"
      <4>1. CASE Previous(h) \/ Read(h) \/ Status(h) \/ Command(h) \/ Stop(h)
        BY <2>0, <4>1, PreviousMoves, ReadMoves, StatusMoves, CommandMoves, StopMoves
      <4>2. CASE Answer(h) \/ Start(h)
        BY <2>0, <4>2, AnswerMoves, StartMoves DEF Idle
      <4> QED BY <2>2, <4>1, <4>2
    <3> QED BY <1>0, <2>1, <3>1, <3>2, <3>3 DEF Owner
  <2>3. CASE Flush(h)
    <3>1. UNCHANGED <<file, row, faults, unpaired>> /\ lock' \in {lock, h}
          /\ (lock' # lock => lock = None)
      BY <2>3 DEF Flush, history
    <3>2. task[h].step # "commit" /\ task'[h].step # "commit"
      BY <2>0, <2>3, FlushMoves DEF Flush, At
    <3> QED BY <1>0, <2>1, <3>1, <3>2 DEF Owner
  <2>4. CASE Replace(h)
    <3>1. ProfileChanged(h)
      BY <2>4 DEF Replace
    <3>2. lock = h /\ lock' = lock /\ task[h].step = "replace" /\ task'[h].step = "commit"
      BY <1>0, <2>0, <2>4, <3>1, ReplaceMoves DEF Replace, At, Updating
    <3>3. task'[h].n = task[h].n
      BY <2>0, <2>4, ReplaceMoves DEF Same
    <3>4. file'.by = task[h].n
      <4>1. task[h].want \in File /\ task[h].want.by = task[h].n
        BY <2>0 DEF Task, Tasks
      <4>2. Output(h).by = task[h].want.by
        BY <4>1 DEF Output, File
      <4> QED BY <2>4, <4>1, <4>2 DEF Replace
    <3> QED BY <1>0, <3>2, <3>3, <3>4 DEF Owner
  <2>5. CASE Commit(h)
    <3>1. UNCHANGED <<file, faults, unpaired>> /\ lock' = Release(h)
          /\ row' = IF ProfileChanged(h) THEN [port |-> task[h].port, by |-> task[h].n] ELSE row
      BY <2>5 DEF Commit, history
    <3>2. (lock = h <=> ProfileChanged(h)) /\ task[h].step = "commit"
      BY <1>0, <2>5 DEF Commit, At, Updating
    <3>3. file.by = Owner
      BY <1>0, <3>1
    <3>4. CASE ProfileChanged(h)
      BY <1>0, <3>1, <3>2, <3>3, <3>4 DEF Owner, Release
    <3>5. CASE ~ProfileChanged(h)
      BY <1>0, <2>1, <3>1, <3>2, <3>3, <3>5 DEF Owner, Release
    <3> QED BY <3>4, <3>5
  <2>6. CASE Save(h)
    BY <2>6 DEF Save
  <2>7. CASE Fails(h)
    BY <1>0, <2>7 DEF Fails
  <2> QED BY <1>2, <2>2, <2>3, <2>4, <2>5, <2>6, <2>7 DEF Step
<1>3. CASE UNCHANGED <<task, file, row, lock, faults, unpaired>>
  BY <1>0, <1>3 DEF Owner
<1>4. CASE PanelStops
  BY <1>0, <1>4 DEF PanelStops
<1> QED BY <1>1, <1>2, <1>3, <1>4 DEF Next, ServerStops, Rest, vars, history
-----------------------------------------------------------------------------
(* The theorems *)

\* The first state satisfies the invariant.
LEMMA Initially == Init => IInv
<1> SUFFICES ASSUME Init PROVE IInv
  OBVIOUS
<1>1. 0 \in 0 .. MaxRequests /\ 0 \in Nat
  BY BoundAssumption
<1>2. Stores
  BY <1>1, PortAssumption DEF Init, Stores, File, Row, Container
<1>3. Tasks /\ \A h \in Handler : ~Active(h) /\ task[h] = Idle
  BY DEF Init, Tasks, Active, Idle
<1>4. Locking
  BY <1>3, NoneAssumption DEF Init, Locking, Updating, Idle
<1>5. Alone /\ \A h \in Handler : Progress(h) /\ Knowledge(h)
  BY <1>3 DEF Alone, Undisturbed, Progress, Knowledge
<1>6. Asked
  BY <1>3 DEF Init, Asked, Writes, Idle, Writer
<1>7. Versions
  BY DEF Init, Versions
<1> QED BY <1>2, <1>3, <1>4, <1>5, <1>6, <1>7 DEF IInv

\* Every step keeps the invariant.
LEMMA Inductively == IInv /\ [Next]_vars => IInv'
BY StoresKept, TasksKept, LockingKept, AloneKept, ProgressKept, KnowledgeKept, AskedKept,
   VersionsKept DEF IInv

\* Every reachable state satisfies the invariant.
LEMMA Invariant == Spec => []IInv
BY Initially, Inductively, PTL DEF Spec

\* Every variable keeps its type; the port in the row is never the port of
\* another server, and the lock of the row is held by a request that is being
\* served and changes the profile: no end of a request, and no crash of the
\* panel, leaves it behind.
THEOREM TypeCorrect == Spec => []TypeOK
<1>1. IInv => TypeOK
  <2> SUFFICES ASSUME IInv PROVE TypeOK
    OBVIOUS
  <2>1. ASSUME NEW h \in Handler, Active(h)
        PROVE  task[h].kind \in Kind /\ task[h].want \in File /\ task[h].port \in Port
    BY <2>1, ActiveTask DEF IInv, Task
  <2>2. ASSUME lock # None PROVE Active(lock) /\ ProfileChanged(lock)
    BY <2>2, ActiveTask DEF IInv, Stores, Locking, Updating, At, Steps
  <2> QED BY <2>1, <2>2 DEF TypeOK, IInv, Stores
<1> QED BY <1>1, Invariant, PTL

\* A request that nobody disturbs is one change of the file and the row: each
\* is the old one or the one asked for, the keys of others are kept, and the
\* row is never ahead of the file (update_server_settings_ui,
\* update_server_settings, save_server_text_file).
THEOREM ChangesAreWhole == Spec => []OneChange
<1>1. IInv => OneChange
  <2> SUFFICES ASSUME IInv, NEW h \in Handler, Writes(h), ~task[h].disturbed
               PROVE  /\ file \in {task[h].file0, Wanted(h)}
                      /\ row # task[h].row0 => file = Wanted(h) /\ row.port = task[h].port
    BY DEF OneChange
  <2>1. Active(h)
    BY DEF Writes, Writer, Active
  <2>2. task[h].step \in Steps
    BY <2>1, ActiveTask DEF IInv
  <2> QED BY <2>1, <2>2 DEF IInv, Progress, Undisturbed, Steps, Before
<1> QED BY <1>1, Invariant, PTL

\* The file never mixes the settings of two requests; and as long as every
\* writer changes the profile as well and nothing fails, file and row are of
\* the same request whenever nobody holds the lock of the row.
THEOREM SettingsUnmixed == Spec => []NeverMixed
<1>1. IInv => NeverMixed
  BY DEF IInv, NeverMixed, Asked, Versions
<1> QED BY <1>1, Invariant, PTL

\* What is said at the end of a request that nobody disturbs.
Truth(h) ==
  Active(h) /\ ~task[h].disturbed =>
    /\ Writes(h) /\ Answer(h) => StoresFit(h) /\ RestartSaid(h)
    /\ At(h, "start") /\ task[h].kind = "restart" /\ Start(h) => InStep'

\* The page asks for a restart whenever the server does not run what is saved.
LEMMA RestartIsSaid ==
  ASSUME IInv, NEW h \in Handler, Undisturbed(h)
  PROVE  RestartSaid(h)
<1> SUFFICES ASSUME task[h].kind = "ui", task[h].inStep0, At(h, "answer"), ~RestartRequired(h),
                    Running
             PROVE  Pair(container) = Pair(file) /\ container.port = row.port
  BY DEF RestartSaid, InStep
<1>1. /\ file = Wanted(h) /\ row.port = task[h].port
      /\ task[h].previous = Pair(task[h].file0)
      /\ container.plan = task[h].file0.plan /\ container.port = task[h].loaded
      /\ container.live = IF task[h].applied THEN task[h].want.live ELSE task[h].file0.live
      /\ task[h].up
  BY DEF IInv, Progress, Knowledge, At
<1>2. /\ task[h].previous[1] = task[h].want.plan
      /\ LiveChanged(h) => task[h].applied
      /\ task[h].port = task[h].loaded
  BY <1>1 DEF RestartRequired, ProfileChanged
<1>3. task[h].file0.plan = task[h].want.plan
  BY <1>1, <1>2 DEF Pair
<1>4. task[h].applied \/ task[h].file0.live = task[h].want.live
  BY <1>1, <1>2 DEF LiveChanged, Pair
<1>5. task[h].want \in File
  BY ActiveTask DEF IInv, Undisturbed, Task
<1>6. file.plan = task[h].want.plan /\ file.live = task[h].want.live
  BY <1>1, <1>5 DEF Wanted, File
<1> QED BY <1>1, <1>2, <1>3, <1>4, <1>6 DEF Pair

\* An answer says what the stores hold.
LEMMA StoresDoFit ==
  ASSUME IInv, NEW h \in Handler, Undisturbed(h), Answer(h)
  PROVE  StoresFit(h)
BY DEF IInv, Progress, Answer, At, StoresFit, Before

\* A restart that nobody disturbs brings up everything that is saved.
LEMMA RestartApplies ==
  ASSUME IInv, NEW h \in Handler, Undisturbed(h), At(h, "start"), task[h].kind = "restart", Start(h)
  PROVE  InStep'
<1>1. ~Running /\ row = task[h].row0 /\ task[h].row0.port = task[h].loaded
  BY DEF IInv, Progress, Knowledge, At, Before
<1>2. container' = Started(task[h].loaded) /\ UNCHANGED <<file, row>>
  BY <1>1 DEF Start
<1> QED BY <1>1, <1>2 DEF Started, InStep, Pair

\* The answer to a request that nobody disturbs is true: about the stores, and
\* about whether a restart is needed for the server to run what is saved; and
\* a restart applies everything that is saved.
THEOREM AnswersAreTrue == Spec => AnswersTrue
<1>1. IInv /\ [Next]_vars => \A h \in Handler : Truth(h)
  BY RestartIsSaid, StoresDoFit, RestartApplies DEF Truth, Undisturbed
<1>2. IInv /\ [Next]_vars => [\A h \in Handler : Active(h) /\ ~task[h].disturbed =>
       /\ Writes(h) /\ Answer(h) => StoresFit(h) /\ RestartSaid(h)
       /\ At(h, "start") /\ task[h].kind = "restart" /\ Start(h) => InStep']_vars
  BY <1>1 DEF Truth
<1> QED BY <1>2, Invariant, PTL DEF Spec, AnswersTrue
=============================================================================
