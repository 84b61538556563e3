---------------------------- MODULE BackupsProofs ----------------------------
(***************************************************************************)
(* Theorems about Backups for every set of handlers, every set of versions *)
(* and every retention.                                                    *)
(***************************************************************************)
EXTENDS Backups, FiniteSetTheorems, SequenceTheorems, WellFoundedInduction, TLAPS

(* The inductive invariant *)

Makers == {"create", "update", "restore", "scheduled"}
Swappers == {"restore", "rollback"}
TaskRecord ==
  [op : Op, todo : Seq(Step), name : Backup \cup {0}, target : Backup \cup {0},
   data : Content \cup {Missing}, aside : Content \cup {Missing},
   row : Versions, wanted : Versions, doomed : SUBSET Backup]
Row == [installed : Version \cup {0}, game : Version \cup {0},
        update : {"none", "downloading", "completed", "failed", "rolled_back"}]

Now(t) == Head(task[t].todo)
On(t, ops, steps) == Active(t) /\ task[t].op \in ops /\ Now(t) \in steps

Stores ==
  /\ root \in Content \cup {Missing}
  /\ file \in [Backup -> Content \cup {Missing}]
  /\ server \in [up : BOOLEAN, saves : BOOLEAN,
                 container : [game : Version, java : Version] \cup {Missing}]
  /\ backup \in [Backup -> Row]
  /\ installed \in Version /\ game \in Version
  /\ schedule \in {"off", "waiting", "due"}
  /\ made \in 0 .. MaxBackups /\ faults \in 0 .. MaxFaults /\ disturbed \in BOOLEAN

\* What is left to do is the end of a program.
Suffix(todo, program) == \E k \in 1 .. Len(program) : todo = SubSeq(program, k, Len(program))
Programs(op) ==
  IF op = "scheduled" THEN {<<"status">>, PausingSteps, StoppedSteps, <<"saveOn", "commit">>}
  ELSE {Steps[op]}

OnCourse(t) ==
  /\ ~Active(t) => task[t] = NoTask
  /\ Active(t) => /\ task[t].op # "none" /\ (t = Pass <=> task[t].op = "scheduled")
                  /\ \E p \in Programs(task[t].op) : Suffix(task[t].todo, p)
                  /\ task[t].row.installed # 0 /\ task[t].row.game # 0
                  /\ Now(t) \in {"archived", "swapOut", "swapIn"} => task[t].data # Missing
Tasks == task \in [Task -> TaskRecord] /\ \A t \in Task : OnCourse(t)

\* The pass ends without an archive to record.
Abandoned(t) == t = Pass /\ task[t].todo \in {<<"saveOn", "commit">>, <<"commit">>}

\* The numbers that a task holds have been given out.
NumbersOf(t) ==
  /\ task[t].name <= made /\ task[t].target <= made
  /\ task[t].name # 0 => task[t].op \in Makers
  /\ On(t, Makers, Step) => task[t].name # 0 \/ Abandoned(t)
  /\ On(t, Swappers \cup {"delete"}, Step) => task[t].target # 0
  /\ task[t].doomed # {} => On(t, {"scheduled"}, {"commit"})
  /\ \A b \in task[t].doomed : b <= made
RowNumbered(b) ==
  backup[b] # NoRow => b <= made /\ backup[b].installed # 0 /\ backup[b].game # 0
FileNumbered(b) == file[b] # Missing => b <= made
Numbers ==
  /\ \A t \in Task : NumbersOf(t)
  /\ \A t, u \in Task : task[t].name # 0 /\ task[t].name = task[u].name => t = u
  /\ \A b \in Backup : RowNumbered(b) /\ FileNumbered(b)

\* Of backup b: its task has yet to write the file, or to insert the row; a task
\* has removed the file and will remove the row.
Making(t, b) ==
  /\ Active(t) /\ task[t].name = b
  /\ Now(t) \in {"check", "status", "saveOff", "flush", "archive", "archived"}
Made(t, b) ==
  /\ Active(t) /\ task[t].name = b
  /\ Now(t) \in {"record", "saveOn", "retain", "commit"}
Removing(t, b) ==
  \/ On(t, {"delete"}, {"finish"}) /\ task[t].target = b
  \/ b \in task[t].doomed

\* Files and rows differ only where a task is between the two, and nobody else
\* works on a backup that a task makes.
Held(b) ==
  /\ file[b] # Missing /\ backup[b] = NoRow => \E t \in Task : Made(t, b)
  /\ file[b] = Missing /\ backup[b] # NoRow => \E t \in Task : Removing(t, b)
Agrees(t, b) ==
  /\ Making(t, b) => file[b] = Missing /\ backup[b] = NoRow
  /\ Made(t, b) => backup[b] = NoRow /\ (file[b] # Missing \/ b \in task[t].doomed)
  /\ Removing(t, b) => file[b] = Missing
Apart(t, u, b) ==
  Making(t, b) \/ Made(t, b) => task[u].target # b /\ (u # t => b \notin task[u].doomed)
Agreement ==
  faults = 0 =>
    \A b \in Backup :
      Held(b) /\ \A t \in Task : Agrees(t, b) /\ \A u \in Task : Apart(t, u, b)

\* An update that is downloading has its handler.
Settling(t, b) == On(t, {"update"}, {"fetch", "remove", "finish"}) /\ task[t].name = b
Downloads ==
  faults = 0 =>
    \A b \in Backup : backup[b].update = "downloading" => \E t \in Task : Settling(t, b)

\* The recovery points of updates are known as such.
Marks(t, b) == Settling(t, b) \/ (On(t, {"rollback"}, Step) /\ task[t].target = b)
Marked ==
  faults = 0 =>
    \A t \in Task, b \in Backup : Marks(t, b) => backup[b] = NoRow \/ backup[b].update # "none"

Resuming == faults = 0 /\ Paused => Active(Pass) /\ Resumes(Pass)

\* While nobody disturbs: who writes or reads the directory has it to himself.
Alone ==
  \A t, u \in Task : t # u /\ Active(t) /\ Active(u) /\ task[t].op \in Swappers =>
    task[u].op \in {"delete", "page"}
Quiet ==
  /\ \A t \in Client : On(t, Makers \cup Swappers, Step \ {"check"}) => ~server.up
  /\ On(Pass, {"scheduled"}, {"flush", "archive", "archived"}) /\ server.up => ~server.saves

IsWhole(content) == content # Missing => content.whole
Whole ==
  /\ IsWhole(root)
  /\ \A b \in Backup : IsWhole(file[b])
  /\ \A t \in Task : IsWhole(task[t].data) /\ IsWhole(task[t].aside)

\* The versions that a task has loaded are those of the world it archives.
Fits(t, content) ==
  content # Missing => /\ content.version <= task[t].row.game
                       /\ task[t].op = "update" => content.version <= task[t].row.installed
RowsFit ==
  \A b \in Backup : file[b] # Missing /\ backup[b] # NoRow =>
    /\ file[b].version <= backup[b].game
    /\ backup[b].update # "none" => file[b].version <= backup[b].installed
Early == {"check", "status", "saveOff", "flush", "archive"}
Late == {"record", "saveOn", "retain", "commit"}
MakerFits(t) ==
  /\ On(t, Makers, Early) => root # Missing /\ Fits(t, root)
  /\ On(t, Makers, {"archived"}) => Fits(t, task[t].data)
  /\ On(t, Makers, Late) /\ task[t].name # 0 => Fits(t, file[task[t].name])
  /\ On(t, {"update"}, Step) => /\ root # Missing /\ root.version <= task[t].row.game
                                /\ task[t].row.game <= task[t].wanted.game
SwapperFits(t) ==
  On(t, Swappers, Step) =>
    /\ task[t].row.game = game /\ task[t].wanted.game # 0
    /\ file[task[t].target] # Missing => file[task[t].target].version <= task[t].wanted.game
    /\ Now(t) \in {"swapOut", "swapIn"} => task[t].data.version <= task[t].wanted.game
    /\ Now(t) = "swapIn" => root = Missing /\ task[t].aside # Missing /\ task[t].aside.version <= game
    /\ Now(t) \in {"remove", "finish"} => root # Missing /\ root.version <= task[t].wanted.game
RootFits ==
  IF root = Missing THEN \E t \in Task : On(t, Swappers, {"swapIn"})
  ELSE root.version <= game \/ \E t \in Task : On(t, Swappers, {"remove", "finish"})

VersionsFit ==
  /\ RowsFit /\ RootFits
  /\ \A t \in Task : MakerFits(t) /\ SwapperFits(t)

\* A deletion is not asked for versions.
Unasked == \A t \in Task : Active(t) /\ task[t].op = "delete" => task[t].wanted.game = 0

IInv ==
  /\ Stores /\ Tasks /\ Numbers /\ Agreement /\ Downloads /\ Marked /\ Resuming /\ Unasked
  /\ ~disturbed => Alone /\ Quiet /\ Whole
  /\ ~disturbed /\ faults = 0 => VersionsFit
-----------------------------------------------------------------------------
(* Programs *)

\* The end of a program begins with one of its steps, and behind that step is
\* the end of the program again, or nothing.
After(todo, program, k) ==
  /\ todo # <<>> /\ Head(todo) = program[k]
  /\ k = Len(program) => Tail(todo) = <<>>
  /\ k < Len(program) => /\ Tail(todo) # <<>> /\ Head(Tail(todo)) = program[k + 1]
                         /\ Suffix(Tail(todo), program)

\* What is left of a program begins with one of its steps.
LEMMA SuffixStep ==
  ASSUME NEW program \in Seq(Step), NEW todo, Suffix(todo, program)
  PROVE  \E k \in 1 .. Len(program) : After(todo, program, k)
<1>1. PICK k \in 1 .. Len(program) : todo = SubSeq(program, k, Len(program))
  BY DEF Suffix
<1>2. Head(todo) = program[k] /\ Tail(todo) = SubSeq(program, k + 1, Len(program))
  BY <1>1, HeadTailOfSubSeq
<1>3. Len(todo) = Len(program) - k + 1 /\ Len(program) \in Nat
  BY <1>1
<1>4. todo # <<>>
  BY <1>3
<1>5. k = Len(program) => Tail(todo) = <<>>
  BY <1>2
<1>6. ASSUME k < Len(program)
      PROVE  /\ Tail(todo) # <<>> /\ Head(Tail(todo)) = program[k + 1]
             /\ Suffix(Tail(todo), program)
  <2>1. k + 1 \in 1 .. Len(program)
    BY <1>3, <1>6
  <2>2. Head(SubSeq(program, k + 1, Len(program))) = program[k + 1]
    BY <2>1, HeadTailOfSubSeq
  <2>3. Len(SubSeq(program, k + 1, Len(program))) = Len(program) - k
    BY <1>3, <2>1
  <2>4. Suffix(Tail(todo), program)
    BY <1>2, <2>1 DEF Suffix
  <2>5. Len(Tail(todo)) # 0
    BY <1>2, <1>3, <1>6, <2>3
  <2>6. \A s : Len(s) # 0 => s # <<>>
    OBVIOUS
  <2>7. Tail(todo) # <<>>
    BY <2>5, <2>6, Zenon
  <2> QED BY <1>2, <2>2, <2>4, <2>7
<1> QED BY <1>2, <1>4, <1>5, <1>6 DEF After

\* The first step of a program, when all of it is to be done.
LEMMA WholeProgram ==
  ASSUME NEW program \in Seq(Step), program # <<>>
  PROVE  Suffix(program, program)
<1>1. Len(program) \in Nat \ {0} /\ program = SubSeq(program, 1, Len(program))
  OBVIOUS
<1> QED BY <1>1 DEF Suffix

\* Which step follows which in the programs of each operation, and which is last.
Edges == [
  create |-> {<<"check", "archive">>, <<"archive", "archived">>, <<"archived", "record">>},
  update |-> {<<"check", "archive">>, <<"archive", "archived">>, <<"archived", "record">>,
              <<"record", "fetch">>, <<"fetch", "remove">>, <<"remove", "finish">>},
  restore |-> {<<"check", "archive">>, <<"archive", "archived">>, <<"archived", "record">>,
               <<"record", "unpack">>, <<"unpack", "swapOut">>, <<"swapOut", "swapIn">>,
               <<"swapIn", "finish">>},
  rollback |-> {<<"check", "unpack">>, <<"unpack", "swapOut">>, <<"swapOut", "swapIn">>,
                <<"swapIn", "remove">>, <<"remove", "finish">>},
  delete |-> {<<"unlink", "finish">>},
  page |-> {<<"look", "note">>},
  scheduled |-> {<<"saveOff", "flush">>, <<"flush", "archive">>, <<"archive", "archived">>,
                 <<"archived", "saveOn">>, <<"archived", "retain">>, <<"saveOn", "retain">>,
                 <<"saveOn", "commit">>, <<"retain", "commit">>}]
Lasts == [create |-> {"record"}, update |-> {"finish"}, restore |-> {"finish"},
          rollback |-> {"finish"}, delete |-> {"finish"}, page |-> {"note"},
          scheduled |-> {"status", "commit"}]

\* The programs are sequences of steps, each the end of itself.
LEMMA ProgramsTyped ==
  ASSUME NEW op \in Op \ {"none"}, NEW program \in Programs(op)
  PROVE  program \in Seq(Step) /\ program # <<>> /\ Suffix(program, program)
<1> SUFFICES program \in Seq(Step) /\ program # <<>>
  BY WholeProgram
<1>1. CASE op = "create"
  <2>1. program = CreateSteps
    BY <1>1 DEF Programs, Steps
  <2> QED BY <2>1 DEF CreateSteps, Step
<1>2. CASE op = "update"
  <2>1. program = UpdateSteps
    BY <1>2 DEF Programs, Steps
  <2> QED BY <2>1 DEF UpdateSteps, Step
<1>3. CASE op = "restore"
  <2>1. program = RestoreSteps
    BY <1>3 DEF Programs, Steps
  <2> QED BY <2>1 DEF RestoreSteps, Step
<1>4. CASE op = "rollback"
  <2>1. program = RollbackSteps
    BY <1>4 DEF Programs, Steps
  <2> QED BY <2>1 DEF RollbackSteps, Step
<1>5. CASE op = "delete"
  <2>1. program = DeleteSteps
    BY <1>5 DEF Programs, Steps
  <2> QED BY <2>1 DEF DeleteSteps, Step
<1>6. CASE op = "page"
  <2>1. program = PageSteps
    BY <1>6 DEF Programs, Steps
  <2> QED BY <2>1 DEF PageSteps, Step
<1>7. CASE op = "scheduled"
  <2>1. program \in {<<"status">>, PausingSteps, StoppedSteps, <<"saveOn", "commit">>}
    BY <1>7 DEF Programs
  <2>2. PausingSteps \in Seq(Step) /\ PausingSteps # <<>>
    BY DEF PausingSteps, Step
  <2>3. StoppedSteps \in Seq(Step) /\ StoppedSteps # <<>>
    BY DEF StoppedSteps, Step
  <2>4. /\ <<"status">> \in Seq(Step) /\ <<"status">> # <<>>
        /\ <<"saveOn", "commit">> \in Seq(Step) /\ <<"saveOn", "commit">> # <<>>
    BY DEF Step
  <2> QED BY <2>1, <2>2, <2>3, <2>4
<1> QED BY <1>1, <1>2, <1>3, <1>4, <1>5, <1>6, <1>7 DEF Op

\* Where a program stands, and where it goes.
Place(op, todo) ==
  /\ todo # <<>>
  /\ Tail(todo) = <<>> <=> Head(todo) \in Lasts[op]
  /\ Tail(todo) # <<>> => <<Head(todo), Head(Tail(todo))>> \in Edges[op]

\* What is left of a program leads from one of its edges to the next, or ends.
LEMMA PlaceInProgram ==
  ASSUME NEW op \in Op \ {"none"}, NEW program \in Programs(op), NEW todo, Suffix(todo, program)
  PROVE  Place(op, todo) /\ (Tail(todo) # <<>> => Suffix(Tail(todo), program))
<1>1. PICK k \in 1 .. Len(program) : After(todo, program, k)
  BY ProgramsTyped, SuffixStep
<1>2. /\ todo # <<>> /\ Head(todo) = program[k]
      /\ k = Len(program) => Tail(todo) = <<>>
      /\ k < Len(program) => /\ Tail(todo) # <<>> /\ Head(Tail(todo)) = program[k + 1]
                             /\ Suffix(Tail(todo), program)
  BY <1>1 DEF After
<1> USE DEF Place, Lasts, Edges
<1>3. CASE op = "create"
  <2>1. /\ Len(program) = 4 /\ program[1] = "check" /\ program[2] = "archive"
        /\ program[3] = "archived" /\ program[4] = "record"
    BY <1>3 DEF Programs, Steps, CreateSteps
  <2> QED BY <1>2, <1>3, <2>1
<1>4. CASE op = "update"
  <2>1. /\ Len(program) = 7 /\ program[1] = "check" /\ program[2] = "archive"
        /\ program[3] = "archived" /\ program[4] = "record" /\ program[5] = "fetch"
        /\ program[6] = "remove" /\ program[7] = "finish"
    BY <1>4 DEF Programs, Steps, UpdateSteps
  <2> QED BY <1>2, <1>4, <2>1, SMTT(30)
<1>5. CASE op = "restore"
  <2>1. /\ Len(program) = 8 /\ program[1] = "check" /\ program[2] = "archive"
        /\ program[3] = "archived" /\ program[4] = "record" /\ program[5] = "unpack"
        /\ program[6] = "swapOut" /\ program[7] = "swapIn" /\ program[8] = "finish"
    BY <1>5 DEF Programs, Steps, RestoreSteps
  <2> QED BY <1>2, <1>5, <2>1, SMTT(30)
<1>6. CASE op = "rollback"
  <2>1. /\ Len(program) = 6 /\ program[1] = "check" /\ program[2] = "unpack"
        /\ program[3] = "swapOut" /\ program[4] = "swapIn" /\ program[5] = "remove"
        /\ program[6] = "finish"
    BY <1>6 DEF Programs, Steps, RollbackSteps
  <2> QED BY <1>2, <1>6, <2>1, SMTT(30)
<1>7. CASE op = "delete"
  <2>1. Len(program) = 2 /\ program[1] = "unlink" /\ program[2] = "finish"
    BY <1>7 DEF Programs, Steps, DeleteSteps
  <2> QED BY <1>2, <1>7, <2>1
<1>8. CASE op = "page"
  <2>1. Len(program) = 2 /\ program[1] = "look" /\ program[2] = "note"
    BY <1>8 DEF Programs, Steps, PageSteps
  <2> QED BY <1>2, <1>8, <2>1
<1>9. CASE op = "scheduled"
  <2>1. CASE program = <<"status">>
    BY <1>2, <1>9, <2>1
  <2>2. CASE program = <<"saveOn", "commit">>
    BY <1>2, <1>9, <2>2
  <2>3. CASE program = StoppedSteps
    <3>1. /\ Len(program) = 4 /\ program[1] = "archive" /\ program[2] = "archived"
          /\ program[3] = "retain" /\ program[4] = "commit"
      BY <2>3 DEF StoppedSteps
    <3> QED BY <1>2, <1>9, <3>1
  <2>4. CASE program = PausingSteps
    <3>1. /\ Len(program) = 7 /\ program[1] = "saveOff" /\ program[2] = "flush"
          /\ program[3] = "archive" /\ program[4] = "archived" /\ program[5] = "saveOn"
          /\ program[6] = "retain" /\ program[7] = "commit"
      BY <2>4 DEF PausingSteps
    <3> QED BY <1>2, <1>9, <3>1, SMTT(30)
  <2> QED BY <1>9, <2>1, <2>2, <2>3, <2>4 DEF Programs
<1> QED BY <1>3, <1>4, <1>5, <1>6, <1>7, <1>8, <1>9 DEF Op

\* The step at which a task is.
LEMMA Placed ==
  ASSUME Tasks, NEW t \in Task, Active(t)
  PROVE  /\ task[t] \in TaskRecord /\ task[t].op \in Op \ {"none"}
         /\ Place(task[t].op, task[t].todo)
         /\ Tail(task[t].todo) # <<>> =>
              \E p \in Programs(task[t].op) : Suffix(Tail(task[t].todo), p)
<1>1. task[t] \in TaskRecord /\ task[t].op \in Op \ {"none"}
  BY DEF Tasks, OnCourse, TaskRecord
<1>2. PICK p \in Programs(task[t].op) : Suffix(task[t].todo, p)
  BY DEF Tasks, OnCourse
<1> QED BY <1>1, <1>2, PlaceInProgram

\* Tasks come to be, and end, without a trace.
LEMMA NoTaskTyped == NoTask \in TaskRecord /\ NoTask.todo = <<>>
BY DEF NoTask, NewTask, NoVersions, TaskRecord, Op, Versions
-----------------------------------------------------------------------------
(* What a step does to the tasks *)

\* A write to the directory tears the archive that a task makes, and touches
\* nothing else of the task.
Kept(u) ==
  \/ task'[u] = task[u]
  \/ At(u, "archived") /\ task'[u] = [task[u] EXCEPT !.data.whole = FALSE]

Others(t) == task' \in [Task -> TaskRecord] /\ \A u \in Task \ {t} : Kept(u)

\* What a task that others leave alone keeps.
LEMMA KeptFields ==
  ASSUME Tasks, NEW u \in Task, Kept(u)
  PROVE  /\ task'[u].op = task[u].op /\ task'[u].todo = task[u].todo
         /\ task'[u].name = task[u].name /\ task'[u].target = task[u].target
         /\ task'[u].aside = task[u].aside /\ task'[u].row = task[u].row
         /\ task'[u].wanted = task[u].wanted /\ task'[u].doomed = task[u].doomed
         /\ (task'[u].data = Missing <=> task[u].data = Missing)
         /\ task[u].data # Missing => task'[u].data.version = task[u].data.version
         /\ (Active(u)' <=> Active(u)) /\ Now(u)' = Now(u)
         /\ task'[u].data # task[u].data => At(u, "archived")
<1>1. task[u] \in TaskRecord
  BY DEF Tasks
<1>2. CASE task'[u] = task[u]
  BY <1>2 DEF Active, Now
<1>3. CASE At(u, "archived") /\ task'[u] = [task[u] EXCEPT !.data.whole = FALSE]
  <2>1. task[u].data \in Content
    BY <1>1, <1>3 DEF Tasks, OnCourse, At, Now, TaskRecord
  <2> DEFINE torn == [task[u].data EXCEPT !.whole = FALSE]
  <2>2. torn \in Content /\ torn.version = task[u].data.version
    BY <2>1 DEF Content
  <2>3. task'[u] = [task[u] EXCEPT !.data = torn]
    BY <1>1, <1>3 DEF TaskRecord
  <2>4. torn # Missing /\ task[u].data # Missing
    BY <2>1, <2>2, MissingAssumption
  <2> HIDE DEF torn
  <2> QED BY <1>1, <1>3, <2>2, <2>3, <2>4 DEF TaskRecord, Active, Now
<1> QED BY <1>2, <1>3 DEF Kept

\* The other tasks stay on course.
LEMMA StillOnCourse ==
  ASSUME Tasks, NEW t \in Task, Others(t), OnCourse(t)'
  PROVE  Tasks'
<1>1. ASSUME NEW u \in Task, u # t PROVE OnCourse(u)'
  <2>1. Kept(u)
    BY <1>1 DEF Others
  <2>2. CASE Active(u)
    BY <2>1, <2>2, KeptFields DEF Tasks, OnCourse
  <2>3. CASE ~Active(u)
    <3>1. ~At(u, "archived")
      BY <2>3 DEF At
    <3> QED BY <2>1, <2>3, <3>1 DEF Kept, Tasks, OnCourse, Active
  <2> QED BY <2>2, <2>3
<1> QED BY <1>1 DEF Others, Tasks

\* Tearing keeps types.
LEMMA Tears ==
  ASSUME Tasks, NEW ts \in [Task -> TaskRecord],
         \A u \in Task : At(u, "archived") => ts[u].data # Missing
  PROVE  /\ Tear(ts) \in [Task -> TaskRecord]
         /\ \A u \in Task : Tear(ts)[u] = IF At(u, "archived")
                                          THEN [ts[u] EXCEPT !.data.whole = FALSE] ELSE ts[u]
<1>1. ASSUME NEW u \in Task, At(u, "archived") PROVE [ts[u] EXCEPT !.data.whole = FALSE] \in TaskRecord
  <2>1. ts[u].data \in Content /\ ts[u] \in TaskRecord
    BY <1>1 DEF TaskRecord
  <2> DEFINE torn == [ts[u].data EXCEPT !.whole = FALSE]
  <2>2. torn \in Content
    BY <2>1 DEF Content
  <2>3. [ts[u] EXCEPT !.data.whole = FALSE] = [ts[u] EXCEPT !.data = torn]
    BY <2>1 DEF TaskRecord
  <2> HIDE DEF torn
  <2> QED BY <2>1, <2>2, <2>3 DEF TaskRecord
<1> QED BY <1>1 DEF Tear

\* A task takes its next step, or has taken its last.
LEMMA Advances ==
  ASSUME Tasks, NEW t \in Task, Active(t)
  PROVE  /\ Advance(t) \in [Task -> TaskRecord]
         /\ \A u \in Task \ {t} : Advance(t)[u] = task[u]
         /\ Now(t) \in Lasts[task[t].op] => Advance(t)[t] = NoTask
         /\ Now(t) \notin Lasts[task[t].op] =>
              /\ Advance(t)[t] = [task[t] EXCEPT !.todo = Tail(task[t].todo)]
              /\ Tail(task[t].todo) # <<>>
              /\ <<Now(t), Head(Tail(task[t].todo))>> \in Edges[task[t].op]
              /\ \E p \in Programs(task[t].op) : Suffix(Tail(task[t].todo), p)
<1>1. /\ task[t] \in TaskRecord /\ task \in [Task -> TaskRecord]
      /\ Place(task[t].op, task[t].todo)
      /\ Tail(task[t].todo) # <<>> => \E p \in Programs(task[t].op) : Suffix(Tail(task[t].todo), p)
  BY Placed DEF Tasks
<1> DEFINE tail == Tail(task[t].todo)
<1>2. Advance(t) = [task EXCEPT ![t] = IF tail = <<>> THEN NoTask ELSE [task[t] EXCEPT !.todo = tail]]
  BY <1>1 DEF Advance, Goes
<1>3. task[t].todo \in Seq(Step) /\ task[t].todo # <<>>
  BY <1>1 DEF TaskRecord, Active
<1>4. tail \in Seq(Step)
  BY <1>3
<1> HIDE DEF tail
<1>5. [task[t] EXCEPT !.todo = tail] \in TaskRecord
  BY <1>1, <1>4 DEF TaskRecord
<1>6. Advance(t) \in [Task -> TaskRecord] /\ \A u \in Task \ {t} : Advance(t)[u] = task[u]
  BY <1>1, <1>2, <1>5, NoTaskTyped
<1>7. tail = <<>> <=> Now(t) \in Lasts[task[t].op]
  BY <1>1 DEF Place, Now, tail
<1>8. Advance(t)[t] = IF tail = <<>> THEN NoTask ELSE [task[t] EXCEPT !.todo = tail]
  BY <1>1, <1>2
<1> QED BY <1>1, <1>6, <1>7, <1>8 DEF Place, Now, tail

\* A task goes on to a step that follows in its program.
Proceeds(t) ==
  /\ Active(t) /\ Active(t)' /\ task'[t].op = task[t].op /\ task'[t].name = task[t].name
  /\ task'[t].target = task[t].target /\ task'[t].row = task[t].row
  /\ task'[t].todo = Tail(task[t].todo) /\ <<Now(t), Now(t)'>> \in Edges[task[t].op]

\* It carries the same things.
Carries(t) ==
  /\ task'[t].data = task[t].data /\ task'[t].aside = task[t].aside
  /\ task'[t].wanted = task[t].wanted /\ task'[t].doomed = task[t].doomed

Ended(t) == Active(t) /\ task'[t] = NoTask

\* The pass has no artifact to record.
GaveUp ==
  /\ Active(Pass) /\ Active(Pass)' /\ task'[Pass].op = "scheduled" /\ task'[Pass].name = 0
  /\ task'[Pass].target = task[Pass].target /\ task'[Pass].row = task[Pass].row
  /\ Abandoned(Pass)' /\ Now(Pass)' \in {"saveOn", "commit"}
  /\ Resumes(Pass) /\ Now(Pass) # "saveOff" => Resumes(Pass)'
  /\ Carries(Pass)

Errs(t) == IF t = Pass THEN GaveUp ELSE Ended(t)

\* A task that has ended is on course.
LEMMA EndsOnCourse ==
  ASSUME NEW t \in Task, task'[t] = NoTask
  PROVE  OnCourse(t)' /\ ~Active(t)'
BY NoTaskTyped DEF OnCourse, Active

\* A task that takes its next step stays on course.
LEMMA ProceedingTo ==
  ASSUME Tasks, NEW t \in Task, Active(t), Now(t) \notin Lasts[task[t].op],
         task'[t].todo = Tail(task[t].todo),
         task'[t].op = task[t].op, task'[t].name = task[t].name,
         task'[t].target = task[t].target, task'[t].row = task[t].row,
         Now(t) \in {"archive", "unpack", "swapOut"} => task'[t].data # Missing
  PROVE  OnCourse(t)' /\ Proceeds(t) /\ task[t].op \in Op \ {"none"}
<1>1. /\ Tail(task[t].todo) # <<>>
      /\ <<Now(t), Head(Tail(task[t].todo))>> \in Edges[task[t].op]
      /\ \E p \in Programs(task[t].op) : Suffix(Tail(task[t].todo), p)
  BY Advances
<1>2. Active(t)' /\ Now(t)' = Head(Tail(task[t].todo))
  BY <1>1 DEF Active, Now
<1>3. task[t].op \in Op \ {"none"}
  BY Placed
<1>4. Now(t)' \in {"archived", "swapOut", "swapIn"} => Now(t) \in {"archive", "unpack", "swapOut"}
  BY <1>1, <1>2, <1>3, SMTT(30) DEF Edges, Op
<1> QED BY <1>1, <1>2, <1>3, <1>4 DEF Proceeds, OnCourse, Tasks

\* The plain next step, with and without a write to the directory.
LEMMA Proceeding ==
  ASSUME Tasks, NEW t \in Task, Active(t), Now(t) \notin Lasts[task[t].op],
         Now(t) \notin {"archive", "unpack"},
         task' = Advance(t) \/ (task' = Tear(Advance(t)) /\ Now(t) # "archived")
  PROVE  Others(t) /\ OnCourse(t)' /\ Proceeds(t) /\ Carries(t)
<1>1. /\ Advance(t) \in [Task -> TaskRecord] /\ \A u \in Task \ {t} : Advance(t)[u] = task[u]
      /\ Advance(t)[t] = [task[t] EXCEPT !.todo = Tail(task[t].todo)] /\ task[t] \in TaskRecord
  BY Advances, Placed
<1>2. ASSUME NEW u \in Task, At(u, "archived") PROVE Advance(t)[u].data # Missing
  <2>1. task[u].data # Missing
    BY <1>2 DEF At, Tasks, OnCourse, Now
  <2>2. Advance(t)[t].data = task[t].data
    BY <1>1 DEF TaskRecord
  <2> QED BY <1>1, <2>1, <2>2
<1>3. Others(t) /\ task'[t] = [task[t] EXCEPT !.todo = Tail(task[t].todo)]
  <2>1. CASE task' = Advance(t)
    BY <1>1, <2>1 DEF Others, Kept
  <2>2. CASE task' = Tear(Advance(t)) /\ Now(t) # "archived"
    <3>1. ~At(t, "archived")
      BY <2>2 DEF At, Now
    <3>2. /\ task' \in [Task -> TaskRecord]
          /\ \A u \in Task : task'[u] = IF At(u, "archived")
                                        THEN [Advance(t)[u] EXCEPT !.data.whole = FALSE] ELSE Advance(t)[u]
      BY <1>1, <1>2, <2>2, Tears
    <3> QED BY <1>1, <3>1, <3>2 DEF Others, Kept
  <2> QED BY <2>1, <2>2
<1>4. /\ task'[t].todo = Tail(task[t].todo) /\ task'[t].op = task[t].op /\ task'[t].name = task[t].name
      /\ task'[t].target = task[t].target /\ task'[t].row = task[t].row /\ Carries(t)
  BY <1>1, <1>3 DEF TaskRecord, Carries
<1>5. Now(t) = "swapOut" => task'[t].data # Missing
  BY <1>4 DEF Tasks, OnCourse, Carries
<1> QED BY <1>3, <1>4, <1>5, ProceedingTo

\* The end of a task at its last step.
LEMMA Ending ==
  ASSUME Tasks, NEW t \in Task, Active(t),
         \/ task' = [task EXCEPT ![t] = NoTask]
         \/ task' = Advance(t) /\ Now(t) \in Lasts[task[t].op]
  PROVE  Others(t) /\ OnCourse(t)' /\ Ended(t)
<1>1. task' \in [Task -> TaskRecord] /\ task'[t] = NoTask /\ \A u \in Task \ {t} : task'[u] = task[u]
  BY Advances, NoTaskTyped, ZenonT(60) DEF Tasks
<1> QED BY <1>1, EndsOnCourse DEF Others, Kept, Ended

\* What the pass does after an error is the end of a program.
LEMMA CommitAlone == Suffix(<<"commit">>, <<"saveOn", "commit">>)
<1>1. <<"saveOn", "commit">> \in Seq(Step) /\ <<"saveOn", "commit">> # <<>>
  BY DEF Step
<1>2. PICK k \in 1 .. Len(<<"saveOn", "commit">>) :
        After(<<"saveOn", "commit">>, <<"saveOn", "commit">>, k)
  BY <1>1, WholeProgram, SuffixStep
<1>3. Head(<<"saveOn", "commit">>) = "saveOn" /\ Tail(<<"saveOn", "commit">>) = <<"commit">>
  OBVIOUS
<1>4. Len(<<"saveOn", "commit">>) = 2 /\ <<"commit">> # <<>>
  OBVIOUS
<1> QED BY <1>2, <1>3, <1>4 DEF After

\* What the pass does after an error is the end of a program.
LEMMA RestOfPass ==
  LET rest == IF Resumes(Pass) THEN <<"saveOn", "commit">> ELSE <<"commit">> IN
    /\ rest \in Seq(Step) /\ rest # <<>>
    /\ Head(rest) = IF Resumes(Pass) THEN "saveOn" ELSE "commit"
    /\ Suffix(rest, <<"saveOn", "commit">>)
<1>1. /\ <<"saveOn", "commit">> \in Seq(Step) /\ <<"saveOn", "commit">> # <<>>
      /\ Head(<<"saveOn", "commit">>) = "saveOn"
  BY DEF Step
<1>2. <<"commit">> \in Seq(Step) /\ <<"commit">> # <<>> /\ Head(<<"commit">>) = "commit"
  BY DEF Step
<1>3. Suffix(<<"saveOn", "commit">>, <<"saveOn", "commit">>)
  BY <1>1, WholeProgram
<1>4. CASE Resumes(Pass)
  BY <1>1, <1>3, <1>4
<1>5. CASE ~Resumes(Pass)
  BY <1>2, <1>5, CommitAlone
<1> QED BY <1>4, <1>5

\* A task after an error.
LEMMA Erring ==
  ASSUME Tasks, NEW t \in Task, Active(t), task' = AfterError(t)
  PROVE  Others(t) /\ OnCourse(t)' /\ Errs(t)
<1>1. CASE t # Pass
  BY <1>1, Ending DEF AfterError, Errs
<1>2. CASE t = Pass
  <2> DEFINE rest == IF Resumes(Pass) THEN <<"saveOn", "commit">> ELSE <<"commit">>
  <2>1. task[Pass] \in TaskRecord /\ task[Pass].op = "scheduled" /\ task \in [Task -> TaskRecord]
    BY <1>2 DEF Tasks, OnCourse
  <2>2. /\ rest \in Seq(Step) /\ rest # <<>>
        /\ Head(rest) = IF Resumes(Pass) THEN "saveOn" ELSE "commit"
        /\ Suffix(rest, <<"saveOn", "commit">>)
    BY RestOfPass
  <2>4. task' = [task EXCEPT ![Pass] = [task[Pass] EXCEPT !.name = 0, !.todo = rest]]
    BY <1>2, <2>1 DEF AfterError
  <2>5. rest = IF Resumes(Pass) THEN <<"saveOn", "commit">> ELSE <<"commit">>
    OBVIOUS
  <2> HIDE DEF rest
  <2>6. [task[Pass] EXCEPT !.name = 0, !.todo = rest] \in TaskRecord
    BY <2>1, <2>2 DEF TaskRecord
  <2>7. Others(Pass) /\ task'[Pass] = [task[Pass] EXCEPT !.name = 0, !.todo = rest]
    BY <1>2, <2>1, <2>4, <2>6 DEF Others, Kept
  <2>8. /\ task'[Pass].todo = rest /\ task'[Pass].name = 0 /\ task'[Pass].op = "scheduled"
        /\ task'[Pass].target = task[Pass].target /\ task'[Pass].row = task[Pass].row /\ Carries(Pass)
    BY <2>1, <2>7 DEF TaskRecord, Carries
  <2>9. Active(Pass)' /\ Now(Pass)' = IF Resumes(Pass) THEN "saveOn" ELSE "commit"
    BY <2>2, <2>8 DEF Active, Now
  <2>10. GaveUp
    <3>1. Resumes(Pass) => Resumes(Pass)'
      <4>1. <<"saveOn", "commit">>[1] = "saveOn" /\ 1 \in DOMAIN <<"saveOn", "commit">>
        OBVIOUS
      <4> QED BY <2>5, <2>8, <4>1 DEF Resumes
    <3>2. Abandoned(Pass)'
      BY <2>5, <2>8 DEF Abandoned
    <3>3. Now(Pass)' \in {"saveOn", "commit"}
      BY <2>9
    <3> QED BY <1>2, <2>8, <2>9, <3>1, <3>2, <3>3 DEF GaveUp
  <2>11. OnCourse(Pass)'
    <3>1. <<"saveOn", "commit">> \in Programs("scheduled")
      BY DEF Programs
    <3>2. task[Pass].row.installed # 0 /\ task[Pass].row.game # 0
      BY <1>2 DEF Tasks, OnCourse
    <3> QED BY <2>2, <2>8, <2>9, <3>1, <3>2 DEF OnCourse
  <2> QED BY <1>2, <2>7, <2>10, <2>11 DEF Errs
<1> QED BY <1>1, <1>2

\* The steps that each operation has.
StepsOf == [
  create |-> {"check", "archive", "archived", "record"},
  update |-> {"check", "archive", "archived", "record", "fetch", "remove", "finish"},
  restore |-> {"check", "archive", "archived", "record", "unpack", "swapOut", "swapIn", "finish"},
  rollback |-> {"check", "unpack", "swapOut", "swapIn", "remove", "finish"},
  delete |-> {"unlink", "finish"},
  page |-> {"look", "note"},
  scheduled |-> {"status", "saveOff", "flush", "archive", "archived", "saveOn", "retain", "commit"}]

\* A task is at a step of its operation.
LEMMA StepOf ==
  ASSUME Tasks, NEW t \in Task, Active(t)
  PROVE  task[t].op \in Op \ {"none"} /\ Now(t) \in StepsOf[task[t].op]
<1>1. /\ task[t].op \in Op \ {"none"}
      /\ Now(t) \in Lasts[task[t].op] \/ \E next : <<Now(t), next>> \in Edges[task[t].op]
  BY Placed DEF Place, Now
<1>2. Now(t) \in Lasts[task[t].op] => Now(t) \in StepsOf[task[t].op]
  BY <1>1 DEF Lasts, StepsOf, Op
<1>3. ASSUME NEW next, <<Now(t), next>> \in Edges[task[t].op] PROVE Now(t) \in StepsOf[task[t].op]
  BY <1>1, <1>3 DEF Edges, StepsOf, Op
<1> QED BY <1>1, <1>2, <1>3

\* The steps that end a task.
LEMMA LastSteps ==
  ASSUME Tasks, NEW t \in Task, Active(t)
  PROVE  /\ Now(t) \in Step
         /\ Now(t) \in Lasts[task[t].op] <=>
              \/ Now(t) \in {"finish", "note", "status", "commit"}
              \/ Now(t) = "record" /\ task[t].op = "create"
<1>1. task[t].op \in Op \ {"none"} /\ Now(t) \in StepsOf[task[t].op]
  BY StepOf
<1> QED BY <1>1 DEF Lasts, StepsOf, Op, Step
-----------------------------------------------------------------------------
(* What each action does to the tasks *)

\* A task goes on with other data.
LEMMA Loading ==
  ASSUME Tasks, NEW t \in Task, Active(t), Now(t) \notin Lasts[task[t].op],
         NEW d \in Content \cup {Missing}, task' = [Advance(t) EXCEPT ![t].data = d],
         Now(t) \in {"archive", "unpack", "swapOut"} => d # Missing
  PROVE  /\ Others(t) /\ OnCourse(t)' /\ Proceeds(t) /\ task'[t].data = d
         /\ task'[t].aside = task[t].aside /\ task'[t].wanted = task[t].wanted
         /\ task'[t].doomed = task[t].doomed
<1>1. /\ Advance(t) \in [Task -> TaskRecord] /\ \A u \in Task \ {t} : Advance(t)[u] = task[u]
      /\ Advance(t)[t] = [task[t] EXCEPT !.todo = Tail(task[t].todo)] /\ task[t] \in TaskRecord
  BY Advances, Placed
<1> DEFINE next == Advance(t)
<1>2. next[t] \in TaskRecord /\ task' = [next EXCEPT ![t] = [next[t] EXCEPT !.data = d]]
  BY <1>1
<1>3. [next[t] EXCEPT !.data = d] \in TaskRecord
  BY <1>2 DEF TaskRecord
<1>4. /\ next[t].op = task[t].op /\ next[t].todo = Tail(task[t].todo) /\ next[t].name = task[t].name
      /\ next[t].target = task[t].target /\ next[t].aside = task[t].aside /\ next[t].row = task[t].row
      /\ next[t].wanted = task[t].wanted /\ next[t].doomed = task[t].doomed
  BY <1>1 DEF TaskRecord
<1>5. next \in [Task -> TaskRecord] /\ \A u \in Task \ {t} : next[u] = task[u]
  BY <1>1
<1> HIDE DEF next
<1>6. task'[t] = [next[t] EXCEPT !.data = d] /\ Others(t)
  BY <1>2, <1>3, <1>5 DEF Others, Kept
<1>7. /\ task'[t].op = task[t].op /\ task'[t].todo = Tail(task[t].todo) /\ task'[t].name = task[t].name
      /\ task'[t].target = task[t].target /\ task'[t].aside = task[t].aside /\ task'[t].row = task[t].row
      /\ task'[t].wanted = task[t].wanted /\ task'[t].doomed = task[t].doomed /\ task'[t].data = d
  BY <1>2, <1>4, <1>6 DEF TaskRecord
<1> QED BY <1>6, <1>7, ProceedingTo

\* A task begins an archive of the directory, or errs without one.
LEMMA ArchiveBeginsMoves ==
  ASSUME Tasks, root \in Content \cup {Missing}, NEW t \in Task, ArchiveBegins(t)
  PROVE  /\ Others(t) /\ OnCourse(t)' /\ Active(t) /\ Now(t) = "archive"
         /\ \/ root = Missing /\ Errs(t)
            \/ /\ root # Missing /\ Proceeds(t) /\ task'[t].data = root
               /\ task'[t].aside = task[t].aside /\ task'[t].wanted = task[t].wanted
               /\ task'[t].doomed = task[t].doomed
<1>1. Active(t) /\ Now(t) = "archive" /\ Now(t) \notin Lasts[task[t].op]
  BY LastSteps DEF ArchiveBegins, At, Now
<1>2. CASE root = Missing
  BY <1>1, <1>2, Erring DEF ArchiveBegins
<1>3. CASE root # Missing
  BY <1>1, <1>3, Loading DEF ArchiveBegins
<1> QED BY <1>2, <1>3

\* The archive is finished.
LEMMA ArchiveEndsMoves ==
  ASSUME Tasks, NEW t \in Task, ArchiveEnds(t)
  PROVE  /\ Others(t) /\ OnCourse(t)' /\ Active(t) /\ Now(t) = "archived" /\ task[t].data # Missing
         /\ Proceeds(t) /\ task'[t].data = Missing
         /\ task'[t].aside = task[t].aside /\ task'[t].wanted = task[t].wanted
         /\ task'[t].doomed = task[t].doomed
<1>1. Active(t) /\ Now(t) = "archived" /\ Now(t) \notin Lasts[task[t].op] /\ task[t].data # Missing
  BY LastSteps DEF ArchiveEnds, At, Now, Tasks, OnCourse
<1> QED BY <1>1, Loading DEF ArchiveEnds

\* The archive fails.
LEMMA ArchiveFailsMoves ==
  ASSUME Tasks, NEW t \in Task, ArchiveFails(t)
  PROVE  Others(t) /\ OnCourse(t)' /\ Active(t) /\ Now(t) = "archived" /\ Errs(t)
<1>1. Active(t) /\ Now(t) = "archived"
  BY DEF ArchiveFails, At, Now
<1> QED BY <1>1, Erring DEF ArchiveFails

\* An archive is unpacked, or the task errs.
LEMMA UnpackMoves ==
  ASSUME Tasks, file \in [Backup -> Content \cup {Missing}], NEW t \in Task, Unpack(t),
         task[t].target \in Backup
  PROVE  /\ Others(t) /\ OnCourse(t)' /\ Active(t) /\ Now(t) = "unpack"
         /\ \/ Errs(t)
            \/ /\ file[task[t].target] # Missing /\ Proceeds(t) /\ task'[t].data = file[task[t].target]
               /\ task'[t].aside = task[t].aside /\ task'[t].wanted = task[t].wanted
               /\ task'[t].doomed = task[t].doomed
<1>1. Active(t) /\ Now(t) = "unpack" /\ Now(t) \notin Lasts[task[t].op]
  BY LastSteps DEF Unpack, At, Now
<1>2. CASE task' = AfterError(t)
  BY <1>1, <1>2, Erring
<1>3. CASE file[task[t].target] # Missing /\ task' = [Advance(t) EXCEPT ![t].data = file[task[t].target]]
  <2>1. file[task[t].target] \in Content \cup {Missing}
    OBVIOUS
  <2> QED BY <1>1, <1>3, <2>1, Loading
<1> QED BY <1>2, <1>3 DEF Unpack

\* The directory is moved aside, or the task errs and it stays.
LEMMA SwapOutMoves ==
  ASSUME Tasks, root \in Content \cup {Missing}, NEW t \in Task, SwapOut(t)
  PROVE  /\ Others(t) /\ OnCourse(t)' /\ Active(t) /\ Now(t) = "swapOut" /\ task[t].data # Missing
         /\ \/ Errs(t) /\ root' = root /\ \A u \in Task \ {t} : task'[u] = task[u]
            \/ /\ root' = Missing /\ Proceeds(t) /\ task'[t].aside = root
               /\ task'[t].data = task[t].data /\ task'[t].wanted = task[t].wanted
               /\ task'[t].doomed = task[t].doomed
<1>1. /\ Active(t) /\ Now(t) = "swapOut" /\ Now(t) \notin Lasts[task[t].op] /\ task[t].data # Missing
      /\ ~At(t, "archived")
  BY LastSteps DEF SwapOut, At, Now, Tasks, OnCourse
<1>2. CASE task' = AfterError(t) /\ UNCHANGED root
  <2>1. \A u \in Task \ {t} : task'[u] = task[u]
    BY <1>2 DEF AfterError, Tasks
  <2> QED BY <1>1, <1>2, <2>1, Erring
<1>3. CASE root' = Missing /\ task' = Tear([Advance(t) EXCEPT ![t].aside = root])
  <2> DEFINE next == Advance(t)
             ts == [next EXCEPT ![t].aside = root]
  <2>1. /\ next \in [Task -> TaskRecord] /\ \A u \in Task \ {t} : next[u] = task[u]
        /\ next[t] = [task[t] EXCEPT !.todo = Tail(task[t].todo)] /\ task[t] \in TaskRecord
    BY <1>1, Advances, Placed
  <2>2. /\ next[t].op = task[t].op /\ next[t].todo = Tail(task[t].todo) /\ next[t].name = task[t].name
        /\ next[t].target = task[t].target /\ next[t].data = task[t].data /\ next[t].row = task[t].row
        /\ next[t].wanted = task[t].wanted /\ next[t].doomed = task[t].doomed
    BY <2>1 DEF TaskRecord
  <2> HIDE DEF next
  <2>3. [next[t] EXCEPT !.aside = root] \in TaskRecord
    BY <2>1 DEF TaskRecord
  <2>4. /\ ts \in [Task -> TaskRecord] /\ ts[t] = [next[t] EXCEPT !.aside = root]
        /\ \A u \in Task \ {t} : ts[u] = task[u]
    BY <2>1, <2>3
  <2>5. \A u \in Task : At(u, "archived") => ts[u].data # Missing
    <3>1. \A u \in Task : At(u, "archived") => u # t /\ task[u].data # Missing
      BY <1>1 DEF At, Tasks, OnCourse, Now
    <3> QED BY <2>4, <3>1
  <2>6. task' = Tear(ts)
    BY <1>3 DEF next
  <2> HIDE DEF ts
  <2>7. /\ task' \in [Task -> TaskRecord]
        /\ \A u \in Task : task'[u] = IF At(u, "archived")
                                      THEN [ts[u] EXCEPT !.data.whole = FALSE] ELSE ts[u]
    BY <2>4, <2>5, <2>6, Tears
  <2>8. task'[t] = [next[t] EXCEPT !.aside = root]
    BY <1>1, <2>4, <2>7
  <2>9. Others(t)
    BY <2>4, <2>7 DEF Others, Kept
  <2>10. /\ task'[t].op = task[t].op /\ task'[t].todo = Tail(task[t].todo) /\ task'[t].name = task[t].name
         /\ task'[t].target = task[t].target /\ task'[t].aside = root /\ task'[t].row = task[t].row
         /\ task'[t].wanted = task[t].wanted /\ task'[t].doomed = task[t].doomed
         /\ task'[t].data = task[t].data
    BY <2>1, <2>2, <2>8 DEF TaskRecord
  <2> QED BY <1>1, <1>3, <2>9, <2>10, ProceedingTo
<1> QED BY <1>2, <1>3 DEF SwapOut

\* The unpacked directory takes its place, or the old one comes back.
LEMMA SwapInMoves ==
  ASSUME Tasks, NEW t \in Task, SwapIn(t)
  PROVE  /\ Others(t) /\ OnCourse(t)' /\ Active(t) /\ Now(t) = "swapIn" /\ task[t].data # Missing
         /\ \/ root = Missing /\ root' = task[t].data /\ Proceeds(t) /\ Carries(t)
            \/ Errs(t) /\ root' = (IF root = Missing THEN task[t].aside ELSE root)
<1>1. Active(t) /\ Now(t) = "swapIn" /\ Now(t) \notin Lasts[task[t].op] /\ task[t].data # Missing
  BY LastSteps DEF SwapIn, At, Now, Tasks, OnCourse
<1>2. CASE root = Missing /\ root' = task[t].data /\ task' = Advance(t)
  BY <1>1, <1>2, Proceeding
<1>3. CASE task' = AfterError(t) /\ root' = IF root = Missing THEN task[t].aside ELSE root
  BY <1>1, <1>3, Erring
<1> QED BY <1>2, <1>3 DEF SwapIn

\* An archive is removed, or was missing.
LEMMA UnlinkMoves ==
  ASSUME Tasks, NEW t \in Task, Unlink(t)
  PROVE  /\ Others(t) /\ OnCourse(t)' /\ Active(t) /\ Now(t) = "unlink"
         /\ \/ file[task[t].target] = Missing /\ Errs(t) /\ file' = file
            \/ /\ file[task[t].target] # Missing /\ Proceeds(t) /\ Carries(t)
               /\ file' = [file EXCEPT ![task[t].target] = Missing]
<1>1. Active(t) /\ Now(t) = "unlink" /\ Now(t) \notin Lasts[task[t].op]
  BY LastSteps DEF Unlink, At, Now
<1>2. CASE file[task[t].target] = Missing
  BY <1>1, <1>2, Erring DEF Unlink
<1>3. CASE file[task[t].target] # Missing
  BY <1>1, <1>3, Proceeding DEF Unlink
<1> QED BY <1>2, <1>3

\* A task goes on with a server that is stopped.
LEMMA CheckMoves ==
  ASSUME Tasks, NEW t \in Task, Check(t)
  PROVE  /\ Others(t) /\ OnCourse(t)' /\ Active(t) /\ Now(t) = "check"
         /\ \/ Errs(t)
            \/ /\ ~server.up /\ (task[t].op = "rollback" => task[t].target \in Rows)
               /\ Proceeds(t) /\ Carries(t)
<1>1. Active(t) /\ Now(t) = "check" /\ Now(t) \notin Lasts[task[t].op]
  BY LastSteps DEF Check, At, Now
<1>2. CASE server.up \/ (task[t].op = "rollback" /\ task[t].target \notin Rows)
  BY <1>1, <1>2, Erring DEF Check
<1>3. CASE ~(server.up \/ (task[t].op = "rollback" /\ task[t].target \notin Rows))
  BY <1>1, <1>3, Proceeding DEF Check
<1> QED BY <1>2, <1>3

\* A creation ends with its row, other makers go on.
LEMMA RecordMoves ==
  ASSUME Tasks, NEW t \in Task, Record(t)
  PROVE  /\ Others(t) /\ OnCourse(t)' /\ Active(t) /\ Now(t) = "record"
         /\ \/ task[t].op = "create" /\ Ended(t)
            \/ task[t].op # "create" /\ Proceeds(t) /\ Carries(t)
<1>1. /\ Active(t) /\ Now(t) = "record" /\ task' = Advance(t)
      /\ Now(t) \in Lasts[task[t].op] <=> task[t].op = "create"
  BY LastSteps DEF Record, At, Now
<1>2. CASE task[t].op = "create"
  BY <1>1, <1>2, Ending
<1>3. CASE task[t].op # "create"
  BY <1>1, <1>3, Proceeding
<1> QED BY <1>1, <1>2, <1>3

\* A creation whose row is refused ends.
LEMMA RecordRefusedMoves ==
  ASSUME Tasks, NEW t \in Client, RecordRefused(t)
  PROVE  /\ Others(t) /\ OnCourse(t)' /\ Active(t) /\ Now(t) = "record" /\ task[t].op = "create"
         /\ Ended(t)
<1>1. Active(t) /\ Now(t) = "record" /\ t \in Task /\ t # Pass
  BY TaskAssumption DEF RecordRefused, At, Now, Task
<1> QED BY <1>1, Erring DEF RecordRefused, Errs

\* An update finds its version, or ends as failed.
LEMMA FetchMoves ==
  ASSUME Tasks, NEW t \in Client, Fetch(t)
  PROVE  /\ Others(t) /\ OnCourse(t)' /\ Active(t) /\ Now(t) = "fetch"
         /\ \/ Proceeds(t) /\ Carries(t) /\ UNCHANGED backup
            \/ Ended(t) /\ Settle(task[t].name, "failed")
<1>1. Active(t) /\ Now(t) = "fetch" /\ t \in Task /\ t # Pass
  BY TaskAssumption DEF Fetch, At, Now, Task
<1>2. Now(t) \notin Lasts[task[t].op]
  BY <1>1, LastSteps
<1>3. CASE task' = Advance(t) /\ UNCHANGED backup
  BY <1>1, <1>2, <1>3, Proceeding
<1>4. CASE task' = AfterError(t) /\ Settle(task[t].name, "failed")
  BY <1>1, <1>4, Erring DEF Errs
<1> QED BY <1>3, <1>4 DEF Fetch

\* The container is removed.
LEMMA RemoveMoves ==
  ASSUME Tasks, NEW t \in Task, Remove(t)
  PROVE  /\ Others(t) /\ OnCourse(t)' /\ Active(t) /\ Now(t) = "remove" /\ Proceeds(t) /\ Carries(t)
         /\ (~server.up => \A u \in Task \ {t} : task'[u] = task[u])
<1>1. Active(t) /\ Now(t) = "remove" /\ Now(t) \notin Lasts[task[t].op]
  BY LastSteps DEF Remove, At, Now
<1>2. task' = Advance(t) \/ task' = Tear(Advance(t))
  BY DEF Remove
<1>3. ~server.up => \A u \in Task \ {t} : task'[u] = task[u]
  BY <1>1, Advances DEF Remove
<1> QED BY <1>1, <1>2, <1>3, Proceeding

\* The last commit of a task ends it.
LEMMA LastMoves ==
  ASSUME Tasks, NEW t \in Task, Active(t), task' = [task EXCEPT ![t] = NoTask]
  PROVE  Others(t) /\ OnCourse(t)' /\ Ended(t)
BY Ending

\* A page looks at the version in the directory.
LEMMA LookMoves ==
  ASSUME Tasks, root \in Content \cup {Missing}, NEW t \in Task, Look(t)
  PROVE  /\ Others(t) /\ OnCourse(t)' /\ Active(t) /\ Now(t) = "look"
         /\ \/ Errs(t)
            \/ /\ Proceeds(t) /\ task'[t].data = task[t].data /\ task'[t].aside = task[t].aside
               /\ task'[t].doomed = task[t].doomed
<1>1. Active(t) /\ Now(t) = "look" /\ Now(t) \notin Lasts[task[t].op]
  BY LastSteps DEF Look, At, Now
<1>2. CASE root = Missing
  BY <1>1, <1>2, Erring DEF Look
<1>3. CASE root # Missing
  <2> DEFINE next == Advance(t)
  <2>1. /\ next \in [Task -> TaskRecord] /\ \A u \in Task \ {t} : next[u] = task[u]
        /\ next[t] = [task[t] EXCEPT !.todo = Tail(task[t].todo)] /\ task[t] \in TaskRecord
    BY <1>1, Advances, Placed
  <2>2. /\ next[t].op = task[t].op /\ next[t].todo = Tail(task[t].todo) /\ next[t].name = task[t].name
        /\ next[t].target = task[t].target /\ next[t].data = task[t].data /\ next[t].row = task[t].row
        /\ next[t].aside = task[t].aside /\ next[t].doomed = task[t].doomed
    BY <2>1 DEF TaskRecord
  <2>3. task' = [next EXCEPT ![t].wanted.installed = root.version]
    BY <1>3 DEF Look
  <2> HIDE DEF next
  <2> DEFINE noted == [next[t].wanted EXCEPT !.installed = root.version]
  <2>4. noted \in Versions
    BY <1>3, <2>1 DEF TaskRecord, Versions, Content
  <2>5. task' = [next EXCEPT ![t] = [next[t] EXCEPT !.wanted = noted]]
    BY <2>1, <2>3 DEF TaskRecord
  <2> HIDE DEF noted
  <2>6. [next[t] EXCEPT !.wanted = noted] \in TaskRecord
    BY <2>1, <2>4 DEF TaskRecord
  <2>7. task'[t] = [next[t] EXCEPT !.wanted = noted] /\ Others(t)
    BY <2>1, <2>5, <2>6 DEF Others, Kept
  <2>8. /\ task'[t].op = task[t].op /\ task'[t].todo = Tail(task[t].todo) /\ task'[t].name = task[t].name
        /\ task'[t].target = task[t].target /\ task'[t].data = task[t].data /\ task'[t].row = task[t].row
        /\ task'[t].aside = task[t].aside /\ task'[t].doomed = task[t].doomed
    BY <2>1, <2>2, <2>7 DEF TaskRecord
  <2> QED BY <1>1, <2>7, <2>8, ProceedingTo
<1> QED BY <1>2, <1>3

\* The program of the pass, and of any task, that begins.
LEMMA BeginsOnCourse ==
  ASSUME NEW t \in Task, NEW op \in Op \ {"none"}, NEW program \in Programs(op),
         t = Pass <=> op = "scheduled",
         task'[t].op = op, task'[t].todo = program,
         task'[t].row.installed # 0, task'[t].row.game # 0,
         Head(program) \notin {"archived", "swapOut", "swapIn"}
  PROVE  OnCourse(t)' /\ Active(t)' /\ Now(t)' = Head(program)
<1>1. program \in Seq(Step) /\ program # <<>> /\ Suffix(program, program)
  BY ProgramsTyped
<1> QED BY <1>1 DEF OnCourse, Active, Now

\* The pass chooses its program.
LEMMA StatusMoves ==
  ASSUME Tasks, Status
  PROVE  /\ Others(Pass) /\ OnCourse(Pass)' /\ Active(Pass) /\ Active(Pass)' /\ Now(Pass) = "status"
         /\ task[Pass].op = "scheduled" /\ task'[Pass].op = "scheduled"
         /\ task'[Pass].name = task[Pass].name /\ task'[Pass].target = task[Pass].target
         /\ task'[Pass].row = task[Pass].row /\ Carries(Pass)
         /\ Now(Pass)' = IF server.up THEN "saveOff" ELSE "archive"
<1> DEFINE program == IF server.up THEN PausingSteps ELSE StoppedSteps
           head == IF server.up THEN "saveOff" ELSE "archive"
<1>1. Active(Pass) /\ Now(Pass) = "status" /\ Pass \in Task
  BY DEF Status, At, Now, Task
<1>2. /\ task[Pass] \in TaskRecord /\ task[Pass].op = "scheduled" /\ task \in [Task -> TaskRecord]
      /\ task[Pass].row.installed # 0 /\ task[Pass].row.game # 0
  BY <1>1 DEF Tasks, OnCourse
<1>3. /\ PausingSteps # <<>> /\ StoppedSteps # <<>> /\ Head(PausingSteps) = "saveOff"
      /\ Head(StoppedSteps) = "archive"
  BY DEF PausingSteps, StoppedSteps
<1>4. program \in Programs("scheduled") /\ program # <<>> /\ Head(program) = head
  BY <1>3 DEF Programs
<1>5. program \in Seq(Step) /\ "scheduled" \in Op \ {"none"}
  BY <1>4, ProgramsTyped DEF Op
<1>6. task' = Goes(Pass, program)
  BY DEF Status
<1> HIDE DEF program
<1>7. task' = [task EXCEPT ![Pass] = [task[Pass] EXCEPT !.todo = program]]
  BY <1>2, <1>4, <1>6 DEF Goes
<1>8. [task[Pass] EXCEPT !.todo = program] \in TaskRecord
  BY <1>2, <1>5 DEF TaskRecord
<1>9. Others(Pass) /\ task'[Pass] = [task[Pass] EXCEPT !.todo = program]
  BY <1>1, <1>2, <1>7, <1>8 DEF Others, Kept
<1>10. /\ task'[Pass].op = "scheduled" /\ task'[Pass].todo = program
       /\ task'[Pass].name = task[Pass].name /\ task'[Pass].target = task[Pass].target
       /\ task'[Pass].row = task[Pass].row /\ Carries(Pass)
  BY <1>2, <1>9 DEF TaskRecord, Carries
<1>11. OnCourse(Pass)' /\ Active(Pass)' /\ Now(Pass)' = Head(program)
  BY <1>1, <1>2, <1>4, <1>5, <1>10, BeginsOnCourse
<1> QED BY <1>1, <1>2, <1>4, <1>9, <1>10, <1>11

\* The pass pauses saves, or gives up when the server is down.
LEMMA SaveOffMoves ==
  ASSUME Tasks, SaveOff
  PROVE  /\ Others(Pass) /\ OnCourse(Pass)' /\ Active(Pass) /\ Now(Pass) = "saveOff"
         /\ \/ /\ server.up /\ server' = [server EXCEPT !.saves = FALSE]
               /\ Proceeds(Pass) /\ Carries(Pass)
            \/ ~server.up /\ server' = server /\ GaveUp
<1>1. /\ Active(Pass) /\ Now(Pass) = "saveOff" /\ Pass \in Task /\ Now(Pass) \notin Lasts[task[Pass].op]
  BY LastSteps DEF SaveOff, At, Now, Task
<1>2. CASE server.up
  BY <1>1, <1>2, Proceeding DEF SaveOff
<1>3. CASE ~server.up
  <2> DEFINE rest == <<"commit">>
  <2>1. /\ task[Pass] \in TaskRecord /\ task[Pass].op = "scheduled" /\ task \in [Task -> TaskRecord]
        /\ task[Pass].row.installed # 0 /\ task[Pass].row.game # 0
    BY <1>1 DEF Tasks, OnCourse
  <2>2. rest \in Seq(Step) /\ rest # <<>> /\ Head(rest) = "commit"
    BY DEF Step
  <2>3. Suffix(rest, <<"saveOn", "commit">>)
    BY CommitAlone
  <2>4. task' = [Goes(Pass, rest) EXCEPT ![Pass].name = 0] /\ server' = server
    BY <1>3 DEF SaveOff
  <2>5. rest = <<"commit">>
    OBVIOUS
  <2> HIDE DEF rest
  <2>6. Goes(Pass, rest) = [task EXCEPT ![Pass] = [task[Pass] EXCEPT !.todo = rest]]
    BY <2>1, <2>2 DEF Goes
  <2>7. task' = [task EXCEPT ![Pass] = [[task[Pass] EXCEPT !.todo = rest] EXCEPT !.name = 0]]
    BY <1>1, <2>1, <2>4, <2>6
  <2> DEFINE left == [[task[Pass] EXCEPT !.todo = rest] EXCEPT !.name = 0]
  <2>8. /\ left \in TaskRecord /\ left.op = "scheduled" /\ left.todo = rest /\ left.name = 0
        /\ left.target = task[Pass].target /\ left.row = task[Pass].row
        /\ left.data = task[Pass].data /\ left.aside = task[Pass].aside
        /\ left.wanted = task[Pass].wanted /\ left.doomed = task[Pass].doomed
    BY <2>1, <2>2 DEF TaskRecord
  <2>9. task' = [task EXCEPT ![Pass] = left]
    BY <2>7
  <2> HIDE DEF left
  <2>10. Others(Pass) /\ task'[Pass] = left
    BY <1>1, <2>1, <2>8, <2>9 DEF Others, Kept
  <2>11. Active(Pass)' /\ Now(Pass)' = "commit" /\ Abandoned(Pass)' /\ Carries(Pass)
    BY <2>2, <2>5, <2>8, <2>10 DEF Active, Now, Abandoned, Carries
  <2>12. GaveUp
    BY <1>1, <2>8, <2>10, <2>11 DEF GaveUp
  <2>13. OnCourse(Pass)'
    <3>1. <<"saveOn", "commit">> \in Programs("scheduled")
      BY DEF Programs
    <3> QED BY <2>1, <2>3, <2>8, <2>10, <2>11, <3>1 DEF OnCourse
  <2> QED BY <1>1, <1>3, <2>4, <2>10, <2>12, <2>13
<1> QED BY <1>2, <1>3

\* The pass has the world saved, or gives up when the server is down.
LEMMA FlushMoves ==
  ASSUME Tasks, Flush
  PROVE  /\ Others(Pass) /\ OnCourse(Pass)' /\ Active(Pass) /\ Now(Pass) = "flush"
         /\ \/ server.up /\ Proceeds(Pass) /\ Carries(Pass)
            \/ ~server.up /\ GaveUp
<1>1. /\ Active(Pass) /\ Now(Pass) = "flush" /\ Pass \in Task /\ Now(Pass) \notin Lasts[task[Pass].op]
  BY LastSteps DEF Flush, At, Now, Task
<1>2. CASE server.up
  BY <1>1, <1>2, Proceeding DEF Flush
<1>3. CASE ~server.up
  BY <1>1, <1>3, Erring DEF Flush, Errs
<1> QED BY <1>2, <1>3

\* The pass resumes saves.
LEMMA SaveOnMoves ==
  ASSUME Tasks, SaveOn
  PROVE  /\ Others(Pass) /\ OnCourse(Pass)' /\ Active(Pass) /\ Now(Pass) = "saveOn"
         /\ Proceeds(Pass) /\ Carries(Pass)
<1>1. /\ Active(Pass) /\ Now(Pass) = "saveOn" /\ Pass \in Task /\ Now(Pass) \notin Lasts[task[Pass].op]
  BY LastSteps DEF SaveOn, At, Now, Task
<1> QED BY <1>1, Proceeding DEF SaveOn

\* The pass removes the expired archives that are there.
LEMMA RetainMoves ==
  ASSUME Tasks, Retain, task[Pass].name \in Backup
  PROVE  /\ Others(Pass) /\ OnCourse(Pass)' /\ Active(Pass) /\ Now(Pass) = "retain"
         /\ task[Pass].op = "scheduled" /\ Proceeds(Pass)
         /\ task'[Pass].data = task[Pass].data /\ task'[Pass].aside = task[Pass].aside
         /\ task'[Pass].wanted = task[Pass].wanted
         /\ task'[Pass].doomed = {b \in Expired : file[b] # Missing}
         /\ file' = [b \in Backup |-> IF b \in task'[Pass].doomed THEN Missing ELSE file[b]]
<1>1. /\ Active(Pass) /\ Now(Pass) = "retain" /\ Pass \in Task /\ Now(Pass) \notin Lasts[task[Pass].op]
      /\ task[Pass].op = "scheduled"
  BY LastSteps DEF Retain, At, Now, Task, Tasks, OnCourse
<1> DEFINE next == Advance(Pass)
           doomed == {b \in Expired : file[b] # Missing}
<1>2. /\ next \in [Task -> TaskRecord] /\ \A u \in Task \ {Pass} : next[u] = task[u]
      /\ next[Pass] = [task[Pass] EXCEPT !.todo = Tail(task[Pass].todo)] /\ task[Pass] \in TaskRecord
  BY <1>1, Advances, Placed
<1>3. /\ next[Pass].op = task[Pass].op /\ next[Pass].todo = Tail(task[Pass].todo)
      /\ next[Pass].name = task[Pass].name /\ next[Pass].target = task[Pass].target
      /\ next[Pass].data = task[Pass].data /\ next[Pass].row = task[Pass].row
      /\ next[Pass].aside = task[Pass].aside /\ next[Pass].wanted = task[Pass].wanted
  BY <1>2 DEF TaskRecord
<1>4. doomed \in SUBSET Backup
  BY DEF Expired, Rows
<1>5. /\ task' = [next EXCEPT ![Pass].doomed = doomed]
      /\ file' = [b \in Backup |-> IF b \in doomed THEN Missing ELSE file[b]]
  BY DEF Retain
<1>6. doomed = {b \in Expired : file[b] # Missing}
  OBVIOUS
<1> HIDE DEF next, doomed
<1>7. [next[Pass] EXCEPT !.doomed = doomed] \in TaskRecord
  <2>1. next[Pass] \in TaskRecord
    BY <1>1, <1>2
  <2> QED BY <1>4, <2>1 DEF TaskRecord
<1>8. task'[Pass] = [next[Pass] EXCEPT !.doomed = doomed] /\ Others(Pass)
  BY <1>1, <1>2, <1>5, <1>7 DEF Others, Kept
<1>9. /\ task'[Pass].op = task[Pass].op /\ task'[Pass].todo = Tail(task[Pass].todo)
      /\ task'[Pass].name = task[Pass].name /\ task'[Pass].target = task[Pass].target
      /\ task'[Pass].data = task[Pass].data /\ task'[Pass].row = task[Pass].row
      /\ task'[Pass].aside = task[Pass].aside /\ task'[Pass].wanted = task[Pass].wanted
      /\ task'[Pass].doomed = doomed
  BY <1>2, <1>3, <1>8 DEF TaskRecord
<1>10. OnCourse(Pass)' /\ Proceeds(Pass)
  BY <1>1, <1>9, ProceedingTo
<1> QED BY <1>1, <1>5, <1>6, <1>8, <1>9, <1>10

\* A handler begins: its operation, its program and the versions it loads.
Starts(t, op, b, name, loaded, wanted) ==
  /\ ~Active(t) /\ Active(t)' /\ task'[t].op = op /\ task'[t].target = b /\ task'[t].name = name
  /\ task'[t].row = loaded /\ task'[t].wanted = wanted
  /\ task'[t].data = Missing /\ task'[t].aside = Missing /\ task'[t].doomed = {}
  /\ Now(t)' = CASE op = "scheduled" -> "status" [] op = "delete" -> "unlink"
                 [] op = "page" -> "look" [] OTHER -> "check"

\* A task that begins has its program before it.
LEMMA Starting ==
  ASSUME Tasks, NEW t \in Task, ~Active(t), NEW op \in Op \ {"none"}, t = Pass <=> op = "scheduled",
         NEW program \in Seq(Step), program = IF op = "scheduled" THEN <<"status">> ELSE Steps[op],
         NEW b \in Backup \cup {0}, NEW name \in Backup \cup {0},
         NEW loaded \in Versions, loaded.installed # 0, loaded.game # 0, NEW wanted \in Versions,
         task' = [task EXCEPT ![t] = NewTask(op, program, name, b, loaded, wanted)]
  PROVE  Others(t) /\ OnCourse(t)' /\ Starts(t, op, b, name, loaded, wanted)
<1> DEFINE new == NewTask(op, program, name, b, loaded, wanted)
<1>1. /\ new \in TaskRecord /\ new.op = op /\ new.todo = program /\ new.name = name /\ new.target = b
      /\ new.data = Missing /\ new.aside = Missing /\ new.row = loaded /\ new.wanted = wanted
      /\ new.doomed = {}
  BY DEF TaskRecord, NewTask
<1>2. task' = [task EXCEPT ![t] = new] /\ task \in [Task -> TaskRecord]
  BY DEF Tasks
<1> HIDE DEF new
<1>3. task'[t] = new /\ Others(t)
  BY <1>1, <1>2 DEF Others, Kept
<1>4. Head(program) = CASE op = "scheduled" -> "status" [] op = "delete" -> "unlink"
                        [] op = "page" -> "look" [] OTHER -> "check"
  <2>1. CASE op = "scheduled"
    BY <2>1
  <2>2. CASE op = "create"
    BY <2>2 DEF Steps, CreateSteps
  <2>3. CASE op = "update"
    BY <2>3 DEF Steps, UpdateSteps
  <2>4. CASE op = "restore"
    BY <2>4 DEF Steps, RestoreSteps
  <2>5. CASE op = "rollback"
    BY <2>5 DEF Steps, RollbackSteps
  <2>6. CASE op = "delete"
    BY <2>6 DEF Steps, DeleteSteps
  <2>7. CASE op = "page"
    BY <2>7 DEF Steps, PageSteps
  <2> QED BY <2>1, <2>2, <2>3, <2>4, <2>5, <2>6, <2>7 DEF Op
<1>5. program \in Programs(op)
  BY DEF Programs
<1>6. Head(program) \notin {"archived", "swapOut", "swapIn"}
  BY <1>4 DEF Op
<1>7. OnCourse(t)' /\ Active(t)' /\ Now(t)' = Head(program)
  BY <1>1, <1>3, <1>5, <1>6, BeginsOnCourse
<1> QED BY <1>1, <1>3, <1>4, <1>7 DEF Starts

\* A handler begins with the versions of the row.
LEMMA BeginMoves ==
  ASSUME Stores, Tasks, NEW c \in Client, NEW op \in Op \ {"none", "scheduled"},
         NEW b \in Backup \cup {0}, NEW v \in Version \cup {0}, Begin(c, op, b, v)
  PROVE  /\ Others(c) /\ OnCourse(c)' /\ c \in Task
         /\ Starts(c, op, b, IF made' = made THEN 0 ELSE made',
                   [installed |-> installed, game |-> game], Wanted(op, b, v))
<1>1. c \in Task /\ c # Pass /\ ~Active(c)
  BY TaskAssumption DEF Begin, Task
<1> DEFINE name == IF made' = made THEN 0 ELSE made'
           loaded == [installed |-> installed, game |-> game]
           program == Steps[op]
<1>2. name \in Backup \cup {0}
  BY BackupAssumption DEF Begin, Stores, Backup
<1>3. loaded \in Versions /\ loaded.installed # 0 /\ loaded.game # 0
  BY VersionAssumption DEF Stores, Versions
<1>4. Wanted(op, b, v) \in Versions
  <2>1. op \in {"restore", "rollback"} => /\ backup[b].installed \in Version \cup {0}
                                          /\ backup[b].game \in Version \cup {0}
    BY DEF Begin, Stores, Row, Rows
  <2> QED BY <2>1 DEF Wanted, Versions, NoVersions, Begin
<1>5. program \in Programs(op) /\ program \in Seq(Step)
  BY ProgramsTyped DEF Programs
<1>6. task' = [task EXCEPT ![c] = NewTask(op, program, name, b, loaded, Wanted(op, b, v))]
  BY DEF Begin
<1> HIDE DEF name, loaded, program
<1>7. program = IF op = "scheduled" THEN <<"status">> ELSE Steps[op]
  BY DEF program
<1>8. Others(c) /\ OnCourse(c)' /\ Starts(c, op, b, name, loaded, Wanted(op, b, v))
  BY <1>1, <1>2, <1>3, <1>4, <1>5, <1>6, <1>7, Starting
<1> QED BY <1>1, <1>8 DEF name, loaded

\* So does the pass.
LEMMA PassBeginsMoves ==
  ASSUME Stores, Tasks, PassBegins
  PROVE  /\ Others(Pass) /\ OnCourse(Pass)' /\ Pass \in Task
         /\ Starts(Pass, "scheduled", 0, made', [installed |-> installed, game |-> game], NoVersions)
<1>1. Pass \in Task /\ ~Active(Pass)
  BY DEF PassBegins, Task
<1> DEFINE loaded == [installed |-> installed, game |-> game]
<1>2. made' \in Backup \cup {0} /\ made' = made + 1
  BY BackupAssumption DEF PassBegins, Stores, Backup
<1>3. loaded \in Versions /\ loaded.installed # 0 /\ loaded.game # 0 /\ NoVersions \in Versions
  BY VersionAssumption DEF Stores, Versions, NoVersions
<1>4. <<"status">> \in Seq(Step) /\ "scheduled" \in Op \ {"none"}
  BY DEF Step, Op
<1>5. task' = [task EXCEPT ![Pass] = NewTask("scheduled", <<"status">>, made', 0, loaded, NoVersions)]
  BY <1>2 DEF PassBegins
<1> HIDE DEF loaded
<1>6. Others(Pass) /\ OnCourse(Pass)' /\ Starts(Pass, "scheduled", 0, made', loaded, NoVersions)
  BY <1>1, <1>2, <1>3, <1>4, <1>5, Starting
<1> QED BY <1>1, <1>6 DEF loaded
-----------------------------------------------------------------------------
(* Writes to the directory, and faults *)

AllKept == task' \in [Task -> TaskRecord] /\ \A u \in Task : Kept(u)

\* A write to the directory touches only the archives that are being made of
\* it.
LEMMA TearMoves ==
  ASSUME Tasks, task' = Tear(task)
  PROVE  /\ AllKept
         /\ (\A u \in Task : ~At(u, "archived")) => task' = task
<1>1. task \in [Task -> TaskRecord] /\ \A u \in Task : At(u, "archived") => task[u].data # Missing
  BY DEF Tasks, OnCourse, At, Now
<1>2. /\ task' \in [Task -> TaskRecord]
      /\ \A u \in Task : task'[u] = IF At(u, "archived")
                                    THEN [task[u] EXCEPT !.data.whole = FALSE] ELSE task[u]
  BY <1>1, Tears
<1>3. AllKept
  BY <1>2 DEF AllKept, Kept
<1> QED BY <1>1, <1>2, <1>3

\* A fault ends some tasks and leaves the others alone.
Dies(u) == task'[u] = task[u] \/ task'[u] = NoTask

\* A fault ends tasks and does nothing else to them.
LEMMA FaultMoves ==
  ASSUME Tasks, Fault
  PROVE  task' \in [Task -> TaskRecord] /\ \A u \in Task : Dies(u)
<1>1. task \in [Task -> TaskRecord] /\ NoTask \in TaskRecord
  BY NoTaskTyped DEF Tasks
<1>2. CASE PanelCrashes
  BY <1>1, <1>2 DEF PanelCrashes, Dies
<1>3. CASE \E t \in Task : TaskDies(t)
  BY <1>1, <1>3 DEF TaskDies, Dies
<1> QED BY <1>2, <1>3 DEF Fault
-----------------------------------------------------------------------------
(* Types *)

\* A step of a handler, or of the pass.
Acts(t) == (t \in Client /\ HandlerStep(t)) \/ (t = Pass /\ PassStep)

\* The actions of a handler and of the pass.
LEMMA Acting ==
  ASSUME NEW t, Acts(t)
  PROVE  /\ t \in Task /\ UNCHANGED <<faults, disturbed>>
         /\ \/ UNCHANGED rowVars /\ \/ ArchiveBegins(t) \/ ArchiveEnds(t) \/ ArchiveFails(t)
                                    \/ Unpack(t) \/ SwapOut(t) \/ SwapIn(t) \/ Unlink(t)
            \/ t \in Client /\ \/ Check(t) \/ Record(t) \/ RecordRefused(t) \/ Fetch(t)
                               \/ Remove(t) \/ Finish(t) \/ Look(t) \/ Note(t)
            \/ t = Pass /\ (Status \/ SaveOff \/ Flush \/ SaveOn \/ Retain \/ PassCommit)
BY DEF Acts, HandlerStep, PassStep, StoreStep, Task

\* The record of a task that is at work.
LEMMA TaskTyped ==
  ASSUME Tasks, NEW t \in Task
  PROVE  /\ task[t].op \in Op /\ task[t].todo \in Seq(Step) /\ task[t].name \in Backup \cup {0}
         /\ task[t].target \in Backup \cup {0} /\ task[t].data \in Content \cup {Missing}
         /\ task[t].aside \in Content \cup {Missing}
         /\ task[t].row.installed \in Version \cup {0} /\ task[t].row.game \in Version \cup {0}
         /\ task[t].wanted.installed \in Version \cup {0} /\ task[t].wanted.game \in Version \cup {0}
         /\ task[t].doomed \in SUBSET Backup
<1>1. task[t] \in TaskRecord
  BY DEF Tasks
<1> QED BY <1>1 DEF TaskRecord, Versions

\* What is stored in the row of an update that ends.
LEMMA Settles ==
  ASSUME backup \in [Backup -> Row], \A d \in Backup : RowNumbered(d),
         NEW b, NEW state \in {"completed", "failed", "rolled_back"}, Settle(b, state)
  PROVE  /\ backup' \in [Backup -> Row]
         /\ \A d \in Backup : /\ d # b => backup'[d] = backup[d]
                              /\ backup'[d] = NoRow <=> backup[d] = NoRow
                              /\ backup'[d].installed = backup[d].installed
                              /\ backup'[d].game = backup[d].game
                              /\ d = b /\ backup[d] # NoRow => backup'[d].update = state
<1>1. CASE b \notin Rows
  BY <1>1 DEF Settle, Rows
<1>2. CASE b \in Rows
  <2>1. b \in Backup /\ backup[b] \in Row /\ backup[b].installed # 0 /\ backup[b] # NoRow
    BY <1>2 DEF Rows, RowNumbered
  <2> DEFINE settled == [backup[b] EXCEPT !.update = state]
  <2>2. /\ settled \in Row /\ settled.installed = backup[b].installed /\ settled.game = backup[b].game
        /\ settled.update = state
    BY <2>1 DEF Row
  <2>3. backup' = [backup EXCEPT ![b] = settled]
    BY <1>2, <2>1 DEF Settle
  <2>4. settled # NoRow
    BY <2>1, <2>2 DEF NoRow
  <2> HIDE DEF settled
  <2> QED BY <2>1, <2>2, <2>3, <2>4
<1> QED BY <1>1, <1>2

\* The row of a new backup is a row, with the versions that its task loaded.
LEMMA RowTyped ==
  ASSUME Tasks, NEW t \in Task, Active(t)
  PROVE  /\ RowOf(t) \in Row /\ RowOf(t) # NoRow /\ RowOf(t).installed = task[t].row.installed
         /\ RowOf(t).game = task[t].row.game /\ RowOf(t).installed # 0 /\ RowOf(t).game # 0
         /\ RowOf(t).update = IF task[t].op = "update" THEN "downloading" ELSE "none"
<1>1. task[t].row.installed # 0 /\ task[t].row.game # 0
  BY DEF Tasks, OnCourse
<1> QED BY <1>1, TaskTyped DEF RowOf, Row, NoRow

\* A column that a commit writes is a version.
LEMMA ColumnTyped ==
  ASSUME Tasks, Stores, NEW t \in Task
  PROVE  Column(t, "installed", installed) \in Version /\ Column(t, "game", game) \in Version
<1>1. /\ task[t].wanted["installed"] \in Version \cup {0} /\ task[t].wanted["game"] \in Version \cup {0}
      /\ installed \in Version /\ game \in Version
  BY TaskTyped DEF Stores
<1> QED BY <1>1 DEF Column

\* The end of a handler: the row that it leaves.
LEMMA FinishRows ==
  ASSUME Tasks, Stores, Numbers, NEW t \in Client, Finish(t)
  PROVE  /\ Active(t) /\ Now(t) = "finish" /\ t \in Task
         /\ task[t].op \in {"update", "rollback", "restore", "delete"}
         /\ \/ task[t].op = "update" /\ Settle(task[t].name, "completed")
            \/ task[t].op = "rollback" /\ Settle(task[t].target, "rolled_back")
            \/ task[t].op = "restore" /\ backup' = backup
            \/ task[t].op = "delete" /\ backup' = [backup EXCEPT ![task[t].target] = NoRow]
<1>1. Active(t) /\ Now(t) = "finish" /\ t \in Task
  BY DEF Finish, At, Now, Task
<1>2. task[t].op \in Op \ {"none"} /\ Now(t) \in StepsOf[task[t].op]
  BY <1>1, StepOf
<1>3. task[t].op \in {"update", "rollback", "restore", "delete"}
  BY <1>1, <1>2 DEF StepsOf, Op
<1> QED BY <1>1, <1>3 DEF Finish

\* The steps of the tasks keep the types of the stores.
LEMMA ActsTyped ==
  ASSUME Stores, Tasks, Numbers, NEW t, Acts(t)
  PROVE  Stores'
<1>1. t \in Task /\ faults' = faults /\ disturbed' = disturbed
  BY Acting
<1>2. /\ task[t].data \in Content \cup {Missing} /\ task[t].aside \in Content \cup {Missing}
      /\ task[t].name \in Backup \cup {0} /\ task[t].target \in Backup \cup {0}
  BY <1>1, TaskTyped
<1> USE <1>1, <1>2
<1>3. CASE ArchiveBegins(t) /\ UNCHANGED rowVars
  BY <1>3 DEF ArchiveBegins, rowVars, Stores
<1>4. CASE ArchiveEnds(t) /\ UNCHANGED rowVars
  BY <1>4 DEF ArchiveEnds, rowVars, Stores
<1>5. CASE ArchiveFails(t) /\ UNCHANGED rowVars
  BY <1>5 DEF ArchiveFails, rowVars, Stores
<1>6. CASE Unpack(t) /\ UNCHANGED rowVars
  BY <1>6 DEF Unpack, rowVars, Stores
<1>7. CASE SwapOut(t) /\ UNCHANGED rowVars
  BY <1>7 DEF SwapOut, rowVars, Stores
<1>8. CASE SwapIn(t) /\ UNCHANGED rowVars
  BY <1>8 DEF SwapIn, rowVars, Stores
<1>9. CASE Unlink(t) /\ UNCHANGED rowVars
  BY <1>9 DEF Unlink, rowVars, Stores
<1>10. CASE Check(t)
  BY <1>10 DEF Check, rowVars, Stores
<1>11. CASE Record(t)
  <2>1. RowOf(t) \in Row
    BY <1>11, RowTyped DEF Record, At
  <2> QED BY <1>11, <2>1 DEF Record, Stores
<1>12. CASE RecordRefused(t)
  BY <1>12 DEF RecordRefused, rowVars, Stores
<1>13. CASE t \in Client /\ Fetch(t)
  <2>1. backup' \in [Backup -> Row]
    BY <1>13, Settles DEF Fetch, Stores, Numbers
  <2> QED BY <1>13, <2>1 DEF Fetch, Stores
<1>14. CASE Remove(t)
  BY <1>14 DEF Remove, rowVars, Stores
<1>15. CASE t \in Client /\ Finish(t)
  <2>1. backup' \in [Backup -> Row]
    <3>1. NoRow \in Row
      BY DEF NoRow, Row
    <3> QED BY <1>15, <3>1, FinishRows, Settles DEF Stores, Numbers
  <2> QED BY <1>15, <2>1, ColumnTyped DEF Finish, Stores
<1>16. CASE Look(t)
  BY <1>16 DEF Look, rowVars, Stores
<1>17. CASE Note(t)
  BY <1>17, ColumnTyped DEF Note, Stores
<1>18. CASE Status
  BY <1>18 DEF Status, rowVars, Stores
<1>19. CASE SaveOff
  BY <1>19 DEF SaveOff, rowVars, Stores
<1>20. CASE Flush
  BY <1>20 DEF Flush, rowVars, Stores
<1>21. CASE SaveOn
  BY <1>21 DEF SaveOn, rowVars, Stores
<1>22. CASE Retain
  BY <1>22 DEF Retain, rowVars, Stores
<1>23. CASE t = Pass /\ PassCommit
  <2>1. RowOf(Pass) \in Row /\ NoRow \in Row
    BY <1>23, RowTyped DEF PassCommit, At, NoRow, Row
  <2>2. backup' \in [Backup -> Row]
    BY <1>23, <2>1 DEF PassCommit, Stores
  <2>3. schedule' \in {"off", "waiting", "due"}
    BY <1>23 DEF PassCommit
  <2> QED BY <1>23, <2>2, <2>3 DEF PassCommit, Stores
<1> QED BY <1>3, <1>4, <1>5, <1>6, <1>7, <1>8, <1>9, <1>10, <1>11, <1>12, <1>13, <1>14, <1>15,
           <1>16, <1>17, <1>18, <1>19, <1>20, <1>21, <1>22, <1>23, Acting

\* Every step keeps the types of the stores.
LEMMA StoresKept ==
  ASSUME Stores, Tasks, Numbers, Next
  PROVE  Stores'
<1>1. CASE \E t : Acts(t)
  BY <1>1, ActsTyped
<1>2. ASSUME NEW c \in Client, NEW op \in Op \ {"none", "scheduled"}, NEW b \in Backup \cup {0},
             NEW v \in Version \cup {0}, Begin(c, op, b, v)
      PROVE  Stores'
  <2>1. made' \in 0 .. MaxBackups
    BY <1>2, BackupAssumption DEF Begin, Stores
  <2>2. disturbed' \in BOOLEAN
    BY <1>2, Zenon DEF Begin
  <2> QED BY <1>2, <2>1, <2>2 DEF Begin, Stores
<1>3. CASE SetPolicy \/ TimePasses
  BY <1>3 DEF SetPolicy, TimePasses, Stores, storeVars
<1>4. CASE PassBegins
  <2>1. made' \in 0 .. MaxBackups
    BY <1>4, BackupAssumption DEF PassBegins, Stores
  <2>2. disturbed' \in BOOLEAN
    BY <1>4, Zenon DEF PassBegins
  <2> QED BY <1>4, <2>1, <2>2 DEF PassBegins, Stores
<1>5. CASE Power
  <2>1. disturbed' \in BOOLEAN
    BY <1>5, Zenon DEF Power
  <2>2. CASE ServerStops
    BY <1>5, <2>1, <2>2 DEF Power, ServerStops, rowVars, Stores
  <2>3. CASE ServerStarts(game, installed)
    <3>1. root' \in Content
      <4>1. root = Missing \/ root \in Content
        BY DEF Stores
      <4>2. (root = Missing \/ root.whole) \in BOOLEAN
        BY <4>1 DEF Content
      <4> QED BY <2>3, <4>2 DEF ServerStarts, Stores, Content
    <3>2. server'.container \in [game : Version, java : Version] /\ server'.up \in BOOLEAN
          /\ server'.saves \in BOOLEAN
          /\ server' = [up |-> server'.up, saves |-> server'.saves, container |-> server'.container]
      BY <2>3 DEF ServerStarts, Fitting, Stores
    <3> QED BY <1>5, <2>1, <2>3, <3>1, <3>2 DEF Power, ServerStarts, rowVars, Stores
  <2> QED BY <1>5, <2>2, <2>3 DEF Power
<1>6. CASE Save
  BY <1>6 DEF Save, ServerSaves, rowVars, Stores
<1>7. CASE Fault
  BY <1>7, FaultAssumption DEF Fault, rowVars, Stores
<1> QED BY <1>1, <1>2, <1>3, <1>4, <1>5, <1>6, <1>7 DEF Next, Acts
-----------------------------------------------------------------------------
(* The course of the tasks, and their numbers *)

\* Where a task stands, when others step.
LEMMA Standing ==
  ASSUME Tasks, NEW u \in Task, Kept(u)
  PROVE  /\ \A ops, steps : On(u, ops, steps)' <=> On(u, ops, steps)
         /\ Abandoned(u)' <=> Abandoned(u)
         /\ \A b : /\ Making(u, b)' <=> Making(u, b)
                   /\ Made(u, b)' <=> Made(u, b)
                   /\ Removing(u, b)' <=> Removing(u, b)
                   /\ Settling(u, b)' <=> Settling(u, b)
<1>1. /\ task'[u].op = task[u].op /\ task'[u].todo = task[u].todo
      /\ task'[u].name = task[u].name /\ task'[u].target = task[u].target
      /\ task'[u].doomed = task[u].doomed
      /\ (Active(u)' <=> Active(u)) /\ Now(u)' = Now(u)
  BY KeptFields
<1>2. \A ops, steps : On(u, ops, steps)' <=> On(u, ops, steps)
  BY <1>1 DEF On
<1>3. Abandoned(u)' <=> Abandoned(u)
  BY <1>1 DEF Abandoned
<1> QED BY <1>1, <1>2, <1>3 DEF Making, Made, Removing, Settling

\* What a task that is not at work holds.
LEMMA NothingDone ==
  /\ NoTask.op = "none" /\ NoTask.todo = <<>> /\ NoTask.name = 0 /\ NoTask.target = 0
  /\ NoTask.data = Missing /\ NoTask.aside = Missing /\ NoTask.doomed = {}
BY DEF NoTask, NewTask

\* The numbers of a task outlast the steps of others.
LEMMA NumbersOfOthers ==
  ASSUME Tasks, NEW u \in Task, Kept(u), NumbersOf(u), made \in Nat, made' \in Nat, made' >= made
  PROVE  NumbersOf(u)' /\ task'[u].name = task[u].name
<1>1. /\ task'[u].name = task[u].name /\ task'[u].target = task[u].target
      /\ task'[u].op = task[u].op /\ task'[u].doomed = task[u].doomed
  BY KeptFields
<1>2. task[u].name \in Nat /\ task[u].target \in Nat
  BY TaskTyped, BackupAssumption DEF Backup
<1>3. task'[u].name <= made' /\ task'[u].target <= made'
  BY <1>1, <1>2 DEF NumbersOf
<1>4. \A b \in task'[u].doomed : b <= made'
  <2>1. \A b \in task[u].doomed : b \in Nat /\ b <= made
    BY TaskTyped, BackupAssumption DEF NumbersOf, Backup
  <2> QED BY <1>1, <2>1
<1> QED BY <1>1, <1>3, <1>4, Standing DEF NumbersOf

\* Numbers are kept by a task that takes no number of another.
LEMMA NumbersStep ==
  ASSUME Stores, Tasks, Numbers, NEW t \in Task, Others(t), NumbersOf(t)',
         made' \in Nat, made' >= made,
         task'[t].name # 0 => task'[t].name = task[t].name \/ task'[t].name > made,
         \A b \in Backup : RowNumbered(b)' /\ FileNumbered(b)'
  PROVE  Numbers'
<1>1. made \in Nat
  BY BackupAssumption DEF Stores
<1>2. \A u \in Task \ {t} : NumbersOf(u)' /\ task'[u].name = task[u].name
  BY <1>1, NumbersOfOthers DEF Others, Numbers
<1>3. \A u \in Task : task[u].name \in Nat /\ task[u].name <= made
  BY TaskTyped, BackupAssumption DEF Numbers, NumbersOf, Backup
<1>4. \A v, u \in Task : task'[v].name # 0 /\ task'[v].name = task'[u].name => v = u
  <2>1. \A u \in Task \ {t} : task'[t].name # 0 => task'[t].name # task'[u].name
    BY <1>1, <1>2, <1>3 DEF Numbers
  <2> QED BY <1>2, <2>1 DEF Numbers
<1> QED BY <1>2, <1>4 DEF Numbers

\* The numbers of a task that goes on, ends or gives up.
LEMMA ProceedsNumbers ==
  ASSUME Tasks, NEW t \in Task, NumbersOf(t), OnCourse(t)', Proceeds(t), made' = made,
         \/ task'[t].doomed = task[t].doomed
         \/ On(t, {"scheduled"}, {"commit"})' /\ \A b \in task'[t].doomed : b <= made
  PROVE  NumbersOf(t)' /\ task'[t].name = task[t].name
<1>1. /\ Active(t) /\ Active(t)' /\ task'[t].op = task[t].op /\ task'[t].name = task[t].name
      /\ task'[t].target = task[t].target /\ task'[t].todo = Tail(task[t].todo)
      /\ <<Now(t), Now(t)'>> \in Edges[task[t].op] /\ task[t].op \in Op \ {"none"}
      /\ Now(t) \in Step
  BY StepOf, LastSteps DEF Proceeds
<1>2. Abandoned(t) => Abandoned(t)'
  <2>1. Tail(<<"commit">>) = <<>> /\ Tail(<<"saveOn", "commit">>) = <<"commit">>
    OBVIOUS
  <2> QED BY <1>1, <2>1 DEF Abandoned, Active
<1>3. On(t, Makers, Step)' => On(t, Makers, Step)
  BY <1>1 DEF On
<1>4. task[t].doomed = {}
  <2>1. Now(t) # "commit"
    BY <1>1 DEF Edges, Op
  <2> QED BY <2>1 DEF NumbersOf, On
<1>5. On(t, Swappers \cup {"delete"}, Step)' => On(t, Swappers \cup {"delete"}, Step)
  BY <1>1 DEF On
<1> QED BY <1>1, <1>2, <1>3, <1>4, <1>5 DEF NumbersOf

\* A task that has ended holds no number.
LEMMA EndedNumbers ==
  ASSUME NEW t \in Task, Ended(t), made' \in Nat
  PROVE  NumbersOf(t)' /\ task'[t].name = 0
<1>1. ~Active(t)' /\ task'[t].name = 0 /\ task'[t].target = 0 /\ task'[t].doomed = {}
  BY NothingDone DEF Ended, Active
<1> QED BY <1>1 DEF NumbersOf, On

\* The pass that gives up holds none.
LEMMA GaveUpNumbers ==
  ASSUME Tasks, NumbersOf(Pass), GaveUp, made \in Nat, made' = made, Now(Pass) # "commit"
  PROVE  NumbersOf(Pass)' /\ task'[Pass].name = 0
<1>1. task[Pass].doomed = {}
  BY DEF NumbersOf, On
<1> QED BY <1>1 DEF NumbersOf, On, GaveUp, Carries, Swappers, Makers

\* Nor does a task that errs.
LEMMA ErrsNumbers ==
  ASSUME Tasks, Stores, NEW t \in Task, NumbersOf(t), Errs(t), made' = made, Now(t) # "commit"
  PROVE  NumbersOf(t)' /\ task'[t].name = 0
<1>1. made \in Nat
  BY BackupAssumption DEF Stores
<1> QED BY <1>1, EndedNumbers, GaveUpNumbers DEF Errs

\* The backup that a swap unpacks, and the one that the pass has made.
LEMMA Targets ==
  ASSUME Tasks, Numbers, NEW t \in Task, On(t, Swappers \cup {"delete"}, Step)
  PROVE  task[t].target \in Backup
BY TaskTyped DEF Numbers, NumbersOf

\* What is unpacked is a backup.
LEMMA UnpackTargets ==
  ASSUME Tasks, Numbers, NEW t \in Task, Unpack(t)
  PROVE  task[t].target \in Backup /\ task[t].op \in Swappers
<1>1. /\ Active(t) /\ Now(t) = "unpack" /\ task[t].op \in Op \ {"none"}
      /\ Now(t) \in StepsOf[task[t].op] /\ Now(t) \in Step
  BY StepOf, LastSteps DEF Unpack, At, Now
<1>2. task[t].op \in Swappers
  BY <1>1 DEF StepsOf, Op, Swappers
<1> QED BY <1>1, <1>2, Targets DEF On

\* A task that makes a backup has a number for it, unless it gave up.
LEMMA NamedUnlessAbandoned ==
  ASSUME Tasks, Numbers, NEW t \in Task, On(t, Makers, Step), ~On(t, {"scheduled"}, {"saveOn", "commit"})
  PROVE  task[t].name \in Backup
<1>1. Abandoned(t) => On(t, {"scheduled"}, {"saveOn", "commit"})
  <2>1. Head(<<"saveOn", "commit">>) = "saveOn" /\ Head(<<"commit">>) = "commit"
    OBVIOUS
  <2> QED BY <2>1 DEF Abandoned, On, Now, Tasks, OnCourse
<1> QED BY <1>1, TaskTyped DEF Numbers, NumbersOf

\* Retention has a backup to record.
LEMMA RetainNames ==
  ASSUME Tasks, Numbers, Retain
  PROVE  task[Pass].name \in Backup
<1>1. Active(Pass) /\ Now(Pass) = "retain" /\ Pass \in Task /\ task[Pass].op = "scheduled"
  BY DEF Retain, At, Now, Task, Tasks, OnCourse
<1> QED BY <1>1, NamedUnlessAbandoned DEF On, Makers, Step

\* Files and rows keep their numbers.
LEMMA SameRows ==
  ASSUME Numbers, backup' = backup, made' = made
  PROVE  \A b \in Backup : RowNumbered(b)'
BY DEF Numbers, RowNumbered

\* Removed files need no number.
LEMMA SameFiles ==
  ASSUME Numbers, \A b \in Backup : file'[b] = file[b] \/ file'[b] = Missing, made' = made
  PROVE  \A b \in Backup : FileNumbered(b)'
BY DEF Numbers, FileNumbered

\* Rows keep their numbers when an update ends.
LEMMA SettledRows ==
  ASSUME Stores, Numbers, NEW b, NEW state \in {"completed", "failed", "rolled_back"}, Settle(b, state),
         made' = made
  PROVE  \A d \in Backup : RowNumbered(d)'
<1>1. \A d \in Backup : /\ backup'[d] = NoRow <=> backup[d] = NoRow
                        /\ backup'[d].installed = backup[d].installed
                        /\ backup'[d].game = backup[d].game
  BY Settles DEF Stores, Numbers
<1> QED BY <1>1 DEF Numbers, RowNumbered

\* The steps of the tasks keep the numbers.
LEMMA ActsNumbers ==
  ASSUME Stores, Tasks, Numbers, NEW t, Acts(t)
  PROVE  Tasks' /\ Numbers'
<1>1. /\ t \in Task /\ NumbersOf(t) /\ root \in Content \cup {Missing} /\ made \in Nat
      /\ file \in [Backup -> Content \cup {Missing}] /\ task[t].name \in Backup \cup {0}
      /\ task[t].name <= made
  <2>1. t \in Task
    BY Acting
  <2>2. made \in Nat
    BY BackupAssumption DEF Stores
  <2>3. NumbersOf(t) /\ task[t].name <= made
    BY <2>1 DEF Numbers, NumbersOf
  <2> QED BY <2>1, <2>2, <2>3, TaskTyped DEF Stores
<1> USE <1>1
<1> SUFFICES /\ Others(t) /\ OnCourse(t)' /\ NumbersOf(t)' /\ task'[t].name \in {0, task[t].name}
             /\ made' = made /\ \A b \in Backup : RowNumbered(b)' /\ FileNumbered(b)'
  BY StillOnCourse, NumbersStep
<1>2. CASE ArchiveBegins(t) /\ UNCHANGED rowVars
  <2>1. file' = file /\ backup' = backup /\ made' = made
    BY <1>2 DEF ArchiveBegins, rowVars
  <2> QED BY <1>2, <2>1, ArchiveBeginsMoves, ProceedsNumbers, ErrsNumbers, SameRows, SameFiles
<1>3. CASE ArchiveEnds(t) /\ UNCHANGED rowVars
  <2>1. backup' = backup /\ made' = made /\ file' = [file EXCEPT ![task[t].name] = task[t].data]
    BY <1>3 DEF ArchiveEnds, rowVars
  <2>2. \A b \in Backup : FileNumbered(b)'
    BY <2>1 DEF FileNumbered, Numbers
  <2> QED BY <1>3, <2>1, <2>2, ArchiveEndsMoves, ProceedsNumbers, SameRows
<1>4. CASE ArchiveFails(t) /\ UNCHANGED rowVars
  <2>1. file' = file /\ backup' = backup /\ made' = made
    BY <1>4 DEF ArchiveFails, rowVars
  <2> QED BY <1>4, <2>1, ArchiveFailsMoves, ErrsNumbers, SameRows, SameFiles
<1>5. CASE Unpack(t) /\ UNCHANGED rowVars
  <2>1. file' = file /\ backup' = backup /\ made' = made
    BY <1>5 DEF Unpack, rowVars
  <2>2. task[t].target \in Backup
    BY <1>5, UnpackTargets
  <2> QED BY <1>5, <2>1, <2>2, UnpackMoves, ProceedsNumbers, ErrsNumbers, SameRows, SameFiles
<1>6. CASE SwapOut(t) /\ UNCHANGED rowVars
  <2>1. file' = file /\ backup' = backup /\ made' = made
    BY <1>6 DEF SwapOut, rowVars
  <2> QED BY <1>6, <2>1, SwapOutMoves, ProceedsNumbers, ErrsNumbers, SameRows, SameFiles
<1>7. CASE SwapIn(t) /\ UNCHANGED rowVars
  <2>1. file' = file /\ backup' = backup /\ made' = made
    BY <1>7 DEF SwapIn, rowVars
  <2> QED BY <1>7, <2>1, SwapInMoves, ProceedsNumbers, ErrsNumbers, SameRows, SameFiles DEF Carries
<1>8. CASE Unlink(t) /\ UNCHANGED rowVars
  <2>1. backup' = backup /\ made' = made /\ \A b \in Backup : file'[b] = file[b] \/ file'[b] = Missing
    BY <1>8 DEF Unlink, rowVars
  <2> QED BY <1>8, <2>1, UnlinkMoves, ProceedsNumbers, ErrsNumbers, SameRows, SameFiles DEF Carries
<1>9. CASE Check(t)
  <2>1. file' = file /\ backup' = backup /\ made' = made
    BY <1>9 DEF Check, rowVars
  <2> QED BY <1>9, <2>1, CheckMoves, ProceedsNumbers, ErrsNumbers, SameRows, SameFiles DEF Carries
<1>10. CASE Record(t)
  <2>1. file' = file /\ backup' = [backup EXCEPT ![task[t].name] = RowOf(t)] /\ made' = made
    BY <1>10 DEF Record
  <2>2. \A b \in Backup : RowNumbered(b)'
    <3>1. RowOf(t).installed # 0 /\ RowOf(t).game # 0
      BY <1>10, RowTyped DEF Record, At
    <3> QED BY <2>1, <3>1 DEF Numbers, RowNumbered, Stores
  <2> QED BY <1>10, <2>1, <2>2, RecordMoves, ProceedsNumbers, EndedNumbers, SameFiles DEF Carries
<1>11. CASE t \in Client /\ RecordRefused(t)
  <2>1. backup' = backup /\ made' = made /\ \A b \in Backup : file'[b] = file[b] \/ file'[b] = Missing
    BY <1>11 DEF RecordRefused, rowVars
  <2> QED BY <1>11, <2>1, RecordRefusedMoves, EndedNumbers, SameRows, SameFiles
<1>12. CASE t \in Client /\ Fetch(t)
  <2>1. file' = file /\ made' = made
    BY <1>12 DEF Fetch
  <2>2. \A b \in Backup : RowNumbered(b)'
    BY <1>12, <2>1, FetchMoves, SameRows, SettledRows
  <2> QED BY <1>12, <2>1, <2>2, FetchMoves, ProceedsNumbers, EndedNumbers, SameFiles DEF Carries
<1>13. CASE Remove(t)
  <2>1. file' = file /\ backup' = backup /\ made' = made
    BY <1>13 DEF Remove, rowVars
  <2> QED BY <1>13, <2>1, RemoveMoves, ProceedsNumbers, SameRows, SameFiles DEF Carries
<1>14. CASE t \in Client /\ Finish(t)
  <2>1. file' = file /\ made' = made /\ Active(t) /\ task' = [task EXCEPT ![t] = NoTask]
    BY <1>14 DEF Finish, At
  <2>2. \A b \in Backup : RowNumbered(b)'
    <3>1. CASE backup' = [backup EXCEPT ![task[t].target] = NoRow]
      BY <2>1, <3>1 DEF Numbers, RowNumbered, Stores
    <3> QED BY <1>14, <2>1, <3>1, FinishRows, SameRows, SettledRows
  <2> QED BY <2>1, <2>2, LastMoves, EndedNumbers, SameFiles
<1>15. CASE Look(t)
  <2>1. file' = file /\ backup' = backup /\ made' = made
    BY <1>15 DEF Look, rowVars
  <2> QED BY <1>15, <2>1, LookMoves, ProceedsNumbers, ErrsNumbers, SameRows, SameFiles
<1>16. CASE Note(t)
  <2>1. file' = file /\ backup' = backup /\ made' = made /\ Active(t) /\ task' = [task EXCEPT ![t] = NoTask]
    BY <1>16 DEF Note, At
  <2> QED BY <2>1, LastMoves, EndedNumbers, SameRows, SameFiles
<1>17. CASE t = Pass /\ Status
  <2>1. file' = file /\ backup' = backup /\ made' = made
    BY <1>17 DEF Status, rowVars
  <2>2. /\ Others(Pass) /\ OnCourse(Pass)' /\ Active(Pass) /\ Now(Pass) = "status"
        /\ task[Pass].op = "scheduled" /\ task'[Pass].op = "scheduled"
        /\ task'[Pass].name = task[Pass].name /\ task'[Pass].target = task[Pass].target
        /\ task'[Pass].doomed = task[Pass].doomed
    BY <1>17, StatusMoves DEF Carries
  <2>3. task[Pass].name # 0 /\ task[Pass].doomed = {}
    <3>1. ~Abandoned(Pass)
      <4>1. Head(<<"saveOn", "commit">>) = "saveOn" /\ Head(<<"commit">>) = "commit"
        OBVIOUS
      <4> QED BY <2>2, <4>1 DEF Abandoned, Now
    <3> QED BY <1>17, <2>2, <3>1 DEF NumbersOf, On, Makers, Step
  <2>4. NumbersOf(Pass)'
    BY <1>17, <2>1, <2>2, <2>3 DEF NumbersOf, On, Makers, Swappers
  <2> QED BY <1>17, <2>1, <2>2, <2>4, SameRows, SameFiles
<1>18. CASE t = Pass /\ SaveOff
  <2>1. file' = file /\ backup' = backup /\ made' = made
    BY <1>18 DEF SaveOff, rowVars
  <2> QED BY <1>18, <2>1, SaveOffMoves, ProceedsNumbers, GaveUpNumbers, SameRows, SameFiles DEF Carries
<1>19. CASE t = Pass /\ Flush
  <2>1. file' = file /\ backup' = backup /\ made' = made
    BY <1>19 DEF Flush, rowVars
  <2> QED BY <1>19, <2>1, FlushMoves, ProceedsNumbers, GaveUpNumbers, SameRows, SameFiles DEF Carries
<1>20. CASE t = Pass /\ SaveOn
  <2>1. file' = file /\ backup' = backup /\ made' = made
    BY <1>20 DEF SaveOn, rowVars
  <2> QED BY <1>20, <2>1, SaveOnMoves, ProceedsNumbers, SameRows, SameFiles DEF Carries
<1>21. CASE t = Pass /\ Retain
  <2>1. backup' = backup /\ made' = made /\ \A b \in Backup : file'[b] = file[b] \/ file'[b] = Missing
    BY <1>21 DEF Retain, rowVars
  <2>2. task[Pass].name \in Backup
    BY <1>21, RetainNames
  <2>3. /\ Others(Pass) /\ OnCourse(Pass)' /\ Now(Pass) = "retain" /\ task[Pass].op = "scheduled"
        /\ Proceeds(Pass)
    BY <1>21, <2>2, RetainMoves
  <2>4. On(Pass, {"scheduled"}, {"commit"})'
    BY <2>3 DEF On, Proceeds, Edges
  <2>5. \A b \in task'[Pass].doomed : b <= made
    <3>1. \A b \in Rows : b <= made
      BY DEF Rows, Numbers, RowNumbered
    <3> QED BY <1>1, <1>21, <2>2, <3>1, RetainMoves DEF Expired
  <2> QED BY <1>21, <2>1, <2>3, <2>4, <2>5, ProceedsNumbers, SameRows, SameFiles
<1>22. CASE t = Pass /\ PassCommit
  <2>1. file' = file /\ made' = made /\ Active(Pass) /\ task' = [task EXCEPT ![Pass] = NoTask]
    BY <1>22 DEF PassCommit, At
  <2>2. \A b \in Backup : RowNumbered(b)'
    <3>1. RowOf(Pass).installed # 0 /\ RowOf(Pass).game # 0
      BY <1>22, <2>1, RowTyped
    <3> QED BY <1>22, <2>1, <3>1 DEF PassCommit, Numbers, RowNumbered, Stores
  <2> QED BY <1>22, <2>1, <2>2, LastMoves, EndedNumbers, SameFiles
<1> QED BY <1>2, <1>3, <1>4, <1>5, <1>6, <1>7, <1>8, <1>9, <1>10, <1>11, <1>12, <1>13, <1>14,
           <1>15, <1>16, <1>17, <1>18, <1>19, <1>20, <1>21, <1>22, Acting

\* A task that begins has a new number, or none.
LEMMA StartsNumbers ==
  ASSUME Stores, Tasks, Numbers, NEW t \in Task, Others(t), OnCourse(t)',
         NEW op \in Op \ {"none"}, NEW b \in Backup \cup {0}, NEW name, NEW loaded, NEW wanted,
         Starts(t, op, b, name, loaded, wanted),
         b <= made, op \in Swappers \cup {"delete"} => b # 0,
         \/ op \in Makers /\ made' = made + 1 /\ name = made'
         \/ op \notin Makers /\ made' = made /\ name = 0,
         backup' = backup, file' = file
  PROVE  Tasks' /\ Numbers'
<1>1. made \in Nat
  BY BackupAssumption DEF Stores
<1>2. /\ task'[t].op = op /\ task'[t].target = b /\ task'[t].name = name /\ task'[t].doomed = {}
  BY DEF Starts
<1>3. b <= made' /\ name <= made' /\ name \in Nat
  BY <1>1, BackupAssumption DEF Backup
<1>4. NumbersOf(t)'
  BY <1>1, <1>2, <1>3 DEF NumbersOf, On
<1>5. \A d \in Backup : RowNumbered(d)' /\ FileNumbered(d)'
  BY <1>1, BackupAssumption DEF Numbers, RowNumbered, FileNumbered, Backup
<1> QED BY <1>1, <1>2, <1>4, <1>5, NumbersStep, StillOnCourse

\* A write to the directory keeps them.
LEMMA AllKeptNumbers ==
  ASSUME Stores, Tasks, Numbers, AllKept, backup' = backup, file' = file, made' = made
  PROVE  Tasks' /\ Numbers'
<1>1. made \in Nat /\ Pass \in Task
  BY BackupAssumption DEF Stores, Task
<1>2. \A u \in Task : NumbersOf(u)' /\ task'[u].name = task[u].name
  BY <1>1, NumbersOfOthers DEF AllKept, Numbers
<1>3. ASSUME NEW u \in Task PROVE OnCourse(u)'
  <2>1. Kept(u)
    BY DEF AllKept
  <2>2. CASE Active(u)
    BY <2>1, <2>2, KeptFields DEF Tasks, OnCourse
  <2>3. CASE ~Active(u)
    <3>1. ~At(u, "archived")
      BY <2>3 DEF At
    <3> QED BY <2>1, <2>3, <3>1 DEF Kept, Tasks, OnCourse, Active
  <2> QED BY <2>2, <2>3
<1> QED BY <1>2, <1>3 DEF AllKept, Tasks, Numbers, RowNumbered, FileNumbered

\* A fault keeps them.
LEMMA FaultNumbers ==
  ASSUME Stores, Tasks, Numbers, Fault
  PROVE  Tasks' /\ Numbers'
<1>1. made \in Nat /\ made' = made /\ file' = file /\ backup' = backup
  BY BackupAssumption DEF Stores, Fault, rowVars
<1>2. task' \in [Task -> TaskRecord] /\ \A u \in Task : Dies(u)
  BY FaultMoves
<1>3. ASSUME NEW u \in Task PROVE OnCourse(u)' /\ NumbersOf(u)' /\ task'[u].name \in {0, task[u].name}
  <2>1. CASE task'[u] = task[u]
    BY <1>1, <2>1 DEF Tasks, OnCourse, Active, Now, Numbers, NumbersOf, On, Abandoned
  <2>2. CASE task'[u] = NoTask
    <3>1. OnCourse(u)' /\ ~Active(u)'
      BY <2>2, EndsOnCourse
    <3> QED BY <1>1, <2>2, <3>1, NothingDone DEF NumbersOf, On
  <2> QED BY <1>2, <2>1, <2>2 DEF Dies
<1>4. \A v, u \in Task : task'[v].name # 0 /\ task'[v].name = task'[u].name => v = u
  BY <1>3 DEF Numbers
<1> QED BY <1>1, <1>2, <1>3, <1>4 DEF Tasks, Numbers, RowNumbered, FileNumbered

\* A start of the server, a stop and a save.
LEMMA PowerMoves ==
  ASSUME Power \/ Save
  PROVE  /\ task' = Tear(task) /\ file' = file /\ UNCHANGED <<rowVars, faults>>
         /\ \/ ServerStarts(game, installed) \/ ServerStops \/ (ServerSaves /\ disturbed' = disturbed)
         /\ disturbed => disturbed'
<1>1. CASE Power
  <2>1. disturbed => disturbed'
    BY <1>1, Zenon DEF Power
  <2> QED BY <1>1, <2>1 DEF Power, ServerStarts, ServerStops
<1>2. CASE Save
  BY <1>2 DEF Save, ServerSaves
<1> QED BY <1>1, <1>2

\* Every step keeps the course of the tasks and their numbers.
LEMMA NumbersKept ==
  ASSUME Stores, Tasks, Numbers, Next
  PROVE  Tasks' /\ Numbers'
<1>1. CASE \E t : Acts(t)
  BY <1>1, ActsNumbers
<1>2. ASSUME NEW c \in Client, NEW op \in Op \ {"none", "scheduled"}, NEW b \in Backup \cup {0},
             NEW v \in Version \cup {0}, Begin(c, op, b, v)
      PROVE  Tasks' /\ Numbers'
  <2> DEFINE name == IF made' = made THEN 0 ELSE made'
             loaded == [installed |-> installed, game |-> game]
  <2>1. /\ Others(c) /\ OnCourse(c)' /\ c \in Task
        /\ Starts(c, op, b, name, loaded, Wanted(op, b, v))
    BY <1>2, BeginMoves
  <2>2. made \in Nat /\ backup' = backup /\ file' = file
    BY <1>2, BackupAssumption DEF Begin, Stores
  <2>3. b <= made /\ (op \in Swappers \cup {"delete"} => b # 0)
    BY <1>2, <2>2, BackupAssumption DEF Begin, Rows, Numbers, RowNumbered, Swappers, Backup
  <2>4. \/ op \in Makers /\ made' = made + 1 /\ name = made'
        \/ op \notin Makers /\ made' = made /\ name = 0
    BY <1>2, <2>2 DEF Begin, Makers
  <2> HIDE DEF name, loaded
  <2> QED BY <2>1, <2>2, <2>3, <2>4, StartsNumbers
<1>3. CASE SetPolicy \/ TimePasses
  <2>1. AllKept /\ file' = file /\ backup' = backup /\ made' = made
    BY <1>3 DEF SetPolicy, TimePasses, storeVars, AllKept, Kept, Tasks
  <2> QED BY <2>1, AllKeptNumbers
<1>4. CASE PassBegins
  <2>1. /\ Others(Pass) /\ OnCourse(Pass)' /\ Pass \in Task
        /\ Starts(Pass, "scheduled", 0, made', [installed |-> installed, game |-> game], NoVersions)
    BY <1>4, PassBeginsMoves
  <2>2. backup' = backup /\ file' = file /\ made' = made + 1 /\ made \in Nat /\ 0 <= made
    BY <1>4, BackupAssumption DEF PassBegins, Stores
  <2>3. "scheduled" \in (Op \ {"none"}) \cap Makers /\ "scheduled" \notin Swappers \cup {"delete"}
    BY DEF Op, Makers, Swappers
  <2> QED BY <2>1, <2>2, <2>3, StartsNumbers
<1>5. CASE Power \/ Save
  <2>1. AllKept /\ file' = file /\ backup' = backup /\ made' = made
    BY <1>5, PowerMoves, TearMoves DEF rowVars
  <2> QED BY <2>1, AllKeptNumbers
<1>6. CASE Fault
  BY <1>6, FaultNumbers
<1> QED BY <1>1, <1>2, <1>3, <1>4, <1>5, <1>6 DEF Next, Acts
-----------------------------------------------------------------------------
(* Saves are resumed *)

\* A pass that will resume saves still will after its next step, unless that
\* resumes them.
LEMMA ResumesTail ==
  ASSUME Tasks, NEW t \in Task, Active(t), Resumes(t), Now(t) # "saveOn"
  PROVE  /\ Tail(task[t].todo) # <<>>
         /\ task'[t].todo = Tail(task[t].todo) => Resumes(t)'
<1>1. task[t].todo \in Seq(Step) /\ task[t].todo # <<>> /\ Head(task[t].todo) # "saveOn"
  BY TaskTyped DEF Active, Now
<1> DEFINE todo == task[t].todo
<1>2. PICK i \in DOMAIN todo : todo[i] = "saveOn"
  BY DEF Resumes
<1> HIDE DEF todo
<1>3. todo \in Seq(Step) /\ todo # <<>> /\ Head(todo) # "saveOn"
  BY <1>1 DEF todo
<1>4. i \in 2 .. Len(todo) /\ Len(todo) \in Nat
  BY <1>2, <1>3
<1>5. /\ Tail(todo) \in Seq(Step) /\ Len(Tail(todo)) = Len(todo) - 1
      /\ i - 1 \in DOMAIN Tail(todo) /\ Tail(todo)[i - 1] = "saveOn"
  BY <1>2, <1>3, <1>4
<1>6. Len(Tail(todo)) # 0
  BY <1>4, <1>5
<1>7. \A s : Len(s) # 0 => s # <<>>
  OBVIOUS
<1>8. Tail(todo) # <<>>
  BY <1>6, <1>7, Zenon
<1> QED BY <1>5, <1>8 DEF Resumes, todo

\* A pass at its last step has no saves to resume, and one that is about to
\* pause them will resume them.
LEMMA LastResumesNothing ==
  ASSUME Tasks, NEW t \in Task, Active(t), Now(t) \in {"status", "commit"}
  PROVE  ~Resumes(t)
<1>1. Now(t) \in Lasts[task[t].op]
  BY LastSteps
<1>2. Tail(task[t].todo) = <<>>
  BY <1>1, Placed DEF Place, Now
<1> QED BY <1>2, ResumesTail

\* A pass that is about to pause saves will resume them.
LEMMA SaveOffResumes ==
  ASSUME Tasks, Active(Pass), Now(Pass) = "saveOff"
  PROVE  Resumes(Pass)
<1>1. Pass \in Task /\ task[Pass].op = "scheduled"
  BY DEF Task, Tasks, OnCourse
<1>2. PICK p \in Programs("scheduled") : Suffix(task[Pass].todo, p)
  BY <1>1 DEF Tasks, OnCourse
<1>3. p \in Seq(Step) /\ p # <<>>
  BY <1>2, ProgramsTyped DEF Op
<1>4. PICK k \in 1 .. Len(p) : task[Pass].todo = SubSeq(p, k, Len(p))
  BY <1>2 DEF Suffix
<1>5. p[k] = "saveOff"
  <2>1. Head(SubSeq(p, k, Len(p))) = p[k]
    BY <1>3, <1>4, HeadTailOfSubSeq
  <2> QED BY <1>4, <2>1 DEF Now
<1>6. p = PausingSteps
  <2>1. CASE p = <<"status">>
    BY <1>4, <1>5, <2>1
  <2>2. CASE p = <<"saveOn", "commit">>
    <3>1. Len(p) = 2 /\ p[1] = "saveOn" /\ p[2] = "commit"
      BY <2>2
    <3> QED BY <1>4, <1>5, <3>1
  <2>3. CASE p = StoppedSteps
    <3>1. Len(p) = 4 /\ p[1] = "archive" /\ p[2] = "archived" /\ p[3] = "retain" /\ p[4] = "commit"
      BY <2>3 DEF StoppedSteps
    <3> QED BY <1>4, <1>5, <3>1
  <2> QED BY <1>2, <2>1, <2>2, <2>3 DEF Programs
<1>7. /\ Len(p) = 7 /\ p[1] = "saveOff" /\ p[2] = "flush" /\ p[3] = "archive" /\ p[4] = "archived"
      /\ p[5] = "saveOn" /\ p[6] = "retain" /\ p[7] = "commit"
  BY <1>6 DEF PausingSteps
<1>8. k = 1
  BY <1>4, <1>5, <1>7
<1>9. task[Pass].todo = SubSeq(p, 1, 7)
  BY <1>4, <1>7, <1>8
<1>10. 5 \in DOMAIN SubSeq(p, 1, 7) /\ SubSeq(p, 1, 7)[5] = "saveOn"
  BY <1>3, <1>7
<1> QED BY <1>9, <1>10 DEF Resumes

\* The saves of a server are as before, or on.
NoPause == server' = server \/ ~server'.up \/ server'.saves

\* A step of another that pauses nothing leaves the resuming to the pass.
LEMMA OthersResume ==
  ASSUME Tasks, Resuming, faults' = 0 => faults = 0, NoPause, Pass \in Task, Kept(Pass)
  PROVE  Resuming'
<1>1. task'[Pass].todo = task[Pass].todo /\ (Active(Pass)' <=> Active(Pass))
  BY KeptFields
<1> QED BY <1>1 DEF Resuming, Paused, NoPause, Resumes

\* So does a step of the pass but the resuming.
LEMMA PassResumes ==
  ASSUME Tasks, Resuming, faults' = 0 => faults = 0, NoPause, Pass \in Task, Active(Pass),
         \/ Proceeds(Pass) /\ Now(Pass) # "saveOn"
         \/ GaveUp /\ Now(Pass) # "saveOff"
         \/ Now(Pass) \in {"status", "commit"}
  PROVE  Resuming'
<1>1. CASE Proceeds(Pass) /\ Now(Pass) # "saveOn"
  BY <1>1, ResumesTail DEF Resuming, Paused, NoPause, Proceeds
<1>2. CASE GaveUp /\ Now(Pass) # "saveOff"
  BY <1>2 DEF Resuming, Paused, NoPause, GaveUp
<1>3. CASE Now(Pass) \in {"status", "commit"}
  BY <1>3, LastResumesNothing DEF Resuming, Paused, NoPause
<1> QED BY <1>1, <1>2, <1>3

\* The others are kept by each step of a task.
LEMMA OthersKept ==
  ASSUME Stores, Tasks, Numbers, NEW t, Acts(t)
  PROVE  Others(t)
<1>1. /\ t \in Task /\ root \in Content \cup {Missing} /\ file \in [Backup -> Content \cup {Missing}]
  BY Acting DEF Stores
<1>2. Unpack(t) => task[t].target \in Backup
  BY <1>1, UnpackTargets
<1>3. Retain => task[Pass].name \in Backup
  BY RetainNames
<1>4. Finish(t) \/ Note(t) \/ (t = Pass /\ PassCommit) => Others(t)
  BY <1>1, LastMoves DEF Finish, Note, PassCommit, At
<1>5. ArchiveBegins(t) \/ ArchiveEnds(t) \/ ArchiveFails(t) => Others(t)
  BY <1>1, ArchiveBeginsMoves, ArchiveEndsMoves, ArchiveFailsMoves
<1>6. Unpack(t) \/ SwapOut(t) \/ SwapIn(t) \/ Unlink(t) => Others(t)
  BY <1>1, <1>2, UnpackMoves, SwapOutMoves, SwapInMoves, UnlinkMoves
<1>7. t \in Client /\ (Check(t) \/ Record(t) \/ RecordRefused(t) \/ Fetch(t)) => Others(t)
  BY <1>1, CheckMoves, RecordMoves, RecordRefusedMoves, FetchMoves
<1>8. Remove(t) \/ Look(t) => Others(t)
  BY <1>1, RemoveMoves, LookMoves
<1>9. t = Pass /\ (Status \/ SaveOff \/ Flush \/ SaveOn \/ Retain) => Others(t)
  BY <1>1, <1>3, StatusMoves, SaveOffMoves, FlushMoves, SaveOnMoves, RetainMoves
<1> QED BY <1>4, <1>5, <1>6, <1>7, <1>8, <1>9, Acting

\* What the steps do to the server.
LEMMA ServerSteps ==
  ASSUME Stores, NEW t, Acts(t)
  PROVE  NoPause \/ (t = Pass /\ SaveOff)
<1>1. CASE UNCHANGED rowVars /\ \/ ArchiveBegins(t) \/ ArchiveEnds(t) \/ ArchiveFails(t)
                                \/ Unpack(t) \/ SwapOut(t) \/ SwapIn(t) \/ Unlink(t)
  BY <1>1 DEF NoPause, ArchiveBegins, ArchiveEnds, ArchiveFails, Unpack, SwapOut, SwapIn, Unlink
<1>2. CASE t \in Client /\ \/ Check(t) \/ Record(t) \/ RecordRefused(t) \/ Fetch(t)
                           \/ Finish(t) \/ Look(t) \/ Note(t)
  BY <1>2 DEF NoPause, Check, Record, RecordRefused, Fetch, Finish, Look, Note
<1>3. CASE Remove(t)
  BY <1>3 DEF NoPause, Remove, Stores
<1>4. CASE Status \/ Flush \/ Retain \/ PassCommit
  BY <1>4 DEF NoPause, Status, Flush, Retain, PassCommit
<1>5. CASE SaveOn
  <2>1. server' = [server EXCEPT !.saves = server.saves \/ server.up]
    BY <1>5 DEF SaveOn
  <2> QED BY <2>1 DEF NoPause, Stores
<1> QED BY <1>1, <1>2, <1>3, <1>4, <1>5, Acting

\* Every step leaves paused saves to a pass that will resume them.
LEMMA ResumingKept ==
  ASSUME Stores, Tasks, Numbers, Resuming, Next
  PROVE  Resuming'
<1>1. Pass \in Task
  BY DEF Task
<1>2. ASSUME NEW t, Acts(t) PROVE Resuming'
  <2>1. t \in Task /\ faults' = faults /\ Others(t)
    BY <1>2, Acting, OthersKept
  <2>2. CASE t # Pass
    <3>1. NoPause
      BY <1>2, <2>2, ServerSteps
    <3> QED BY <1>1, <2>1, <2>2, <3>1, OthersResume DEF Others
  <2>3. CASE t = Pass
    <3>1. /\ root \in Content \cup {Missing} /\ file \in [Backup -> Content \cup {Missing}]
      BY DEF Stores
    <3>2. CASE ArchiveBegins(Pass) \/ ArchiveEnds(Pass) \/ ArchiveFails(Pass) \/ SwapOut(Pass)
               \/ SwapIn(Pass) \/ Unlink(Pass)
      <4>1. NoPause
        BY <3>2 DEF NoPause, ArchiveBegins, ArchiveEnds, ArchiveFails, SwapOut, SwapIn, Unlink
      <4> QED BY <1>1, <2>1, <3>1, <3>2, <4>1, PassResumes, ArchiveBeginsMoves, ArchiveEndsMoves,
                 ArchiveFailsMoves, SwapOutMoves, SwapInMoves, UnlinkMoves DEF Errs
    <3>3. CASE Unpack(Pass)
      <4>1. NoPause
        BY <3>3 DEF NoPause, Unpack
      <4> QED BY <1>1, <2>1, <3>1, <3>3, <4>1, PassResumes, UnpackTargets, UnpackMoves DEF Errs
    <3>4. CASE Status
      <4>1. NoPause
        BY <3>4 DEF NoPause, Status
      <4> QED BY <1>1, <2>1, <3>4, <4>1, PassResumes, StatusMoves
    <3>5. CASE SaveOff
      <4>1. CASE server.up
        BY <3>5, <4>1, SaveOffMoves, SaveOffResumes, ResumesTail, <1>1 DEF Resuming, Proceeds
      <4>2. CASE ~server.up
        BY <3>5, <4>2 DEF Resuming, Paused, SaveOff
      <4> QED BY <4>1, <4>2
    <3>6. CASE Flush
      <4>1. NoPause
        BY <3>6 DEF NoPause, Flush
      <4> QED BY <1>1, <2>1, <3>6, <4>1, PassResumes, FlushMoves
    <3>7. CASE SaveOn
      <4>1. server' = [server EXCEPT !.saves = server.saves \/ server.up]
        BY <3>7 DEF SaveOn
      <4> QED BY <4>1 DEF Resuming, Paused, Stores
    <3>8. CASE Retain
      <4>1. NoPause
        BY <3>8 DEF NoPause, Retain
      <4> QED BY <1>1, <2>1, <3>8, <4>1, PassResumes, RetainMoves, RetainNames
    <3>9. CASE PassCommit
      <4>1. NoPause /\ Active(Pass) /\ Now(Pass) = "commit"
        BY <3>9 DEF NoPause, PassCommit, At, Now
      <4> QED BY <1>1, <2>1, <4>1, PassResumes
    <3> QED BY <1>2, <2>3, <3>2, <3>3, <3>4, <3>5, <3>6, <3>7, <3>8, <3>9, Acting, TaskAssumption
  <2> QED BY <2>2, <2>3
<1>3. ASSUME NEW c \in Client, NEW op \in Op \ {"none", "scheduled"}, NEW b \in Backup \cup {0},
             NEW v \in Version \cup {0}, Begin(c, op, b, v)
      PROVE  Resuming'
  <2>1. Others(c) /\ c # Pass /\ server' = server /\ faults' = faults
    BY <1>3, BeginMoves, TaskAssumption DEF Begin
  <2> QED BY <1>1, <2>1, OthersResume DEF Others, NoPause
<1>4. CASE SetPolicy \/ TimePasses
  BY <1>4 DEF SetPolicy, TimePasses, storeVars, Resuming, Paused, Active, Resumes
<1>5. CASE PassBegins
  BY <1>5 DEF PassBegins, Resuming, Paused
<1>6. CASE Power \/ Save
  <2>1. Kept(Pass) /\ faults' = faults
    BY <1>1, <1>6, PowerMoves, TearMoves DEF AllKept
  <2>2. NoPause
    BY <1>6, PowerMoves DEF ServerStarts, ServerStops, ServerSaves, NoPause, Stores
  <2> QED BY <1>1, <2>1, <2>2, OthersResume
<1>7. CASE Fault
  <2>1. faults' # 0
    BY <1>7, FaultAssumption DEF Fault, Stores
  <2> QED BY <2>1 DEF Resuming
<1> QED BY <1>2, <1>3, <1>4, <1>5, <1>6, <1>7 DEF Next, Acts
-----------------------------------------------------------------------------
(* Files and rows *)

\* The steps of others leave a task between the same file and row.
LEMMA OthersStanding ==
  ASSUME Tasks, NEW t \in Task, Others(t), NEW u \in Task \ {t}, NEW b
  PROVE  /\ Making(u, b)' <=> Making(u, b)
         /\ Made(u, b)' <=> Made(u, b)
         /\ Removing(u, b)' <=> Removing(u, b)
         /\ Settling(u, b)' <=> Settling(u, b)
         /\ task'[u].target = task[u].target /\ task'[u].doomed = task[u].doomed
BY Standing, KeptFields DEF Others

\* A step that changes neither what is stored, nor what its task has to do with it.
LEMMA AgreementSame ==
  ASSUME Tasks, Agreement, NEW t \in Task, Others(t), faults' = faults, file' = file,
         \A b \in Backup : backup'[b] = NoRow <=> backup[b] = NoRow,
         \A b \in Backup : /\ Making(t, b)' => Making(t, b)
                           /\ Made(t, b)' <=> Made(t, b)
                           /\ Removing(t, b)' <=> Removing(t, b)
                           /\ task'[t].target = b => task[t].target = b,
         task'[t].doomed \subseteq task[t].doomed,
         \A b \in Backup : Made(t, b) => task'[t].doomed = task[t].doomed
  PROVE  Agreement'
<1> SUFFICES ASSUME faults = 0, NEW b \in Backup
             PROVE  /\ Held(b)'
                    /\ \A u \in Task : Agrees(u, b)' /\ \A v \in Task : Apart(u, v, b)'
  BY DEF Agreement
<1>1. Held(b) /\ \A u \in Task : Agrees(u, b) /\ \A v \in Task : Apart(u, v, b)
  BY DEF Agreement
<1>2. \A u \in Task : /\ Making(u, b)' => Making(u, b)
                      /\ Made(u, b)' <=> Made(u, b)
                      /\ Removing(u, b)' <=> Removing(u, b)
                      /\ task'[u].target = b => task[u].target = b
  BY OthersStanding
<1>3. \A u \in Task : /\ task'[u].doomed \subseteq task[u].doomed
                      /\ Made(u, b) => task'[u].doomed = task[u].doomed
  BY OthersStanding
<1>4. Held(b)'
  BY <1>1, <1>2 DEF Held
<1>5. ASSUME NEW u \in Task PROVE Agrees(u, b)'
  BY <1>1, <1>2, <1>3 DEF Agrees
<1>6. ASSUME NEW u \in Task, NEW v \in Task PROVE Apart(u, v, b)'
  <2>1. Apart(u, v, b)
    BY <1>1
  <2> QED BY <1>2, <1>3, <2>1 DEF Apart
<1> QED BY <1>4, <1>5, <1>6

\* A task goes on, and has neither archived nor recorded nor removed anything.
LEMMA ProceedsSame ==
  ASSUME Tasks, NEW t \in Task, Proceeds(t), task'[t].doomed = task[t].doomed,
         Now(t) \notin {"archived", "record", "unlink"}, NEW b
  PROVE  /\ Making(t, b)' => Making(t, b)
         /\ Made(t, b)' <=> Made(t, b)
         /\ Removing(t, b)' <=> Removing(t, b)
         /\ task'[t].target = b => task[t].target = b
<1>1. /\ task[t].op \in Op \ {"none"} /\ <<Now(t), Now(t)'>> \in Edges[task[t].op]
      /\ Active(t) /\ Active(t)' /\ task'[t].op = task[t].op /\ task'[t].name = task[t].name
      /\ task'[t].target = task[t].target
  BY StepOf DEF Proceeds
<1>2. /\ Now(t)' \in {"check", "status", "saveOff", "flush", "archive", "archived"} =>
           Now(t) \in {"check", "status", "saveOff", "flush", "archive", "archived"}
      /\ Now(t)' \in {"record", "saveOn", "retain", "commit"} <=>
           Now(t) \in {"record", "saveOn", "retain", "commit"}
      /\ task[t].op = "delete" => Now(t)' # "finish" /\ Now(t) # "finish"
  BY <1>1 DEF Edges, Op
<1> QED BY <1>1, <1>2 DEF Making, Made, Removing, On

\* A task ends that neither holds an archive to record nor a row to remove.
LEMMA EndedSame ==
  ASSUME Tasks, Numbers, NEW t \in Task, Ended(t) \/ (t = Pass /\ GaveUp),
         Now(t) \notin {"record", "saveOn", "retain", "commit"},
         ~(task[t].op = "delete" /\ Now(t) = "finish"), NEW b \in Backup
  PROVE  /\ ~Making(t, b)' /\ ~Made(t, b)' /\ ~Made(t, b) /\ ~Removing(t, b)' /\ ~Removing(t, b)
         /\ task'[t].target = b => task[t].target = b
         /\ task'[t].doomed = {} /\ task[t].doomed = {}
<1>1. task[t].doomed = {}
  BY DEF Numbers, NumbersOf, On
<1>2. b # 0
  BY BackupAssumption DEF Backup
<1>3. CASE Ended(t)
  <2>1. ~Active(t)' /\ task'[t].target = 0 /\ task'[t].doomed = {}
    BY <1>3, NothingDone DEF Ended, Active
  <2> QED BY <1>1, <1>2, <2>1 DEF Making, Made, Removing, On
<1>4. CASE t = Pass /\ GaveUp
  <2>1. /\ task'[t].name = 0 /\ task'[t].op = "scheduled" /\ task'[t].target = task[t].target
        /\ task'[t].doomed = {} /\ task[t].op = "scheduled"
    BY <1>1, <1>4 DEF GaveUp, Carries, Tasks, OnCourse
  <2> QED BY <1>1, <1>2, <2>1 DEF Making, Made, Removing, On
<1> QED BY <1>3, <1>4

\* A step that touches neither files nor rows keeps them in agreement.
LEMMA AgreementPlain ==
  ASSUME Tasks, Numbers, Agreement, NEW t \in Task, Others(t), faults' = faults, file' = file,
         \A b \in Backup : backup'[b] = NoRow <=> backup[b] = NoRow,
         \/ /\ Proceeds(t) /\ task'[t].doomed = task[t].doomed
            /\ Now(t) \notin {"archived", "record", "unlink"}
         \/ /\ Errs(t) \/ Ended(t)
            /\ Now(t) \notin {"record", "saveOn", "retain", "commit"}
            /\ ~(task[t].op = "delete" /\ Now(t) = "finish")
  PROVE  Agreement'
<1>1. CASE /\ Proceeds(t) /\ task'[t].doomed = task[t].doomed
           /\ Now(t) \notin {"archived", "record", "unlink"}
  BY <1>1, ProceedsSame, AgreementSame
<1>2. CASE /\ Errs(t) \/ Ended(t)
           /\ Now(t) \notin {"record", "saveOn", "retain", "commit"}
           /\ ~(task[t].op = "delete" /\ Now(t) = "finish")
  <2>1. Ended(t) \/ (t = Pass /\ GaveUp)
    BY <1>2 DEF Errs
  <2>2. \A b \in Backup : /\ ~Making(t, b)' /\ ~Made(t, b)' /\ ~Made(t, b)
                          /\ ~Removing(t, b)' /\ ~Removing(t, b)
                          /\ task'[t].target = b => task[t].target = b
    BY <1>2, <2>1, EndedSame
  <2>3. task'[t].doomed \subseteq task[t].doomed
    <3>1. CASE Ended(t)
      BY <3>1, NothingDone DEF Ended
    <3>2. CASE t = Pass /\ GaveUp
      BY <3>2 DEF GaveUp, Carries
    <3> QED BY <2>1, <3>1, <3>2
  <2> QED BY <2>2, <2>3, AgreementSame
<1> QED BY <1>1, <1>2

\* Two tasks do not make the same backup.
LEMMA OneMaker ==
  ASSUME Numbers, NEW t \in Task, NEW u \in Task, NEW b \in Backup,
         Making(t, b) \/ Made(t, b), Making(u, b) \/ Made(u, b)
  PROVE  t = u
<1>1. task[t].name = b /\ task[u].name = b /\ b # 0
  BY BackupAssumption DEF Making, Made, Backup
<1> QED BY <1>1 DEF Numbers

\* A new archive is one that its task will record.
LEMMA ArchivedAgreement ==
  ASSUME Stores, Tasks, Numbers, Agreement, NEW t \in Task, ArchiveEnds(t), backup' = backup, faults' = faults
  PROVE  Agreement'
<1>1. /\ Others(t) /\ Active(t) /\ Now(t) = "archived" /\ task[t].data # Missing
      /\ Proceeds(t) /\ task'[t].doomed = task[t].doomed
  BY ArchiveEndsMoves
<1> DEFINE n == task[t].name
<1>2. file' = [file EXCEPT ![n] = task[t].data]
  BY DEF ArchiveEnds
<1>3. /\ task[t].op \in Op \ {"none"} /\ <<Now(t), Now(t)'>> \in Edges[task[t].op]
      /\ Active(t)' /\ task'[t].op = task[t].op /\ task'[t].name = n /\ task'[t].target = task[t].target
      /\ task[t].op \in Makers /\ task[t].doomed = {}
  <2>1. task[t].op \in Op \ {"none"} /\ Now(t) \in StepsOf[task[t].op]
    BY <1>1, StepOf
  <2>2. task[t].op \in Makers
    BY <1>1, <2>1 DEF StepsOf, Op, Makers
  <2>3. task[t].doomed = {}
    BY <1>1 DEF Numbers, NumbersOf, On
  <2> QED BY <1>1, <2>1, <2>2, <2>3 DEF Proceeds
<1>4. Now(t)' \in {"record", "saveOn", "retain"}
  BY <1>1, <1>3 DEF Edges, Op
<1>5. n \in Backup
  BY <1>1, <1>3, NamedUnlessAbandoned DEF On, Step
<1>6. /\ Making(t, n) /\ Made(t, n)'
      /\ \A b : /\ ~Removing(t, b) /\ ~Removing(t, b)' /\ ~Made(t, b) /\ ~Making(t, b)'
                /\ Made(t, b)' => b = n
  BY <1>1, <1>3, <1>4 DEF Making, Made, Removing, On, Makers
<1> HIDE DEF n
<1> SUFFICES ASSUME faults = 0, NEW b \in Backup
             PROVE  /\ Held(b)'
                    /\ \A u \in Task : Agrees(u, b)' /\ \A v \in Task : Apart(u, v, b)'
  BY DEF Agreement
<1>7. /\ Held(b) /\ \A u \in Task : Agrees(u, b) /\ \A v \in Task : Apart(u, v, b)
      /\ \A u \in Task : Apart(t, u, n)
  BY <1>5 DEF Agreement
<1>8. file'[n] # Missing /\ (b # n => file'[b] = file[b])
  BY <1>1, <1>2, <1>5 DEF Stores
<1>9. \A u \in Task \ {t} : /\ Making(u, b)' <=> Making(u, b)
                            /\ Made(u, b)' <=> Made(u, b)
                            /\ Removing(u, b)' <=> Removing(u, b)
                            /\ task'[u].target = task[u].target /\ task'[u].doomed = task[u].doomed
  BY <1>1, OthersStanding
<1>10. Held(b)'
  BY <1>6, <1>7, <1>8, <1>9 DEF Held
<1>11. ASSUME NEW u \in Task PROVE Agrees(u, b)'
  <2>1. CASE u = t
    <3>1. Made(t, b)' => backup[b] = NoRow
      BY <1>6, <1>7 DEF Agrees
    <3> QED BY <1>6, <1>8, <2>1, <3>1 DEF Agrees
  <2>2. CASE u # t
    <3>1. Making(u, b) \/ Made(u, b) => b # n
      BY <1>5, <1>6, <2>2, OneMaker
    <3>2. Removing(u, b) => b # n
      <4>1. Apart(t, u, n)
        BY <1>7
      <4> QED BY <1>6, <2>2, <4>1 DEF Apart, Removing
    <3> QED BY <1>7, <1>8, <1>9, <2>2, <3>1, <3>2 DEF Agrees
  <2> QED BY <2>1, <2>2
<1>12. ASSUME NEW u \in Task, NEW v \in Task PROVE Apart(u, v, b)'
  <2>1. Apart(u, v, b)
    BY <1>7
  <2>2. task'[v].target = task[v].target /\ task'[v].doomed = task[v].doomed
    BY <1>1, <1>3, <1>9
  <2>3. Making(u, b)' \/ Made(u, b)' => Making(u, b) \/ Made(u, b)
    BY <1>6, <1>9
  <2> QED BY <2>1, <2>2, <2>3 DEF Apart
<1> QED BY <1>10, <1>11, <1>12

\* An archive that a deletion removed is one whose row it will remove.
LEMMA UnlinkedAgreement ==
  ASSUME Stores, Tasks, Numbers, Agreement, NEW t \in Task, Unlink(t), backup' = backup, faults' = faults
  PROVE  Agreement'
<1>1. Others(t) /\ Active(t) /\ Now(t) = "unlink"
  BY UnlinkMoves
<1>2. CASE file[task[t].target] = Missing /\ Errs(t) /\ file' = file
  BY <1>1, <1>2, AgreementPlain
<1>3. CASE /\ file[task[t].target] # Missing /\ Proceeds(t) /\ Carries(t)
           /\ file' = [file EXCEPT ![task[t].target] = Missing]
  <2> DEFINE n == task[t].target
  <2>1. /\ task[t].op = "delete" /\ Now(t)' = "finish" /\ Active(t)' /\ task'[t].op = "delete"
        /\ task'[t].target = n /\ task'[t].name = task[t].name /\ task'[t].doomed = {}
        /\ task[t].doomed = {}
    <3>1. task[t].op = "delete"
      BY <1>1, StepOf DEF StepsOf, Op
    <3>2. Now(t)' = "finish"
      BY <1>1, <1>3, <3>1 DEF Proceeds, Edges
    <3>3. task[t].doomed = {}
      BY <1>1 DEF Numbers, NumbersOf, On
    <3> QED BY <1>3, <3>1, <3>2, <3>3 DEF Proceeds, Carries
  <2>2. n \in Backup
    <3>1. On(t, Swappers \cup {"delete"}, Step)
      BY <1>1, <2>1 DEF On, Step
    <3> QED BY <3>1, Targets
  <2>3. \A b : /\ ~Making(t, b)' /\ ~Made(t, b)' /\ ~Made(t, b) /\ ~Removing(t, b)
               /\ Removing(t, b)' => b = n
    BY <1>1, <2>1 DEF Making, Made, Removing, On
  <2>4. Removing(t, n)'
    BY <2>1 DEF Removing, On
  <2>5. file' = [file EXCEPT ![n] = Missing]
    BY <1>3
  <2>6. task'[t].target = n /\ task'[t].doomed = task[t].doomed /\ n = task[t].target
    BY <2>1
  <2> HIDE DEF n
  <2> SUFFICES ASSUME faults = 0, NEW b \in Backup
               PROVE  /\ Held(b)'
                      /\ \A u \in Task : Agrees(u, b)' /\ \A v \in Task : Apart(u, v, b)'
    BY DEF Agreement
  <2>7. Held(b) /\ \A u \in Task : Agrees(u, b) /\ \A v \in Task : Apart(u, v, b)
    BY DEF Agreement
  <2>8. file'[n] = Missing /\ (b # n => file'[b] = file[b])
    BY <2>2, <2>5 DEF Stores
  <2>9. \A u \in Task \ {t} : /\ Making(u, b)' <=> Making(u, b)
                              /\ Made(u, b)' <=> Made(u, b)
                              /\ Removing(u, b)' <=> Removing(u, b)
                              /\ task'[u].target = task[u].target /\ task'[u].doomed = task[u].doomed
    BY <1>1, OthersStanding
  <2>10. Held(b)'
    BY <2>3, <2>4, <2>7, <2>8, <2>9 DEF Held
  <2>11. ASSUME NEW u \in Task PROVE Agrees(u, b)'
    <3>1. CASE u = t
      BY <2>3, <2>8, <3>1 DEF Agrees
    <3>2. CASE u # t
      <4>1. Making(u, b) \/ Made(u, b) => b # n
        <5>1. Apart(u, t, b)
          BY <2>7
        <5> QED BY <2>6, <5>1 DEF Apart
      <4> QED BY <2>7, <2>8, <2>9, <3>2, <4>1 DEF Agrees
    <3> QED BY <3>1, <3>2
  <2>12. ASSUME NEW u \in Task, NEW v \in Task PROVE Apart(u, v, b)'
    <3>1. Apart(u, v, b)
      BY <2>7
    <3>2. task'[v].target = task[v].target /\ task'[v].doomed = task[v].doomed
      BY <2>6, <2>9
    <3>3. Making(u, b)' \/ Made(u, b)' => Making(u, b) \/ Made(u, b)
      BY <2>3, <2>9
    <3> QED BY <3>1, <3>2, <3>3 DEF Apart
  <2> QED BY <2>10, <2>11, <2>12
<1> QED BY <1>2, <1>3, UnlinkMoves

\* A task that has made a backup lets go of it: the row is there, or the file
\* is gone.
LEMMA LetGoAgreement ==
  ASSUME Stores, Tasks, Numbers, Agreement, NEW t \in Task, Others(t), faults' = faults,
         NEW n \in Backup, Made(t, n), task[t].doomed = {},
         \A b : ~Making(t, b)' /\ ~Made(t, b)' /\ ~Removing(t, b)' /\ ~Removing(t, b),
         task'[t].target \in {0, task[t].target}, task'[t].doomed = {},
         \A b \in Backup \ {n} : file'[b] = file[b] /\ backup'[b] = backup[b],
         \/ backup'[n] # NoRow /\ file'[n] = file[n]
         \/ backup'[n] = backup[n] /\ file'[n] = Missing
  PROVE  Agreement'
<1> SUFFICES ASSUME faults = 0, NEW b \in Backup
             PROVE  /\ Held(b)'
                    /\ \A u \in Task : Agrees(u, b)' /\ \A v \in Task : Apart(u, v, b)'
  BY DEF Agreement
<1>1. /\ Held(b) /\ \A u \in Task : Agrees(u, b) /\ \A v \in Task : Apart(u, v, b)
      /\ Agrees(t, n)
  BY DEF Agreement
<1>2. \A u \in Task \ {t} : /\ Making(u, b)' <=> Making(u, b)
                            /\ Made(u, b)' <=> Made(u, b)
                            /\ Removing(u, b)' <=> Removing(u, b)
                            /\ task'[u].target = task[u].target /\ task'[u].doomed = task[u].doomed
  BY OthersStanding
<1>3. file[n] # Missing /\ backup[n] = NoRow
  BY <1>1 DEF Agrees
<1>4. Made(t, b) => b = n
  BY DEF Made
<1>5. Held(b)'
  BY <1>1, <1>2, <1>3, <1>4 DEF Held
<1>6. ASSUME NEW u \in Task PROVE Agrees(u, b)'
  <2>1. CASE u = t
    BY <2>1 DEF Agrees
  <2>2. CASE u # t
    <3>1. Making(u, b) \/ Made(u, b) => b # n
      BY <2>2, OneMaker
    <3>2. Removing(u, b) /\ b = n => file'[b] = Missing
      BY <1>1, <1>3 DEF Agrees
    <3> QED BY <1>1, <1>2, <2>2, <3>1, <3>2 DEF Agrees
  <2> QED BY <2>1, <2>2
<1>7. ASSUME NEW u \in Task, NEW v \in Task PROVE Apart(u, v, b)'
  <2>1. Apart(u, v, b) /\ b # 0
    BY <1>1, BackupAssumption DEF Backup
  <2>2. (task'[v].target = b => task[v].target = b) /\ (b \in task'[v].doomed => b \in task[v].doomed)
    BY <1>2, <2>1
  <2>3. Making(u, b)' \/ Made(u, b)' => Making(u, b) \/ Made(u, b)
    BY <1>2
  <2> QED BY <2>1, <2>2, <2>3 DEF Apart
<1> QED BY <1>5, <1>6, <1>7

\* A row is inserted for an archive, or the archive is removed.
LEMMA RecordedAgreement ==
  ASSUME Stores, Tasks, Numbers, Agreement, NEW t \in Client, Record(t) \/ RecordRefused(t), faults' = faults
  PROVE  Agreement'
<1> DEFINE n == task[t].name
<1>1. /\ t \in Task /\ t # Pass /\ Others(t) /\ Active(t) /\ Now(t) = "record"
      /\ Ended(t) \/ (task[t].op # "create" /\ Proceeds(t) /\ Carries(t))
  BY RecordMoves, RecordRefusedMoves, TaskAssumption DEF Task
<1>2. task[t].op \in {"create", "update", "restore"} /\ task[t].doomed = {}
  <2>1. task[t].doomed = {}
    BY <1>1 DEF Numbers, NumbersOf, On
  <2> QED BY <1>1, <2>1, StepOf DEF StepsOf, Op
<1>3. n \in Backup
  BY <1>1, <1>2, NamedUnlessAbandoned DEF On, Step, Makers
<1>4. Made(t, n) /\ \A b : ~Removing(t, b)
  BY <1>1, <1>2 DEF Made, Removing, On
<1>5. /\ \A b : ~Making(t, b)' /\ ~Made(t, b)' /\ ~Removing(t, b)'
      /\ task'[t].target \in {0, task[t].target} /\ task'[t].doomed = {}
  <2>1. CASE Ended(t)
    <3>1. ~Active(t)' /\ task'[t].target = 0 /\ task'[t].doomed = {}
      BY <2>1, NothingDone DEF Ended, Active
    <3> QED BY <3>1 DEF Making, Made, Removing, On
  <2>2. CASE task[t].op # "create" /\ Proceeds(t) /\ Carries(t)
    <3>1. /\ Now(t)' \in {"fetch", "unpack"} /\ task'[t].op \in {"update", "restore"}
          /\ task'[t].target = task[t].target /\ task'[t].doomed = {}
      BY <1>1, <1>2, <2>2 DEF Proceeds, Carries, Edges
    <3> QED BY <3>1 DEF Making, Made, Removing, On
  <2> QED BY <1>1, <2>1, <2>2
<1>6. /\ \A b \in Backup \ {n} : file'[b] = file[b] /\ backup'[b] = backup[b]
      /\ \/ backup'[n] # NoRow /\ file'[n] = file[n]
         \/ backup'[n] = backup[n] /\ file'[n] = Missing
  <2>1. CASE Record(t)
    <3>1. RowOf(t) # NoRow
      BY <1>1, RowTyped
    <3> QED BY <1>3, <2>1, <3>1 DEF Record, Stores
  <2>2. CASE RecordRefused(t)
    BY <1>3, <2>2 DEF RecordRefused, rowVars, Stores
  <2> QED BY <2>1, <2>2
<1> HIDE DEF n
<1> QED BY <1>1, <1>2, <1>3, <1>4, <1>5, <1>6, LetGoAgreement

\* The last commit of a deletion.
LEMMA DeletedAgreement ==
  ASSUME Stores, Tasks, Numbers, Agreement, NEW t \in Client, Finish(t), task[t].op = "delete",
         faults' = faults
  PROVE  Agreement'
<1> DEFINE n == task[t].target
<1>1. /\ t \in Task /\ Active(t) /\ Now(t) = "finish" /\ Others(t) /\ Ended(t) /\ file' = file
      /\ backup' = [backup EXCEPT ![n] = NoRow]
  BY FinishRows, LastMoves DEF Finish
<1>2. task[t].doomed = {}
  BY <1>1 DEF Numbers, NumbersOf, On
<1>3. n \in Backup
  <2>1. On(t, Swappers \cup {"delete"}, Step)
    BY <1>1 DEF On, Step
  <2> QED BY <1>1, <2>1, Targets
<1>4. /\ Removing(t, n) /\ \A b : ~Made(t, b) /\ ~Making(t, b) /\ (Removing(t, b) => b = n)
  BY <1>1, <1>2 DEF Making, Made, Removing, On
<1>5. \A b : ~Making(t, b)' /\ ~Made(t, b)' /\ ~Removing(t, b)'
  BY <1>1, NothingDone DEF Ended, Active, Making, Made, Removing, On
<1>6. task'[t].target = 0 /\ task'[t].doomed = {}
  BY <1>1, NothingDone DEF Ended
<1> HIDE DEF n
<1> SUFFICES ASSUME faults = 0, NEW b \in Backup
             PROVE  /\ Held(b)'
                    /\ \A u \in Task : Agrees(u, b)' /\ \A v \in Task : Apart(u, v, b)'
  BY DEF Agreement
<1>7. /\ Held(b) /\ \A u \in Task : Agrees(u, b) /\ \A v \in Task : Apart(u, v, b)
      /\ Agrees(t, n)
  BY <1>1, <1>3 DEF Agreement
<1>8. backup'[n] = NoRow /\ (b # n => backup'[b] = backup[b]) /\ file[n] = Missing
  BY <1>1, <1>3, <1>4, <1>7 DEF Stores, Agrees
<1>9. \A u \in Task \ {t} : /\ Making(u, b)' <=> Making(u, b)
                            /\ Made(u, b)' <=> Made(u, b)
                            /\ Removing(u, b)' <=> Removing(u, b)
                            /\ task'[u].target = task[u].target /\ task'[u].doomed = task[u].doomed
  BY <1>1, OthersStanding
<1>10. Held(b)'
  BY <1>1, <1>4, <1>7, <1>8, <1>9 DEF Held
<1>11. ASSUME NEW u \in Task PROVE Agrees(u, b)'
  BY <1>1, <1>5, <1>7, <1>8, <1>9 DEF Agrees
<1>12. ASSUME NEW u \in Task, NEW v \in Task PROVE Apart(u, v, b)'
  <2>1. Apart(u, v, b) /\ b # 0
    BY <1>7, BackupAssumption DEF Backup
  <2>2. (task'[v].target = b => task[v].target = b) /\ (b \in task'[v].doomed => b \in task[v].doomed)
    BY <1>6, <1>9, <2>1
  <2>3. Making(u, b)' \/ Made(u, b)' => Making(u, b) \/ Made(u, b)
    BY <1>5, <1>9
  <2> QED BY <2>1, <2>2, <2>3 DEF Apart
<1> QED BY <1>10, <1>11, <1>12

\* An archive that has expired is one whose row the pass will remove.
LEMMA RetainedAgreement ==
  ASSUME Stores, Tasks, Numbers, Agreement, Retain, backup' = backup, faults' = faults
  PROVE  Agreement'
<1> DEFINE n == task[Pass].name
           doomed == task'[Pass].doomed
<1>1. /\ n \in Backup /\ Pass \in Task /\ Others(Pass) /\ Active(Pass) /\ Now(Pass) = "retain"
      /\ task[Pass].op = "scheduled" /\ Proceeds(Pass)
      /\ doomed = {b \in Expired : file[b] # Missing}
      /\ file' = [b \in Backup |-> IF b \in doomed THEN Missing ELSE file[b]]
  BY RetainNames, RetainMoves DEF Task
<1>2. task[Pass].doomed = {}
  BY <1>1 DEF Numbers, NumbersOf, On
<1>3. /\ Now(Pass)' = "commit" /\ Active(Pass)' /\ task'[Pass].op = "scheduled"
      /\ task'[Pass].name = n /\ task'[Pass].target = task[Pass].target
  BY <1>1 DEF Proceeds, Edges
<1>4. doomed \subseteq Rows \cup {n} /\ \A b \in doomed : file[b] # Missing
  BY <1>1 DEF Expired
<1>5. /\ Made(Pass, n) /\ Made(Pass, n)'
      /\ \A b : /\ ~Making(Pass, b)' /\ (Made(Pass, b)' => b = n) /\ (Made(Pass, b) => b = n)
                /\ ~Removing(Pass, b) /\ (Removing(Pass, b)' <=> b \in doomed)
  BY <1>1, <1>2, <1>3 DEF Making, Made, Removing, On
<1> HIDE DEF n, doomed
<1> SUFFICES ASSUME faults = 0, NEW b \in Backup
             PROVE  /\ Held(b)'
                    /\ \A u \in Task : Agrees(u, b)' /\ \A v \in Task : Apart(u, v, b)'
  BY DEF Agreement
<1>6. /\ Held(b) /\ \A u \in Task : Agrees(u, b) /\ \A v \in Task : Apart(u, v, b)
      /\ Agrees(Pass, n)
  BY <1>1 DEF Agreement
<1>7. file'[b] = IF b \in doomed THEN Missing ELSE file[b]
  BY <1>1
<1>8. \A u \in Task \ {Pass} : /\ Making(u, b)' <=> Making(u, b)
                               /\ Made(u, b)' <=> Made(u, b)
                               /\ Removing(u, b)' <=> Removing(u, b)
                               /\ task'[u].target = task[u].target /\ task'[u].doomed = task[u].doomed
  BY <1>1, OthersStanding
<1>9. ASSUME NEW u \in Task \ {Pass}, Making(u, b) \/ Made(u, b) PROVE b \notin doomed
  <2>1. backup[b] = NoRow
    BY <1>6, <1>9 DEF Agrees
  <2>2. b # n
    BY <1>1, <1>5, <1>9, OneMaker
  <2> QED BY <1>4, <2>1, <2>2 DEF Rows
<1>10. Held(b)'
  <2>1. file'[b] # Missing /\ backup[b] = NoRow => \E u \in Task : Made(u, b)'
    BY <1>1, <1>5, <1>6, <1>7, <1>8 DEF Held
  <2>2. file'[b] = Missing /\ backup[b] # NoRow => \E u \in Task : Removing(u, b)'
    BY <1>1, <1>5, <1>6, <1>7, <1>8 DEF Held
  <2> QED BY <2>1, <2>2 DEF Held
<1>11. ASSUME NEW u \in Task PROVE Agrees(u, b)'
  <2>1. CASE u = Pass
    <3>1. file[n] # Missing /\ backup[n] = NoRow
      BY <1>2, <1>5, <1>6 DEF Agrees
    <3>2. doomed = task'[Pass].doomed
      BY DEF doomed
    <3> QED BY <1>5, <1>7, <2>1, <3>1, <3>2 DEF Agrees
  <2>2. CASE u # Pass
    BY <1>6, <1>7, <1>8, <1>9, <2>2 DEF Agrees
  <2> QED BY <2>1, <2>2
<1>12. ASSUME NEW u \in Task, NEW v \in Task PROVE Apart(u, v, b)'
  <2>1. Apart(u, v, b)
    BY <1>6
  <2>2. task'[v].target = task[v].target
    BY <1>3, <1>8
  <2>3. Making(u, b)' \/ Made(u, b)' => Making(u, b) \/ Made(u, b)
    BY <1>5, <1>8
  <2>4. CASE v # Pass
    BY <1>8, <2>1, <2>2, <2>3, <2>4 DEF Apart
  <2>5. CASE v = Pass
    <3>1. doomed = task'[Pass].doomed
      BY DEF doomed
    <3> QED BY <1>9, <2>1, <2>2, <2>3, <2>5, <3>1 DEF Apart
  <2> QED BY <2>4, <2>5
<1> QED BY <1>10, <1>11, <1>12

\* The commit of the pass inserts and removes the rows of its archives.
LEMMA CommittedAgreement ==
  ASSUME Stores, Tasks, Numbers, Agreement, PassCommit, faults' = faults
  PROVE  Agreement'
<1> DEFINE n == task[Pass].name
           doomed == task[Pass].doomed
<1>1. /\ Pass \in Task /\ Active(Pass) /\ Now(Pass) = "commit" /\ Others(Pass) /\ Ended(Pass)
      /\ file' = file /\ task[Pass].op = "scheduled"
  <2>1. Pass \in Task /\ Active(Pass) /\ Now(Pass) = "commit" /\ task[Pass].op = "scheduled"
    BY DEF Task, PassCommit, At, Now, Tasks, OnCourse
  <2> QED BY <2>1, LastMoves DEF PassCommit
<1>2. \A b : /\ ~Making(Pass, b)' /\ ~Made(Pass, b)' /\ ~Removing(Pass, b)'
             /\ (Made(Pass, b) <=> b = n) /\ ~Making(Pass, b) /\ (Removing(Pass, b) <=> b \in doomed)
  BY <1>1, NothingDone DEF Ended, Active, Making, Made, Removing, On
<1>3. task'[Pass].target = 0 /\ task'[Pass].doomed = {}
  BY <1>1, NothingDone DEF Ended
<1>4. RowOf(Pass) # NoRow
  BY <1>1, RowTyped
<1>5. backup' = [b \in Backup |-> IF b \in doomed THEN NoRow
                                  ELSE IF b = n THEN RowOf(Pass) ELSE backup[b]]
  BY DEF PassCommit
<1>6. doomed = task[Pass].doomed
  OBVIOUS
<1> HIDE DEF n, doomed
<1> SUFFICES ASSUME faults = 0, NEW b \in Backup
             PROVE  /\ Held(b)'
                    /\ \A u \in Task : Agrees(u, b)' /\ \A v \in Task : Apart(u, v, b)'
  BY DEF Agreement
<1>7. Held(b) /\ \A u \in Task : Agrees(u, b) /\ \A v \in Task : Apart(u, v, b)
  BY DEF Agreement
<1>8. backup'[b] = IF b \in doomed THEN NoRow ELSE IF b = n THEN RowOf(Pass) ELSE backup[b]
  BY <1>5
<1>9. \A u \in Task \ {Pass} : /\ Making(u, b)' <=> Making(u, b)
                               /\ Made(u, b)' <=> Made(u, b)
                               /\ Removing(u, b)' <=> Removing(u, b)
                               /\ task'[u].target = task[u].target /\ task'[u].doomed = task[u].doomed
  BY <1>1, OthersStanding
<1>10. /\ b \in doomed => file[b] = Missing
       /\ b = n /\ b \notin doomed => file[b] # Missing
  <2>1. Agrees(Pass, b)
    BY <1>1, <1>7
  <2> QED BY <1>2, <1>6, <2>1 DEF Agrees
<1>11. Held(b)'
  <2>1. file[b] # Missing /\ backup'[b] = NoRow => \E u \in Task \ {Pass} : Made(u, b)
    BY <1>2, <1>4, <1>7, <1>8, <1>10 DEF Held
  <2>2. file[b] = Missing /\ backup'[b] # NoRow => \E u \in Task \ {Pass} : Removing(u, b)
    BY <1>2, <1>7, <1>8, <1>10 DEF Held
  <2> QED BY <1>1, <1>9, <2>1, <2>2 DEF Held
<1>12. ASSUME NEW u \in Task PROVE Agrees(u, b)'
  <2>1. CASE u = Pass
    BY <1>2, <2>1 DEF Agrees
  <2>2. CASE u # Pass
    <3>1. (Making(u, b) \/ Made(u, b)) => b # n
      BY <1>1, <1>2, <2>2, OneMaker
    <3> QED BY <1>1, <1>7, <1>8, <1>9, <2>2, <3>1 DEF Agrees
  <2> QED BY <2>1, <2>2
<1>13. ASSUME NEW u \in Task, NEW v \in Task PROVE Apart(u, v, b)'
  <2>1. Apart(u, v, b) /\ b # 0
    BY <1>7, BackupAssumption DEF Backup
  <2>2. (task'[v].target = b => task[v].target = b) /\ (b \in task'[v].doomed => b \in task[v].doomed)
    BY <1>3, <1>9, <2>1
  <2>3. Making(u, b)' \/ Made(u, b)' => Making(u, b) \/ Made(u, b)
    BY <1>2, <1>9
  <2> QED BY <2>1, <2>2, <2>3 DEF Apart
<1> QED BY <1>11, <1>12, <1>13

\* A task that begins works on a backup that is new, or on one that is listed.
LEMMA StartsAgreement ==
  ASSUME Stores, Tasks, Numbers, Agreement, NEW t \in Task, Others(t),
         NEW op, NEW b0 \in Backup \cup {0}, NEW name, NEW loaded, NEW wanted,
         Starts(t, op, b0, name, loaded, wanted),
         b0 # 0 => b0 \in Rows, name = 0 \/ name > made,
         backup' = backup, file' = file, faults' = faults
  PROVE  Agreement'
<1>1. made \in Nat
  BY BackupAssumption DEF Stores
<1>2. /\ ~Active(t) /\ Active(t)' /\ task'[t].name = name /\ task'[t].target = b0
      /\ task'[t].doomed = {} /\ Now(t)' \in {"status", "unlink", "look", "check"}
  BY DEF Starts
<1>3. task[t].doomed = {}
  BY <1>2 DEF Numbers, NumbersOf, On
<1> SUFFICES ASSUME faults = 0, NEW b \in Backup
             PROVE  /\ Held(b)'
                    /\ \A u \in Task : Agrees(u, b)' /\ \A v \in Task : Apart(u, v, b)'
  BY DEF Agreement
<1>4. Held(b) /\ \A u \in Task : Agrees(u, b) /\ \A v \in Task : Apart(u, v, b)
  BY DEF Agreement
<1>5. b \in Nat \ {0}
  BY BackupAssumption DEF Backup
<1>6. /\ ~Making(t, b) /\ ~Made(t, b) /\ ~Removing(t, b) /\ ~Made(t, b)' /\ ~Removing(t, b)'
      /\ Making(t, b)' => b > made
  BY <1>1, <1>2, <1>3, <1>5 DEF Making, Made, Removing, On
<1>7. \A u \in Task \ {t} : /\ Making(u, b)' <=> Making(u, b)
                            /\ Made(u, b)' <=> Made(u, b)
                            /\ Removing(u, b)' <=> Removing(u, b)
                            /\ task'[u].target = task[u].target /\ task'[u].doomed = task[u].doomed
  BY OthersStanding
<1>8. b > made => /\ file[b] = Missing /\ backup[b] = NoRow
                  /\ \A u \in Task : task[u].target # b /\ b \notin task[u].doomed
  BY <1>1, <1>5 DEF Numbers, NumbersOf, RowNumbered, FileNumbered
<1>9. Held(b)'
  BY <1>4, <1>6, <1>7 DEF Held
<1>10. ASSUME NEW u \in Task PROVE Agrees(u, b)'
  BY <1>4, <1>6, <1>7, <1>8 DEF Agrees
<1>11. ASSUME NEW u \in Task, NEW v \in Task PROVE Apart(u, v, b)'
  <2>1. Apart(u, v, b) /\ Agrees(u, b)
    BY <1>4
  <2>2. ASSUME Making(u, b) \/ Made(u, b)
        PROVE  task'[v].target # b /\ (v # u => b \notin task'[v].doomed)
    <3>1. CASE v = t
      <4>1. backup[b] = NoRow
        BY <2>1, <2>2 DEF Agrees
      <4> QED BY <1>2, <1>5, <3>1, <4>1 DEF Rows
    <3>2. CASE v # t
      BY <1>7, <2>1, <2>2, <3>2 DEF Apart
    <3> QED BY <3>1, <3>2
  <2>3. ASSUME u = t, b > made
        PROVE  task'[v].target # b /\ (v # u => b \notin task'[v].doomed)
    <3>1. v = t => b0 # b
      BY <1>5, <1>8, <2>3 DEF Rows
    <3> QED BY <1>2, <1>7, <1>8, <2>3, <3>1
  <2>4. Making(u, b)' \/ Made(u, b)' => Making(u, b) \/ Made(u, b) \/ (u = t /\ b > made)
    BY <1>6, <1>7
  <2> QED BY <2>2, <2>3, <2>4 DEF Apart
<1> QED BY <1>9, <1>10, <1>11

\* A write to the directory keeps the agreement.
LEMMA AllKeptAgreement ==
  ASSUME Tasks, Agreement, AllKept, backup' = backup, file' = file, faults' = faults
  PROVE  Agreement'
<1>1. Pass \in Task /\ Others(Pass) /\ Kept(Pass)
  BY DEF Task, AllKept, Others
<1>2. /\ \A b : /\ Making(Pass, b)' <=> Making(Pass, b)
                /\ Made(Pass, b)' <=> Made(Pass, b)
                /\ Removing(Pass, b)' <=> Removing(Pass, b)
      /\ task'[Pass].target = task[Pass].target /\ task'[Pass].doomed = task[Pass].doomed
  BY <1>1, Standing, KeptFields
<1> QED BY <1>1, <1>2, AgreementSame

\* The steps of the tasks keep files and rows in agreement.
LEMMA ActsAgreement ==
  ASSUME Stores, Tasks, Numbers, Agreement, NEW t, Acts(t)
  PROVE  Agreement'
<1>1. /\ t \in Task /\ faults' = faults /\ Others(t)
      /\ root \in Content \cup {Missing} /\ file \in [Backup -> Content \cup {Missing}]
  BY Acting, OthersKept DEF Stores
<1>2. CASE (ArchiveBegins(t) \/ ArchiveFails(t) \/ SwapOut(t) \/ SwapIn(t)) /\ UNCHANGED rowVars
  <2>1. file' = file /\ backup' = backup
    BY <1>2 DEF ArchiveBegins, ArchiveFails, SwapOut, SwapIn, rowVars
  <2> QED BY <1>1, <1>2, <2>1, AgreementPlain, ArchiveBeginsMoves, ArchiveFailsMoves, SwapOutMoves,
             SwapInMoves DEF Carries
<1>3. CASE ArchiveEnds(t) /\ UNCHANGED rowVars
  BY <1>1, <1>3, ArchivedAgreement DEF rowVars
<1>4. CASE Unpack(t) /\ UNCHANGED rowVars
  <2>1. file' = file /\ backup' = backup /\ task[t].target \in Backup
    BY <1>1, <1>4, UnpackTargets DEF Unpack, rowVars
  <2> QED BY <1>1, <1>4, <2>1, AgreementPlain, UnpackMoves
<1>5. CASE Unlink(t) /\ UNCHANGED rowVars
  BY <1>1, <1>5, UnlinkedAgreement DEF rowVars
<1>6. CASE Check(t) \/ Remove(t) \/ Look(t)
  <2>1. file' = file /\ backup' = backup
    BY <1>6 DEF Check, Remove, Look, rowVars
  <2> QED BY <1>1, <1>6, <2>1, AgreementPlain, CheckMoves, RemoveMoves, LookMoves DEF Carries
<1>7. CASE t \in Client /\ (Record(t) \/ RecordRefused(t))
  BY <1>1, <1>7, RecordedAgreement
<1>8. CASE t \in Client /\ Fetch(t)
  <2>1. file' = file
    BY <1>8 DEF Fetch
  <2>2. \A b \in Backup : backup'[b] = NoRow <=> backup[b] = NoRow
    BY <1>8, FetchMoves, Settles DEF Stores, Numbers
  <2> QED BY <1>1, <1>8, <2>1, <2>2, AgreementPlain, FetchMoves DEF Carries
<1>9. CASE t \in Client /\ Finish(t)
  <2>1. CASE task[t].op = "delete"
    BY <1>1, <1>9, <2>1, DeletedAgreement
  <2>2. CASE task[t].op # "delete"
    <3>1. \A b \in Backup : backup'[b] = NoRow <=> backup[b] = NoRow
      BY <1>9, <2>2, FinishRows, Settles DEF Stores, Numbers
    <3>2. file' = file /\ Ended(t) /\ Now(t) = "finish"
      BY <1>1, <1>9, FinishRows, LastMoves DEF Finish
    <3> QED BY <1>1, <2>2, <3>1, <3>2, AgreementPlain
  <2> QED BY <2>1, <2>2
<1>10. CASE t \in Client /\ Note(t)
  <2>1. file' = file /\ backup' = backup /\ Ended(t) /\ Now(t) = "note"
    BY <1>1, <1>10, LastMoves DEF Note, At, Now
  <2> QED BY <1>1, <2>1, AgreementPlain
<1>11. CASE t = Pass /\ Status
  <2>1. file' = file /\ backup' = backup
    BY <1>11 DEF Status, rowVars
  <2>2. /\ Active(Pass) /\ Now(Pass) = "status" /\ Active(Pass)' /\ Now(Pass)' \in {"saveOff", "archive"}
        /\ task[Pass].op = "scheduled" /\ task'[Pass].op = "scheduled"
        /\ task'[Pass].name = task[Pass].name /\ task'[Pass].target = task[Pass].target
        /\ task'[Pass].doomed = task[Pass].doomed
    BY <1>11, StatusMoves DEF Carries
  <2>3. \A b : /\ Making(Pass, b)' <=> Making(Pass, b)
               /\ ~Made(Pass, b)' /\ ~Made(Pass, b)
               /\ Removing(Pass, b)' <=> Removing(Pass, b)
    BY <2>2 DEF Making, Made, Removing, On
  <2> QED BY <1>1, <1>11, <2>1, <2>2, <2>3, AgreementSame
<1>12. CASE t = Pass /\ (SaveOff \/ Flush \/ SaveOn)
  <2>1. file' = file /\ backup' = backup
    BY <1>12 DEF SaveOff, Flush, SaveOn, rowVars
  <2> QED BY <1>1, <1>12, <2>1, AgreementPlain, SaveOffMoves, FlushMoves, SaveOnMoves DEF Carries, Errs
<1>13. CASE Retain
  BY <1>1, <1>13, RetainedAgreement DEF Retain, rowVars
<1>14. CASE PassCommit
  BY <1>1, <1>14, CommittedAgreement
<1> QED BY <1>2, <1>3, <1>4, <1>5, <1>6, <1>7, <1>8, <1>9, <1>10, <1>11, <1>12, <1>13, <1>14, Acting

\* Every step keeps files and rows in agreement.
LEMMA AgreementKept ==
  ASSUME Stores, Tasks, Numbers, Agreement, Next
  PROVE  Agreement'
<1>1. CASE \E t : Acts(t)
  BY <1>1, ActsAgreement
<1>2. ASSUME NEW c \in Client, NEW op \in Op \ {"none", "scheduled"}, NEW b \in Backup \cup {0},
             NEW v \in Version \cup {0}, Begin(c, op, b, v)
      PROVE  Agreement'
  <2> DEFINE name == IF made' = made THEN 0 ELSE made'
             loaded == [installed |-> installed, game |-> game]
  <2>1. Others(c) /\ c \in Task /\ Starts(c, op, b, name, loaded, Wanted(op, b, v))
    BY <1>2, BeginMoves
  <2>2. made \in Nat /\ backup' = backup /\ file' = file /\ faults' = faults /\ (b # 0 => b \in Rows)
    BY <1>2, BackupAssumption DEF Begin, Stores
  <2>3. name = 0 \/ name > made
    BY <1>2, <2>2 DEF Begin
  <2> HIDE DEF name, loaded
  <2> QED BY <2>1, <2>2, <2>3, StartsAgreement
<1>3. CASE SetPolicy \/ TimePasses
  <2>1. AllKept /\ file' = file /\ backup' = backup /\ faults' = faults
    BY <1>3 DEF SetPolicy, TimePasses, storeVars, AllKept, Kept, Tasks
  <2> QED BY <2>1, AllKeptAgreement
<1>4. CASE PassBegins
  <2>1. /\ Others(Pass) /\ Pass \in Task
        /\ Starts(Pass, "scheduled", 0, made', [installed |-> installed, game |-> game], NoVersions)
    BY <1>4, PassBeginsMoves
  <2>2. backup' = backup /\ file' = file /\ made' = made + 1 /\ made \in Nat /\ faults' = faults
    BY <1>4, BackupAssumption DEF PassBegins, Stores
  <2> QED BY <2>1, <2>2, StartsAgreement
<1>5. CASE Power \/ Save
  <2>1. AllKept /\ file' = file /\ backup' = backup /\ faults' = faults
    BY <1>5, PowerMoves, TearMoves DEF rowVars
  <2> QED BY <2>1, AllKeptAgreement
<1>6. CASE Fault
  <2>1. faults' # 0
    BY <1>6, FaultAssumption DEF Fault, Stores
  <2> QED BY <2>1 DEF Agreement
<1> QED BY <1>1, <1>2, <1>3, <1>4, <1>5, <1>6 DEF Next, Acts
-----------------------------------------------------------------------------
(* Updates and their recovery points *)

\* What a step does to a row: nothing, or it settles an update, or the row is
\* gone, or it is the new one of the task.
RowStep(t, b) ==
  \/ backup'[b] = backup[b]
  \/ backup'[b] = NoRow
  \/ backup'[b].update \in {"completed", "failed", "rolled_back"}
  \/ Made(t, b) /\ backup'[b] = RowOf(t)

\* An update that is under way stays so, or is settled.
LEMMA UpdatesStep ==
  ASSUME Stores, Tasks, Numbers, Agreement, Downloads, Marked, NEW t \in Task, Others(t), faults' = faults,
         \A b \in Backup : RowStep(t, b),
         \A b \in Backup : Settling(t, b) => Settling(t, b)' \/ backup'[b].update # "downloading",
         \A b \in Backup : Marks(t, b)' => Marks(t, b) \/ backup'[b].update # "none" \/ backup'[b] = NoRow,
         \A b \in Backup : Made(t, b) /\ backup'[b] # backup[b] =>
           IF task[t].op = "update" THEN Settling(t, b)' ELSE ~Marks(t, b)'
  PROVE  Downloads' /\ Marked'
<1>1. NoRow.update = "none"
  BY DEF NoRow
<1>2. RowOf(t).update = IF task[t].op = "update" THEN "downloading" ELSE "none"
  BY DEF RowOf
<1>3. ASSUME faults = 0, NEW b \in Backup, backup'[b].update = "downloading"
      PROVE  \E u \in Task : Settling(u, b)'
  <2>1. CASE backup'[b] = backup[b]
    <3>1. PICK u \in Task : Settling(u, b)
      BY <1>3, <2>1 DEF Downloads
    <3>2. u # t => Settling(u, b)'
      BY <3>1, OthersStanding
    <3> QED BY <1>3, <3>1, <3>2
  <2>2. CASE Made(t, b) /\ backup'[b] = RowOf(t) /\ backup'[b] # backup[b]
    BY <1>2, <1>3, <2>2
  <2> QED BY <1>1, <1>3, <2>1, <2>2 DEF RowStep
<1>4. ASSUME faults = 0, NEW b \in Backup, NEW u \in Task, Marks(u, b)'
      PROVE  backup'[b] = NoRow \/ backup'[b].update # "none"
  <2>1. u # t => Marks(u, b)
    <3>1. u # t => /\ Settling(u, b)' <=> Settling(u, b)
                   /\ On(u, {"rollback"}, Step)' <=> On(u, {"rollback"}, Step)
                   /\ task'[u].target = task[u].target
      BY OthersStanding, Standing DEF Others
    <3> QED BY <1>4, <3>1 DEF Marks
  <2>2. CASE backup'[b] = backup[b]
    BY <1>4, <2>1, <2>2 DEF Marked
  <2>3. CASE Made(t, b) /\ backup'[b] = RowOf(t) /\ backup'[b] # backup[b]
    <3>1. CASE u = t
      BY <1>2, <1>4, <2>3, <3>1
    <3>2. CASE u # t
      <4>1. Settling(u, b) => task[u].name = b
        BY DEF Settling
      <4>2. task[t].name = b /\ b # 0
        BY <2>3, BackupAssumption DEF Made, Backup
      <4>3. ~Settling(u, b)
        BY <3>2, <4>1, <4>2 DEF Numbers
      <4>4. Apart(t, u, b)
        BY <1>4 DEF Agreement
      <4>5. task[u].target # b
        BY <2>3, <4>4 DEF Apart
      <4> QED BY <2>1, <3>2, <4>3, <4>5 DEF Marks
    <3> QED BY <3>1, <3>2
  <2>4. CASE backup'[b].update \in {"completed", "failed", "rolled_back"}
    BY <2>4
  <2> QED BY <2>2, <2>3, <2>4 DEF RowStep
<1> QED BY <1>3, <1>4 DEF Downloads, Marked

\* A task that does not touch the rows, and is not at an update's steps.
LEMMA UpdatesSame ==
  ASSUME Stores, Tasks, Numbers, Agreement, Downloads, Marked, NEW t \in Task, Others(t), faults' = faults,
         backup' = backup, Active(t),
         \/ Proceeds(t) /\ Now(t) # "record"
         \/ (Ended(t) \/ Errs(t)) /\ Now(t) \notin {"fetch", "remove", "finish"}
  PROVE  Downloads' /\ Marked'
<1>1. \A b \in Backup : RowStep(t, b)
  BY DEF RowStep
<1>2. ASSUME NEW b PROVE /\ Settling(t, b) => Settling(t, b)'
                         /\ Marks(t, b)' => Marks(t, b)
  <2>1. CASE Proceeds(t) /\ Now(t) # "record"
    <3>1. /\ task[t].op \in Op \ {"none"} /\ <<Now(t), Now(t)'>> \in Edges[task[t].op]
          /\ Active(t)' /\ task'[t].op = task[t].op /\ task'[t].name = task[t].name
          /\ task'[t].target = task[t].target /\ Now(t) \in StepsOf[task[t].op] /\ Now(t) \in Step
      BY <2>1, StepOf, LastSteps DEF Proceeds
    <3>2. task[t].op = "update" => (Now(t)' \in {"fetch", "remove", "finish"} <=>
                                      Now(t) \in {"fetch", "remove"}) /\ Now(t) # "finish"
      BY <2>1, <3>1 DEF Edges
    <3>4. /\ Settling(t, b)' <=> Settling(t, b)
          /\ On(t, {"rollback"}, Step)' => On(t, {"rollback"}, Step)
      BY <3>1, <3>2 DEF Settling, On
    <3> QED BY <3>1, <3>4 DEF Marks, Settling, On
  <2>2. CASE (Ended(t) \/ Errs(t)) /\ Now(t) \notin {"fetch", "remove", "finish"}
    <3>1. ~Settling(t, b)
      BY <2>2 DEF Settling, On
    <3>2. ~Marks(t, b)'
      <4>1. CASE Ended(t)
        BY <4>1, NothingDone DEF Ended, Active, Marks, Settling, On
      <4>2. CASE t = Pass /\ GaveUp
        BY <4>2 DEF GaveUp, Marks, Settling, On
      <4> QED BY <2>2, <4>1, <4>2 DEF Errs
    <3> QED BY <3>1, <3>2
  <2> QED BY <2>1, <2>2
<1> QED BY <1>1, <1>2, UpdatesStep

\* An update, or the handler of a rollback, has come to its end.
LEMMA OverUpdates ==
  ASSUME Stores, Tasks, Numbers, Agreement, Downloads, Marked, NEW t \in Task, Others(t), faults' = faults,
         Ended(t), \A b \in Backup : RowStep(t, b) /\ (Settling(t, b) => backup'[b].update # "downloading")
  PROVE  (Now(t) # "record" \/ task[t].op # "update") => Downloads' /\ Marked'
<1>1. \A b : ~Settling(t, b)' /\ ~Marks(t, b)'
  BY NothingDone DEF Ended, Active, Marks, Settling, On
<1>2. ASSUME NEW b \in Backup, Made(t, b), task[t].op = "update" PROVE Now(t) = "record"
  BY <1>2, StepOf DEF Made, StepsOf, Op
<1> QED BY <1>1, <1>2, UpdatesStep

\* The row of a recovery point begins an update that is downloading.
LEMMA RecordedUpdates ==
  ASSUME Stores, Tasks, Numbers, Agreement, Downloads, Marked, NEW t \in Client, Record(t), faults' = faults
  PROVE  Downloads' /\ Marked'
<1> DEFINE n == task[t].name
<1>1. /\ t \in Task /\ t # Pass /\ Others(t) /\ Active(t) /\ Now(t) = "record"
      /\ \/ task[t].op = "create" /\ Ended(t)
         \/ task[t].op # "create" /\ Proceeds(t) /\ Carries(t)
  BY RecordMoves, TaskAssumption DEF Task
<1>2. task[t].op \in {"create", "update", "restore"}
  BY <1>1, StepOf DEF StepsOf, Op
<1>3. n \in Backup /\ backup' = [backup EXCEPT ![n] = RowOf(t)]
  BY <1>1, <1>2, NamedUnlessAbandoned DEF On, Step, Makers, Record
<1>4. \A b : Made(t, b) <=> b = n
  BY <1>1 DEF Made
<1>5. \A b \in Backup : RowStep(t, b)
  BY <1>3, <1>4 DEF RowStep, Stores
<1>6. \A b : ~Settling(t, b)
  BY <1>1 DEF Settling, On
<1>7. CASE task[t].op = "create"
  BY <1>1, <1>5, <1>6, <1>7, OverUpdates
<1>8. CASE task[t].op = "update"
  <2>1. Now(t)' = "fetch" /\ Active(t)' /\ task'[t].op = "update" /\ task'[t].name = n
    BY <1>1, <1>8 DEF Proceeds, Edges
  <2>2. \A b : Settling(t, b)' <=> b = n
    BY <2>1 DEF Settling, On
  <2>3. \A b : Marks(t, b)' => b = n
    BY <2>1, <2>2 DEF Marks, On
  <2>4. backup'[n].update # "none"
    BY <1>3, <1>8 DEF Stores, RowOf
  <2> HIDE DEF n
  <2> QED BY <1>1, <1>4, <1>5, <1>6, <1>8, <2>2, <2>3, <2>4, UpdatesStep
<1>9. CASE task[t].op = "restore"
  <2>1. task'[t].op = "restore"
    BY <1>1, <1>9 DEF Proceeds
  <2>2. \A b : ~Settling(t, b)' /\ ~Marks(t, b)'
    BY <2>1 DEF Settling, Marks, On
  <2> QED BY <1>1, <1>5, <1>6, <1>9, <2>2, UpdatesStep
<1> QED BY <1>2, <1>7, <1>8, <1>9

\* The steps of the tasks leave every update with its handler.
LEMMA ActsUpdates ==
  ASSUME Stores, Tasks, Numbers, Agreement, Downloads, Marked, NEW t, Acts(t)
  PROVE  Downloads' /\ Marked'
<1>1. /\ t \in Task /\ faults' = faults /\ Others(t)
      /\ root \in Content \cup {Missing} /\ file \in [Backup -> Content \cup {Missing}]
  BY Acting, OthersKept DEF Stores
<1>2. CASE (ArchiveBegins(t) \/ ArchiveEnds(t) \/ ArchiveFails(t) \/ SwapOut(t) \/ SwapIn(t) \/ Unlink(t))
           /\ UNCHANGED rowVars
  BY <1>1, <1>2, UpdatesSame, ArchiveBeginsMoves, ArchiveEndsMoves, ArchiveFailsMoves, SwapOutMoves,
     SwapInMoves, UnlinkMoves DEF rowVars
<1>3. CASE Unpack(t) /\ UNCHANGED rowVars
  BY <1>1, <1>3, UpdatesSame, UnpackMoves, UnpackTargets DEF rowVars
<1>4. CASE Check(t) \/ Remove(t) \/ Look(t)
  <2>1. backup' = backup
    BY <1>4 DEF Check, Remove, Look, rowVars
  <2> QED BY <1>1, <1>4, <2>1, UpdatesSame, CheckMoves, RemoveMoves, LookMoves
<1>5. CASE t \in Client /\ Record(t)
  BY <1>1, <1>5, RecordedUpdates
<1>6. CASE t \in Client /\ RecordRefused(t)
  <2>1. backup' = backup
    BY <1>6 DEF RecordRefused, rowVars
  <2> QED BY <1>1, <1>6, <2>1, UpdatesSame, RecordRefusedMoves
<1>7. CASE t \in Client /\ Fetch(t)
  <2>1. CASE Proceeds(t) /\ Carries(t) /\ UNCHANGED backup
    BY <1>1, <1>7, <2>1, UpdatesSame, FetchMoves
  <2>2. CASE Ended(t) /\ Settle(task[t].name, "failed")
    <3>1. \A b \in Backup : /\ b # task[t].name => backup'[b] = backup[b]
                            /\ backup'[b] = NoRow <=> backup[b] = NoRow
                            /\ b = task[t].name /\ backup[b] # NoRow => backup'[b].update = "failed"
      BY <2>2, Settles DEF Stores, Numbers
    <3>2. NoRow.update # "downloading"
      BY DEF NoRow
    <3>3. \A b \in Backup : RowStep(t, b) /\ (Settling(t, b) => backup'[b].update # "downloading")
      BY <3>1, <3>2 DEF RowStep, Settling
    <3> QED BY <1>1, <1>7, <2>2, <3>3, OverUpdates, FetchMoves
  <2> QED BY <1>7, <2>1, <2>2, FetchMoves
<1>8. CASE t \in Client /\ Finish(t)
  <2>1. /\ Active(t) /\ Now(t) = "finish" /\ Ended(t)
        /\ \/ task[t].op = "update" /\ Settle(task[t].name, "completed")
           \/ task[t].op = "rollback" /\ Settle(task[t].target, "rolled_back")
           \/ task[t].op = "restore" /\ backup' = backup
           \/ task[t].op = "delete" /\ backup' = [backup EXCEPT ![task[t].target] = NoRow]
    BY <1>1, <1>8, FinishRows, LastMoves DEF Finish
  <2>2. NoRow.update # "downloading"
    BY DEF NoRow
  <2>3. CASE task[t].op = "update" /\ Settle(task[t].name, "completed")
    <3>1. \A b \in Backup : /\ b # task[t].name => backup'[b] = backup[b]
                            /\ backup'[b] = NoRow <=> backup[b] = NoRow
                            /\ b = task[t].name /\ backup[b] # NoRow => backup'[b].update = "completed"
      BY <2>3, Settles DEF Stores, Numbers
    <3>2. \A b \in Backup : RowStep(t, b) /\ (Settling(t, b) => backup'[b].update # "downloading")
      BY <2>2, <3>1 DEF RowStep, Settling
    <3> QED BY <1>1, <2>1, <3>2, OverUpdates
  <2>4. CASE task[t].op # "update"
    <3>1. \A b : ~Settling(t, b)
      BY <2>4 DEF Settling, On
    <3>2. \A b \in Backup : RowStep(t, b)
      <4>1. CASE task[t].op = "rollback" /\ Settle(task[t].target, "rolled_back")
        <5>1. \A b \in Backup : /\ b # task[t].target => backup'[b] = backup[b]
                                /\ backup'[b] = NoRow <=> backup[b] = NoRow
                                /\ b = task[t].target /\ backup[b] # NoRow =>
                                     backup'[b].update = "rolled_back"
          BY <4>1, Settles DEF Stores, Numbers
        <5> QED BY <5>1 DEF RowStep
      <4>2. CASE backup' = backup
        BY <4>2 DEF RowStep
      <4>3. CASE backup' = [backup EXCEPT ![task[t].target] = NoRow]
        BY <4>3 DEF RowStep, Stores
      <4> QED BY <2>1, <2>4, <4>1, <4>2, <4>3
    <3> QED BY <1>1, <2>1, <3>1, <3>2, OverUpdates
  <2> QED BY <2>1, <2>3, <2>4
<1>9. CASE t \in Client /\ Note(t)
  <2>1. backup' = backup /\ Ended(t) /\ Now(t) = "note" /\ Active(t)
    BY <1>1, <1>9, LastMoves DEF Note, At, Now
  <2> QED BY <1>1, <2>1, UpdatesSame
<1>10. CASE t = Pass /\ Status
  <2>1. backup' = backup /\ task[Pass].op = "scheduled" /\ task'[Pass].op = "scheduled"
    BY <1>10, StatusMoves DEF Status, rowVars
  <2>2. \A b : /\ RowStep(Pass, b) /\ ~Settling(Pass, b) /\ ~Settling(Pass, b)' /\ ~Marks(Pass, b)'
    BY <2>1 DEF RowStep, Settling, Marks, On
  <2> QED BY <1>1, <1>10, <2>1, <2>2, UpdatesStep
<1>11. CASE t = Pass /\ (SaveOff \/ Flush \/ SaveOn)
  <2>1. backup' = backup
    BY <1>11 DEF SaveOff, Flush, SaveOn, rowVars
  <2> QED BY <1>1, <1>11, <2>1, UpdatesSame, SaveOffMoves, FlushMoves, SaveOnMoves DEF Errs
<1>12. CASE t = Pass /\ Retain
  <2>1. backup' = backup
    BY <1>12 DEF Retain, rowVars
  <2> QED BY <1>1, <1>12, <2>1, UpdatesSame, RetainMoves, RetainNames
<1>13. CASE t = Pass /\ PassCommit
  <2>1. Active(Pass) /\ Now(Pass) = "commit" /\ task[Pass].op = "scheduled" /\ Ended(Pass)
    <3>1. Active(Pass) /\ Now(Pass) = "commit" /\ task[Pass].op = "scheduled"
      BY <1>1, <1>13 DEF PassCommit, At, Now, Tasks, OnCourse
    <3> QED BY <1>1, <1>13, <3>1, LastMoves DEF PassCommit
  <2>2. \A b : ~Settling(Pass, b) /\ (Made(Pass, b) <=> b = task[Pass].name)
    BY <2>1 DEF Settling, Made, On
  <2>3. \A b \in Backup : RowStep(Pass, b)
    BY <1>13, <2>2 DEF PassCommit, RowStep
  <2> QED BY <1>1, <1>13, <2>1, <2>2, <2>3, OverUpdates
<1> QED BY <1>2, <1>3, <1>4, <1>5, <1>6, <1>7, <1>8, <1>9, <1>10, <1>11, <1>12, <1>13, Acting

\* So does a task that begins.
LEMMA StartsUpdates ==
  ASSUME Stores, Tasks, Numbers, Agreement, Downloads, Marked, NEW t \in Task, Others(t),
         NEW op, NEW b0 \in Backup \cup {0}, NEW name, NEW loaded, NEW wanted,
         Starts(t, op, b0, name, loaded, wanted), op = "rollback" => backup[b0].update # "none",
         backup' = backup, faults' = faults
  PROVE  Downloads' /\ Marked'
<1>1. /\ ~Active(t) /\ task'[t].op = op /\ task'[t].target = b0
      /\ Now(t)' \in {"status", "unlink", "look", "check"}
  BY DEF Starts
<1>2. \A b : ~Settling(t, b) /\ ~Settling(t, b)'
  BY <1>1 DEF Settling, On
<1>3. \A b : Marks(t, b)' => backup'[b].update # "none"
  BY <1>1, <1>2 DEF Marks, On
<1>4. \A b \in Backup : RowStep(t, b)
  BY DEF RowStep
<1> QED BY <1>2, <1>3, <1>4, UpdatesStep

\* Every step leaves every update that is downloading with its handler.
LEMMA UpdatesKept ==
  ASSUME Stores, Tasks, Numbers, Agreement, Downloads, Marked, Next
  PROVE  Downloads' /\ Marked'
<1>1. CASE \E t : Acts(t)
  BY <1>1, ActsUpdates
<1>2. ASSUME NEW c \in Client, NEW op \in Op \ {"none", "scheduled"}, NEW b \in Backup \cup {0},
             NEW v \in Version \cup {0}, Begin(c, op, b, v)
      PROVE  Downloads' /\ Marked'
  <2>1. /\ Others(c) /\ c \in Task
        /\ Starts(c, op, b, IF made' = made THEN 0 ELSE made', [installed |-> installed, game |-> game],
                  Wanted(op, b, v))
    BY <1>2, BeginMoves
  <2>2. backup' = backup /\ faults' = faults /\ (op = "rollback" => backup[b].update # "none")
    BY <1>2 DEF Begin
  <2> QED BY <2>1, <2>2, StartsUpdates
<1>3. ASSUME AllKept, backup' = backup, faults' = faults PROVE Downloads' /\ Marked'
  <2>1. Pass \in Task /\ Others(Pass) /\ Kept(Pass)
    BY <1>3 DEF Task, AllKept, Others
  <2>2. \A b : /\ Settling(Pass, b)' <=> Settling(Pass, b)
               /\ Marks(Pass, b)' <=> Marks(Pass, b)
               /\ RowStep(Pass, b)
    <3>1. /\ \A b : Settling(Pass, b)' <=> Settling(Pass, b)
          /\ On(Pass, {"rollback"}, Step)' <=> On(Pass, {"rollback"}, Step)
          /\ task'[Pass].target = task[Pass].target
      BY <2>1, Standing, KeptFields
    <3> QED BY <1>3, <3>1 DEF Marks, RowStep
  <2> QED BY <1>3, <2>1, <2>2, UpdatesStep
<1>4. CASE SetPolicy \/ TimePasses
  <2>1. AllKept /\ backup' = backup /\ faults' = faults
    BY <1>4 DEF SetPolicy, TimePasses, storeVars, AllKept, Kept, Tasks
  <2> QED BY <1>3, <2>1
<1>5. CASE PassBegins
  <2>1. /\ Others(Pass) /\ Pass \in Task
        /\ Starts(Pass, "scheduled", 0, made', [installed |-> installed, game |-> game], NoVersions)
    BY <1>5, PassBeginsMoves
  <2>2. backup' = backup /\ faults' = faults
    BY <1>5 DEF PassBegins
  <2> QED BY <2>1, <2>2, StartsUpdates
<1>6. CASE Power \/ Save
  <2>1. AllKept /\ backup' = backup /\ faults' = faults
    BY <1>6, PowerMoves, TearMoves DEF rowVars
  <2> QED BY <1>3, <2>1
<1>7. CASE Fault
  <2>1. faults' # 0
    BY <1>7, FaultAssumption DEF Fault, Stores
  <2> QED BY <2>1 DEF Downloads, Marked
<1> QED BY <1>1, <1>2, <1>4, <1>5, <1>6, <1>7 DEF Next, Acts

\* A step of a task is the next of its program, or the end of it.
LEMMA ActsProgress ==
  ASSUME Stores, Tasks, Numbers, NEW t, Acts(t), ~(t = Pass /\ Status)
  PROVE  /\ Active(t) /\ OnCourse(t)'
         /\ Proceeds(t) \/ Errs(t) \/ Ended(t)
<1>1. /\ t \in Task /\ root \in Content \cup {Missing} /\ file \in [Backup -> Content \cup {Missing}]
  BY Acting DEF Stores
<1>2. CASE ArchiveBegins(t) \/ ArchiveEnds(t) \/ ArchiveFails(t) \/ SwapOut(t) \/ SwapIn(t) \/ Unlink(t)
  BY <1>1, <1>2, ArchiveBeginsMoves, ArchiveEndsMoves, ArchiveFailsMoves, SwapOutMoves,
     SwapInMoves, UnlinkMoves
<1>3. CASE Unpack(t)
  BY <1>1, <1>3, UnpackMoves, UnpackTargets
<1>4. CASE t \in Client /\ (Check(t) \/ Record(t) \/ RecordRefused(t) \/ Fetch(t) \/ Remove(t) \/ Look(t))
  BY <1>1, <1>4, CheckMoves, RecordMoves, RecordRefusedMoves, FetchMoves, RemoveMoves, LookMoves
<1>5. CASE Finish(t) \/ Note(t) \/ (t = Pass /\ PassCommit)
  BY <1>1, <1>5, LastMoves DEF Finish, Note, PassCommit, At
<1>6. CASE t = Pass /\ (SaveOff \/ Flush \/ SaveOn)
  BY <1>6, SaveOffMoves, FlushMoves, SaveOnMoves DEF Errs
<1>7. CASE t = Pass /\ Retain
  BY <1>7, RetainMoves, RetainNames
<1> QED BY <1>2, <1>3, <1>4, <1>5, <1>6, <1>7, Acting
-----------------------------------------------------------------------------
(* While nobody disturbs *)

\* Tasks that run keep their operations.
LEMMA AloneStep ==
  ASSUME Tasks, Alone, task' \in [Task -> TaskRecord],
         \A u \in Task : Active(u)' => Active(u) /\ task'[u].op = task[u].op
  PROVE  Alone'
BY DEF Alone

\* The steps of the tasks begin none.
LEMMA ActsOperations ==
  ASSUME Stores, Tasks, Numbers, NEW t, Acts(t)
  PROVE  \A u \in Task : Active(u)' => Active(u) /\ task'[u].op = task[u].op
<1>1. /\ t \in Task /\ Others(t)
      /\ root \in Content \cup {Missing} /\ file \in [Backup -> Content \cup {Missing}]
  BY Acting, OthersKept DEF Stores
<1>2. \A u \in Task \ {t} : Active(u)' => Active(u) /\ task'[u].op = task[u].op
  BY <1>1, KeptFields DEF Others
<1>3. ASSUME Proceeds(t) \/ Errs(t) \/ Ended(t)
      PROVE  Active(t)' => Active(t) /\ task'[t].op = task[t].op
  <2>1. Ended(t) => ~Active(t)'
    BY NothingDone DEF Ended, Active
  <2>2. GaveUp => Active(Pass) /\ task[Pass].op = "scheduled" /\ task'[Pass].op = "scheduled"
    BY <1>1 DEF GaveUp, Tasks, OnCourse, Task
  <2> QED BY <1>3, <2>1, <2>2 DEF Proceeds, Errs
<1>4. CASE t = Pass /\ Status
  BY <1>2, <1>4, StatusMoves
<1>5. CASE ~(t = Pass /\ Status)
  BY <1>1, <1>2, <1>3, <1>5, ActsProgress
<1> QED BY <1>4, <1>5

\* No more tasks are in the way of a server, and it is not started.
LEMMA QuietStep ==
  ASSUME Tasks, Quiet, server'.up => server.up,
         \A u \in Client : On(u, Makers \cup Swappers, Step \ {"check"})' /\ server'.up =>
                             On(u, Makers \cup Swappers, Step \ {"check"}),
         On(Pass, {"scheduled"}, {"flush", "archive", "archived"})' /\ server'.up =>
           \/ ~server'.saves
           \/ /\ On(Pass, {"scheduled"}, {"flush", "archive", "archived"})
              /\ server'.saves => server.saves
  PROVE  Quiet'
BY DEF Quiet

\* The steps of a task leave the others where they are.
LEMMA QuietOthers ==
  ASSUME Tasks, NEW t \in Task, Others(t)
  PROVE  /\ \A u \in Client \ {t} : On(u, Makers \cup Swappers, Step \ {"check"})' <=>
                                    On(u, Makers \cup Swappers, Step \ {"check"})
         /\ t # Pass => (On(Pass, {"scheduled"}, {"flush", "archive", "archived"})' <=>
                         On(Pass, {"scheduled"}, {"flush", "archive", "archived"}))
BY Standing DEF Others, Task

\* The action that takes a step.
LEMMA OnlyCheck ==
  ASSUME NEW t, Acts(t), t # Pass, Now(t) = "check"
  PROVE  Check(t)
BY Acting DEF ArchiveBegins, ArchiveEnds, ArchiveFails, Unpack, SwapOut, SwapIn, Unlink,
   Record, RecordRefused, Fetch, Remove, Finish, Look, Note, At, Now

\* The pass pauses saves where it has to.
LEMMA OnlySaveOff ==
  ASSUME Acts(Pass), Now(Pass) = "saveOff"
  PROVE  SaveOff
BY Acting, TaskAssumption DEF ArchiveBegins, ArchiveEnds, ArchiveFails, Unpack, SwapOut, SwapIn, Unlink,
   Status, Flush, SaveOn, Retain, PassCommit, At, Now

\* As long as nobody disturbs, every step leaves those alone who swap the
\* directory.
LEMMA AloneKept ==
  ASSUME Stores, Tasks, Numbers, Next, Alone, ~disturbed'
  PROVE  Alone'
<1>1. CASE \E t : Acts(t)
  <2>1. task' \in [Task -> TaskRecord]
    BY <1>1, OthersKept DEF Others
  <2> QED BY <1>1, <2>1, ActsOperations, AloneStep
<1>2. ASSUME NEW t \in Task, NEW op \in Op \ {"none"}, Others(t), ~Active(t), task'[t].op = op, ~Disturbs(op)
      PROVE  Alone'
  <2>1. \A u \in Task \ {t} : (Active(u)' <=> Active(u)) /\ task'[u].op = task[u].op
    BY <1>2, KeptFields DEF Others
  <2>2. \A u \in Task : Active(u) =>
          \/ {"delete", "page"} \cap {op, task[u].op} # {}
          \/ {op, task[u].op} \cap {"restore", "rollback"} = {}
    BY <1>2 DEF Disturbs
  <2>3. ASSUME NEW u \in Task \ {t}, Active(u)
        PROVE  /\ op \in Swappers => task[u].op \in {"delete", "page"}
               /\ task[u].op \in Swappers => op \in {"delete", "page"}
    BY <2>2, <2>3 DEF Swappers
  <2> QED BY <1>2, <2>1, <2>3 DEF Alone
<1>3. ASSUME NEW c \in Client, NEW op \in Op \ {"none", "scheduled"}, NEW b \in Backup \cup {0},
             NEW v \in Version \cup {0}, Begin(c, op, b, v)
      PROVE  Alone'
  <2>1. /\ Others(c) /\ c \in Task
        /\ Starts(c, op, b, IF made' = made THEN 0 ELSE made', [installed |-> installed, game |-> game],
                  Wanted(op, b, v))
    BY <1>3, BeginMoves
  <2>2. ~Disturbs(op)
    BY <1>3, Zenon DEF Begin
  <2> QED BY <1>2, <2>1, <2>2 DEF Starts
<1>4. CASE PassBegins
  <2>1. /\ Others(Pass) /\ Pass \in Task
        /\ Starts(Pass, "scheduled", 0, made', [installed |-> installed, game |-> game], NoVersions)
    BY <1>4, PassBeginsMoves
  <2>2. ~Disturbs("scheduled") /\ "scheduled" \in Op \ {"none"}
    <3>1. ~Disturbs("scheduled")
      BY <1>4, Zenon DEF PassBegins
    <3> QED BY <3>1 DEF Op
  <2> QED BY <1>2, <2>1, <2>2 DEF Starts
<1>5. CASE SetPolicy \/ TimePasses
  BY <1>5 DEF SetPolicy, TimePasses, storeVars, Alone, Active
<1>6. CASE Power \/ Save
  <2>1. AllKept
    BY <1>6, PowerMoves, TearMoves
  <2> QED BY <2>1, AloneStep, KeptFields DEF AllKept
<1>7. CASE Fault
  <2>1. task' \in [Task -> TaskRecord] /\ \A u \in Task : Dies(u)
    BY <1>7, FaultMoves
  <2>2. \A u \in Task : Active(u)' => Active(u) /\ task'[u].op = task[u].op
    BY <2>1, NothingDone DEF Dies, Active
  <2> QED BY <2>1, <2>2, AloneStep
<1> QED BY <1>1, <1>3, <1>4, <1>5, <1>6, <1>7 DEF Next, Acts

\* The steps of the tasks start no server, and leave its saves paused.
LEMMA QuietActs ==
  ASSUME Stores, Tasks, Numbers, Quiet, NEW t, Acts(t)
  PROVE  Quiet'
<1>1. t \in Task /\ Others(t) /\ t # Pass => t \in Client
  BY Acting, OthersKept DEF Task
<1>2. CASE t # Pass
  <2>1. /\ Others(t) /\ t \in Task /\ t \in Client
        /\ Proceeds(t) \/ Ended(t)
    BY <1>1, <1>2, ActsProgress, Acting, OthersKept DEF Errs, Task
  <2>2. server'.up => server' = server
    <3>1. Remove(t) => ~server'.up
      BY DEF Remove, Stores
    <3>2. ~Remove(t) => server' = server
      BY <1>2, Acting DEF ArchiveBegins, ArchiveEnds, ArchiveFails, Unpack, SwapOut, SwapIn, Unlink,
         Check, Record, RecordRefused, Fetch, Finish, Look, Note
    <3> QED BY <3>1, <3>2
  <2>3. On(t, Makers \cup Swappers, Step \ {"check"})' /\ server'.up =>
          On(t, Makers \cup Swappers, Step \ {"check"})
    <3>1. CASE Ended(t)
      BY <3>1, NothingDone DEF Ended, Active, On
    <3>2. CASE Proceeds(t)
      <4>1. Now(t) = "check" => Check(t)
        BY <1>2, Acting, OnlyCheck
      <4>2. Check(t) => ~server.up
        <5>1. Active(t)'
          BY <3>2 DEF Proceeds
        <5>2. Errs(t) => ~Active(t)'
          BY <1>2, NothingDone DEF Errs, Ended, Active
        <5> QED BY <2>1, <5>1, <5>2, CheckMoves
      <4>3. Now(t) \in Step
        BY <2>1, <3>2, LastSteps DEF Proceeds
      <4> QED BY <2>2, <3>2, <4>1, <4>2, <4>3 DEF Proceeds, On
    <3> QED BY <2>1, <3>1, <3>2
  <2> QED BY <1>2, <2>1, <2>2, <2>3, QuietOthers, QuietStep
<1>3. CASE t = Pass
  <2>1. Pass \in Task /\ Others(Pass) /\ Pass \notin Client
    BY <1>3, Acting, OthersKept, TaskAssumption
  <2>2. \A u \in Client : On(u, Makers \cup Swappers, Step \ {"check"})' <=>
                          On(u, Makers \cup Swappers, Step \ {"check"})
    BY <2>1, QuietOthers
  <2>3. CASE Status
    <3>1. server' = server /\ Now(Pass)' = IF server.up THEN "saveOff" ELSE "archive"
      BY <2>3, StatusMoves DEF Status
    <3> QED BY <2>1, <2>2, <3>1, QuietStep DEF On
  <2>4. CASE SaveOff
    <3>1. \/ server' = server /\ Now(Pass)' \in {"saveOn", "commit"}
          \/ server.up /\ server'.up /\ ~server'.saves
      <4>1. CASE ~server.up /\ server' = server /\ GaveUp
        BY <4>1 DEF GaveUp
      <4>2. CASE server.up /\ server' = [server EXCEPT !.saves = FALSE] /\ Proceeds(Pass)
        <5>1. ~server'.saves /\ server'.up
          BY <4>2 DEF Stores
        <5> QED BY <4>2, <5>1
      <4> QED BY <2>4, <4>1, <4>2, SaveOffMoves
    <3> QED BY <2>1, <2>2, <3>1, QuietStep DEF On
  <2>5. CASE SaveOn
    <3>1. Now(Pass)' \in {"retain", "commit"}
      <4>1. Proceeds(Pass) /\ Now(Pass) = "saveOn" /\ task[Pass].op = "scheduled"
        BY <2>1, <2>5, SaveOnMoves DEF Tasks, OnCourse
      <4> QED BY <4>1 DEF Proceeds, Edges
    <3>2. server'.up => server.up
      BY <2>5 DEF SaveOn, Stores
    <3> QED BY <2>1, <2>2, <3>1, <3>2, QuietStep DEF On
  <2>6. CASE ~Status /\ ~SaveOff /\ ~SaveOn
    <3>1. server' = server
      BY <1>3, <2>1, <2>6, Acting DEF ArchiveBegins, ArchiveEnds, ArchiveFails, Unpack, SwapOut, SwapIn,
         Unlink, Flush, Retain, PassCommit
    <3>2. Proceeds(Pass) \/ GaveUp \/ Ended(Pass)
      BY <1>3, <2>6, ActsProgress DEF Errs
    <3>3. On(Pass, {"scheduled"}, {"flush", "archive", "archived"})' /\ server'.up =>
            On(Pass, {"scheduled"}, {"flush", "archive", "archived"})
      <4>1. CASE Ended(Pass)
        BY <4>1, NothingDone DEF Ended, Active, On
      <4>2. CASE GaveUp
        BY <4>2 DEF GaveUp, On
      <4>3. CASE Proceeds(Pass)
        <5>1. Now(Pass) # "saveOff" /\ Active(Pass) /\ task[Pass].op = "scheduled"
          BY <1>3, <2>1, <2>6, <4>3, Acting, OnlySaveOff DEF Proceeds, Tasks, OnCourse
        <5> QED BY <4>3, <5>1 DEF Proceeds, On, Edges
      <4> QED BY <3>2, <4>1, <4>2, <4>3
    <3> QED BY <2>1, <2>2, <3>1, <3>3, QuietStep
  <2> QED BY <2>3, <2>4, <2>5, <2>6
<1> QED BY <1>2, <1>3

\* Nor does a task that begins.
LEMMA QuietStarts ==
  ASSUME Tasks, Quiet, NEW t \in Task, Others(t), server' = server,
         NEW op \in Op \ {"none"}, t = Pass <=> op = "scheduled",
         NEW b, NEW name, NEW loaded, NEW wanted, Starts(t, op, b, name, loaded, wanted)
  PROVE  Quiet'
<1>1. /\ task'[t].op = op
      /\ Now(t)' = CASE op = "scheduled" -> "status" [] op = "delete" -> "unlink"
                     [] op = "page" -> "look" [] OTHER -> "check"
  BY DEF Starts
<1>2. op \in Makers \cup Swappers /\ t # Pass => Now(t)' = "check"
  BY <1>1 DEF Makers, Swappers, Op
<1>3. t = Pass => Now(t)' = "status"
  BY <1>1
<1>4. /\ t # Pass => ~On(t, Makers \cup Swappers, Step \ {"check"})'
      /\ t = Pass => ~On(Pass, {"scheduled"}, {"flush", "archive", "archived"})'
  BY <1>1, <1>2, <1>3 DEF On
<1> QED BY <1>4, QuietOthers, QuietStep, TaskAssumption DEF Task

\* Starts and stops disturb whatever the quiet is needed for.
LEMMA PowerDisturbs ==
  ASSUME Tasks, Power, ~disturbed'
  PROVE  \A u \in Task : Active(u) => task[u].op = "delete"
BY Zenon DEF Power

\* As long as nobody disturbs, every step keeps the directory from being
\* written to.
LEMMA QuietKept ==
  ASSUME Stores, Tasks, Numbers, Next, Quiet, ~disturbed'
  PROVE  Quiet'
<1>1. CASE \E t : Acts(t)
  BY <1>1, QuietActs
<1>2. ASSUME NEW c \in Client, NEW op \in Op \ {"none", "scheduled"}, NEW b \in Backup \cup {0},
             NEW v \in Version \cup {0}, Begin(c, op, b, v)
      PROVE  Quiet'
  <2>1. /\ Others(c) /\ c \in Task /\ c # Pass
        /\ Starts(c, op, b, IF made' = made THEN 0 ELSE made', [installed |-> installed, game |-> game],
                  Wanted(op, b, v))
    BY <1>2, BeginMoves, TaskAssumption
  <2>2. server' = server
    BY <1>2 DEF Begin
  <2> QED BY <2>1, <2>2, QuietStarts
<1>3. CASE SetPolicy \/ TimePasses
  BY <1>3 DEF SetPolicy, TimePasses, storeVars, Quiet, On, Active, Now
<1>4. CASE PassBegins
  <2>1. /\ Others(Pass) /\ Pass \in Task
        /\ Starts(Pass, "scheduled", 0, made', [installed |-> installed, game |-> game], NoVersions)
    BY <1>4, PassBeginsMoves
  <2>2. server' = server /\ "scheduled" \in Op \ {"none"}
    BY <1>4 DEF PassBegins, Op
  <2> QED BY <2>1, <2>2, QuietStarts
<1>5. CASE Power
  <2>1. \A u \in Task : Active(u) => task[u].op = "delete"
    BY <1>5, PowerDisturbs
  <2>2. AllKept
    BY <1>5, PowerMoves, TearMoves
  <2>3. \A u \in Task : (Active(u)' <=> Active(u)) /\ task'[u].op = task[u].op
    BY <2>2, KeptFields DEF AllKept
  <2> QED BY <2>1, <2>3 DEF Quiet, On, Makers, Swappers, Task
<1>6. CASE Save
  <2>1. AllKept /\ server' = server
    BY <1>6, PowerMoves, TearMoves DEF Save, ServerSaves
  <2>2. \A u \in Task : \A ops, steps : On(u, ops, steps)' <=> On(u, ops, steps)
    BY <2>1, Standing DEF AllKept
  <2> QED BY <2>1, <2>2, QuietStep DEF Task
<1>7. CASE Fault
  <2>1. server' = server
    BY <1>7 DEF Fault
  <2>2. task' \in [Task -> TaskRecord] /\ \A u \in Task : Dies(u)
    BY <1>7, FaultMoves
  <2>3. ASSUME NEW u \in Task, NEW ops, NEW steps, On(u, ops, steps)' PROVE On(u, ops, steps)
    <3>1. CASE task'[u] = task[u]
      BY <2>3, <3>1 DEF On, Active, Now
    <3>2. CASE task'[u] = NoTask
      BY <2>3, <3>2, NothingDone DEF On, Active
    <3> QED BY <2>2, <3>1, <3>2 DEF Dies
  <2> QED BY <2>1, <2>3, QuietStep DEF Task
<1> QED BY <1>1, <1>2, <1>3, <1>4, <1>5, <1>6, <1>7 DEF Next, Acts

\* Nobody writes to the directory while another one archives it.
Still(t) == \A u \in Task \ {t} : task'[u] = task[u]

\* A task that acts leaves the others as they are.
LEMMA StillActs ==
  ASSUME Stores, Tasks, Numbers, Alone, Quiet, NEW t, Acts(t)
  PROVE  Still(t)
<1>1. /\ t \in Task /\ task \in [Task -> TaskRecord] /\ Others(t)
      /\ (Active(t) \/ (t = Pass /\ Status))
  BY Acting, OthersKept, ActsProgress DEF Tasks
<1>2. \A u \in Task \ {t} : ~At(u, "archived") => task'[u] = task[u]
  BY OthersKept DEF Others, Kept
<1>3. ASSUME NEW u \in Task, At(u, "archived")
      PROVE  /\ Active(u) /\ task[u].op \in Makers /\ Now(u) = "archived"
             /\ u # Pass => ~server.up
             /\ u = Pass /\ server.up => ~server.saves
  <2>1. /\ Active(u) /\ Now(u) = "archived" /\ task[u].op \in Op \ {"none"}
        /\ Now(u) \in StepsOf[task[u].op]
    BY <1>3, StepOf DEF At, Now
  <2>2. task[u].op \in Makers /\ (u = Pass <=> task[u].op = "scheduled")
    <3>1. task[u].op \in Makers
      BY <2>1 DEF StepsOf, Op, Makers
    <3> QED BY <2>1, <3>1 DEF Tasks, OnCourse
  <2> QED BY <2>1, <2>2 DEF Quiet, On, Step, Task
<1>4. CASE SwapOut(t)
  <2>1. t \in Task /\ Active(t) /\ task[t].op \in Swappers
    <3>1. t \in Task /\ Active(t) /\ Now(t) = "swapOut"
      BY <1>4, Acting DEF SwapOut, At, Now
    <3> QED BY <3>1, StepOf DEF StepsOf, Op, Swappers
  <2>2. \A u \in Task \ {t} : ~At(u, "archived")
    BY <1>3, <2>1 DEF Alone, Makers
  <2> QED BY <1>2, <2>2 DEF Still
<1>5. CASE t \in Client /\ Remove(t)
  <2>1. t \in Task /\ Active(t) /\ Now(t) = "remove" /\ task[t].op \in Makers \cup Swappers
    <3>1. t \in Task /\ Active(t) /\ Now(t) = "remove"
      BY <1>5, Acting DEF Remove, At, Now
    <3> QED BY <3>1, StepOf DEF StepsOf, Op, Swappers, Makers
  <2>2. ~server.up
    BY <1>5, <2>1 DEF Quiet, On, Step
  <2> QED BY <1>5, <2>1, <2>2, RemoveMoves DEF Still
<1>6. CASE t = Pass /\ Flush
  <2>1. CASE server.up
    BY <1>2, <1>3, <1>6, <2>1 DEF Still
  <2>2. CASE ~server.up
    BY <1>6, <2>2, Acting DEF Flush, AfterError, Still, Tasks
  <2> QED BY <2>1, <2>2
<1>7. CASE ArchiveBegins(t) \/ ArchiveEnds(t) \/ ArchiveFails(t) \/ Unpack(t) \/ SwapIn(t) \/ Unlink(t)
  <2>1. t \in Task /\ Active(t)
    BY <1>7, Acting DEF ArchiveBegins, ArchiveEnds, ArchiveFails, Unpack, SwapIn, Unlink, At
  <2>2. Advance(t) \in [Task -> TaskRecord] /\ \A u \in Task \ {t} : Advance(t)[u] = task[u]
    BY <2>1, Advances
  <2>3. \A u \in Task \ {t} : AfterError(t)[u] = task[u]
    BY <2>1 DEF AfterError, Tasks
  <2> QED BY <1>7, <2>2, <2>3 DEF ArchiveBegins, ArchiveEnds, ArchiveFails, Unpack, SwapIn, Unlink, Still
<1>8. CASE t \in Client /\ (Check(t) \/ Record(t) \/ RecordRefused(t) \/ Fetch(t) \/ Look(t))
  <2>1. t \in Task /\ Active(t)
    BY <1>8, Acting DEF Check, Record, RecordRefused, Fetch, Look, At
  <2>2. Advance(t) \in [Task -> TaskRecord] /\ \A u \in Task \ {t} : Advance(t)[u] = task[u]
    BY <2>1, Advances
  <2>3. \A u \in Task \ {t} : AfterError(t)[u] = task[u]
    BY <2>1 DEF AfterError, Tasks
  <2> QED BY <1>8, <2>2, <2>3 DEF Check, Record, RecordRefused, Fetch, Look, Still
<1>9. CASE Finish(t) \/ Note(t) \/ (t = Pass /\ PassCommit)
  BY <1>9 DEF Finish, Note, PassCommit, Still, Tasks
<1>10. CASE t = Pass /\ (Status \/ SaveOff \/ SaveOn \/ Retain)
  <2>1. t \in Task /\ Active(t)
    BY <1>10, Acting DEF Status, SaveOff, SaveOn, Retain, At
  <2>2. Advance(t) \in [Task -> TaskRecord] /\ \A u \in Task \ {t} : Advance(t)[u] = task[u]
    BY <2>1, Advances
  <2>3. \A steps : \A u \in Task \ {t} : Goes(t, steps)[u] = task[u]
    BY <2>1 DEF Goes, Tasks
  <2>4. \A steps : Goes(t, steps) \in [Task -> {Goes(t, steps)[u] : u \in Task}]
    BY DEF Goes, Tasks
  <2>5. CASE Status
    BY <1>10, <2>3, <2>5 DEF Status, Still
  <2>6. CASE SaveOff
    BY <1>10, <2>2, <2>3, <2>4, <2>6 DEF SaveOff, Still
  <2>7. CASE SaveOn \/ Retain
    BY <1>10, <2>2, <2>7 DEF SaveOn, Retain, Still
  <2> QED BY <1>10, <2>5, <2>6, <2>7
<1> QED BY <1>4, <1>5, <1>6, <1>7, <1>8, <1>9, <1>10, Acting

\* What is in the directory, in the archives and under way stays whole.
LEMMA EndedWhole ==
  ASSUME Tasks, Whole, NEW t \in Task, Errs(t) \/ Ended(t)
  PROVE  IsWhole(task'[t].data) /\ IsWhole(task'[t].aside)
<1>1. CASE Ended(t)
  BY <1>1, NothingDone DEF Ended, IsWhole
<1>2. CASE t = Pass /\ GaveUp
  BY <1>2 DEF GaveUp, Carries, Whole
<1> QED BY <1>1, <1>2 DEF Errs

\* The steps of the tasks keep directory and archives whole.
LEMMA WholeActs ==
  ASSUME Stores, Tasks, Numbers, Alone, Quiet, Whole, NEW t, Acts(t)
  PROVE  Whole'
<1>1. /\ t \in Task /\ Still(t) /\ root \in Content \cup {Missing}
      /\ file \in [Backup -> Content \cup {Missing}]
  BY Acting, StillActs DEF Stores
<1>2. /\ IsWhole(root) /\ \A b \in Backup : IsWhole(file[b])
      /\ \A u \in Task : IsWhole(task[u].data) /\ IsWhole(task[u].aside)
  BY DEF Whole
<1>3. IsWhole(Missing)
  BY DEF IsWhole
<1> SUFFICES /\ IsWhole(root') /\ \A b \in Backup : IsWhole(file'[b])
             /\ IsWhole(task'[t].data) /\ IsWhole(task'[t].aside)
  BY <1>1, <1>2 DEF Still, Whole
<1>4. ASSUME Proceeds(t) /\ Carries(t) PROVE IsWhole(task'[t].data) /\ IsWhole(task'[t].aside)
  BY <1>1, <1>2, <1>4 DEF Carries
<1>5. CASE ArchiveBegins(t)
  <2>1. root' = root /\ file' = file
    BY <1>5 DEF ArchiveBegins
  <2>2. \/ Errs(t)
        \/ task'[t].data = root /\ task'[t].aside = task[t].aside
    BY <1>1, <1>5, ArchiveBeginsMoves
  <2> QED BY <1>1, <1>2, <2>1, <2>2, EndedWhole
<1>6. CASE ArchiveEnds(t)
  <2>1. root' = root /\ file' = [file EXCEPT ![task[t].name] = task[t].data]
    BY <1>6 DEF ArchiveEnds
  <2>2. \A b \in Backup : file'[b] = file[b] \/ file'[b] = task[t].data
    BY <1>1, <2>1
  <2>3. task'[t].data = Missing /\ task'[t].aside = task[t].aside
    BY <1>1, <1>6, ArchiveEndsMoves
  <2> QED BY <1>1, <1>2, <1>3, <2>1, <2>2, <2>3
<1>7. CASE ArchiveFails(t)
  BY <1>1, <1>2, <1>7, ArchiveFailsMoves, EndedWhole DEF ArchiveFails
<1>8. CASE Unpack(t)
  <2>1. task[t].target \in Backup /\ root' = root /\ file' = file
    BY <1>1, <1>8, UnpackTargets DEF Unpack
  <2>2. \/ Errs(t)
        \/ task'[t].data = file[task[t].target] /\ task'[t].aside = task[t].aside
    BY <1>1, <1>8, <2>1, UnpackMoves
  <2> QED BY <1>1, <1>2, <2>1, <2>2, EndedWhole
<1>9. CASE SwapOut(t)
  <2>1. file' = file
    BY <1>9 DEF SwapOut
  <2>2. \/ Errs(t) /\ root' = root
        \/ root' = Missing /\ task'[t].data = task[t].data /\ task'[t].aside = root
    BY <1>1, <1>9, SwapOutMoves
  <2> QED BY <1>1, <1>2, <1>3, <2>1, <2>2, EndedWhole
<1>10. CASE SwapIn(t)
  <2>1. file' = file
    BY <1>10 DEF SwapIn
  <2>2. \/ root' = task[t].data /\ Proceeds(t) /\ Carries(t)
        \/ Errs(t) /\ root' \in {root, task[t].aside}
    BY <1>1, <1>10, SwapInMoves
  <2> QED BY <1>1, <1>2, <1>4, <2>1, <2>2, EndedWhole
<1>11. CASE Unlink(t)
  <2>1. root' = root
    BY <1>11 DEF Unlink
  <2>2. \/ Errs(t) /\ file' = file
        \/ Proceeds(t) /\ Carries(t) /\ file' = [file EXCEPT ![task[t].target] = Missing]
    BY <1>1, <1>11, UnlinkMoves
  <2>3. \A b \in Backup : file'[b] = file[b] \/ file'[b] = Missing
    BY <1>1, <2>2
  <2> QED BY <1>1, <1>2, <1>3, <1>4, <2>1, <2>2, <2>3, EndedWhole
<1>12. CASE t \in Client /\ (Check(t) \/ Record(t) \/ Fetch(t) \/ Remove(t))
  <2>1. root' = root /\ file' = file
    BY <1>12 DEF Check, Record, Fetch, Remove
  <2>2. Errs(t) \/ Ended(t) \/ (Proceeds(t) /\ Carries(t))
    BY <1>1, <1>12, CheckMoves, RecordMoves, FetchMoves, RemoveMoves
  <2> QED BY <1>1, <1>2, <1>4, <2>1, <2>2, EndedWhole
<1>13. CASE t \in Client /\ RecordRefused(t)
  <2>1. root' = root /\ file' = [file EXCEPT ![task[t].name] = Missing]
    BY <1>13 DEF RecordRefused
  <2>2. \A b \in Backup : file'[b] = file[b] \/ file'[b] = Missing
    BY <1>1, <2>1
  <2>3. Ended(t)
    BY <1>1, <1>13, RecordRefusedMoves
  <2> QED BY <1>1, <1>2, <1>3, <2>1, <2>2, <2>3, EndedWhole
<1>14. CASE Look(t)
  <2>1. root' = root /\ file' = file
    BY <1>14 DEF Look
  <2>2. Errs(t) \/ (task'[t].data = task[t].data /\ task'[t].aside = task[t].aside)
    BY <1>1, <1>14, LookMoves
  <2> QED BY <1>1, <1>2, <2>1, <2>2, EndedWhole
<1>15. CASE Finish(t) \/ Note(t) \/ (t = Pass /\ PassCommit)
  <2>1. root' = root /\ file' = file /\ Active(t) /\ task' = [task EXCEPT ![t] = NoTask]
    BY <1>15 DEF Finish, Note, PassCommit, At
  <2>2. Ended(t)
    BY <1>1, <2>1, LastMoves
  <2> QED BY <1>1, <1>2, <2>1, <2>2, EndedWhole
<1>16. CASE t = Pass /\ (Status \/ SaveOff \/ Flush \/ SaveOn)
  <2>1. root' = root /\ file' = file
    BY <1>16 DEF Status, SaveOff, Flush, SaveOn
  <2>2. Carries(t)
    BY <1>16, StatusMoves, SaveOffMoves, FlushMoves, SaveOnMoves DEF GaveUp
  <2> QED BY <1>1, <1>2, <2>1, <2>2 DEF Carries
<1>17. CASE t = Pass /\ Retain
  <2>1. /\ root' = root /\ task'[t].data = task[t].data /\ task'[t].aside = task[t].aside
        /\ file' = [b \in Backup |-> IF b \in task'[Pass].doomed THEN Missing ELSE file[b]]
    BY <1>17, RetainNames, RetainMoves DEF Retain
  <2>2. \A b \in Backup : file'[b] = file[b] \/ file'[b] = Missing
    BY <2>1
  <2> QED BY <1>1, <1>2, <1>3, <2>1, <2>2
<1> QED BY <1>5, <1>6, <1>7, <1>8, <1>9, <1>10, <1>11, <1>12, <1>13, <1>14, <1>15, <1>16, <1>17, Acting

\* A start or a stop that disturbs nobody, and a save, tear no archive.
LEMMA NothingTorn ==
  ASSUME Tasks, Quiet, Power \/ Save, ~disturbed'
  PROVE  task' = task
<1>1. ASSUME NEW u \in Task, At(u, "archived")
      PROVE  /\ Active(u) /\ task[u].op \in Makers /\ Now(u) = "archived" /\ (u = Pass <=> task[u].op = "scheduled")
  <2>1. Active(u) /\ Now(u) = "archived" /\ task[u].op \in Op \ {"none"} /\ Now(u) \in StepsOf[task[u].op]
    BY <1>1, StepOf DEF At, Now
  <2>2. task[u].op \in Makers
    BY <2>1 DEF StepsOf, Op, Makers
  <2> QED BY <2>1, <2>2 DEF Tasks, OnCourse
<1>2. task' = Tear(task)
  BY PowerMoves
<1>3. \A u \in Task : ~At(u, "archived")
  <2>1. CASE Power
    BY <1>1, <2>1, PowerDisturbs DEF Makers
  <2>2. CASE Save
    <3>1. server.up /\ server.saves
      BY <2>2 DEF Save, ServerSaves
    <3>2. \A u \in Task : u # Pass => u \in Client
      BY DEF Task
    <3>3. ASSUME NEW u \in Task, At(u, "archived") PROVE FALSE
      <4>1. CASE u = Pass
        BY <1>1, <3>1, <3>3, <4>1 DEF Quiet, On
      <4>2. CASE u # Pass
        BY <1>1, <3>1, <3>2, <3>3, <4>2 DEF Quiet, On, Step
      <4> QED BY <4>1, <4>2
    <3> QED BY <3>3
  <2> QED BY <2>1, <2>2
<1> QED BY <1>2, <1>3, TearMoves

\* As long as nobody disturbs, every step keeps directory and archives whole.
LEMMA WholeKept ==
  ASSUME Stores, Tasks, Numbers, Next, Alone, Quiet, Whole, ~disturbed'
  PROVE  Whole'
<1>1. CASE \E t : Acts(t)
  BY <1>1, WholeActs
<1>2. ASSUME NEW t \in Task, Others(t), NEW op, NEW b, NEW name, NEW loaded, NEW wanted,
             Starts(t, op, b, name, loaded, wanted), root' = root, file' = file,
             \A u \in Task \ {t} : task'[u] = task[u]
      PROVE  Whole'
  BY <1>2 DEF Whole, Starts, IsWhole
<1>3. ASSUME NEW c \in Client, NEW op \in Op \ {"none", "scheduled"}, NEW b \in Backup \cup {0},
             NEW v \in Version \cup {0}, Begin(c, op, b, v)
      PROVE  Whole'
  <2>1. /\ Others(c) /\ c \in Task
        /\ Starts(c, op, b, IF made' = made THEN 0 ELSE made', [installed |-> installed, game |-> game],
                  Wanted(op, b, v))
    BY <1>3, BeginMoves
  <2>2. root' = root /\ file' = file
    BY <1>3 DEF Begin
  <2>3. \A u \in Task \ {c} : task'[u] = task[u]
    BY <1>3 DEF Begin, Tasks
  <2> QED BY <1>2, <2>1, <2>2, <2>3
<1>4. CASE PassBegins
  <2>1. /\ Others(Pass) /\ Pass \in Task
        /\ Starts(Pass, "scheduled", 0, made', [installed |-> installed, game |-> game], NoVersions)
    BY <1>4, PassBeginsMoves
  <2>2. root' = root /\ file' = file
    BY <1>4 DEF PassBegins
  <2>3. \A u \in Task \ {Pass} : task'[u] = task[u]
    BY <1>4 DEF PassBegins, Tasks
  <2> QED BY <1>2, <2>1, <2>2, <2>3
<1>5. CASE SetPolicy \/ TimePasses
  BY <1>5 DEF SetPolicy, TimePasses, storeVars, Whole
<1>6. CASE Power \/ Save
  <2>1. task' = task
    BY <1>6, NothingTorn
  <2>2. file' = file
    BY <1>6 DEF Power, Save, ServerStarts, ServerStops, ServerSaves
  <2>3. IsWhole(root')
    <3>1. root' = root \/ root' = [version |-> game, whole |-> root = Missing \/ root.whole]
      BY <1>6 DEF Power, Save, ServerStarts, ServerStops, ServerSaves
    <3>2. root = Missing \/ root.whole
      BY DEF Whole, IsWhole
    <3>3. (root = Missing \/ root.whole) = TRUE
      BY <3>2, Zenon
    <3>4. root' = root \/ root' = [version |-> game, whole |-> TRUE]
      BY <3>1, <3>3, Zenon
    <3>5. [version |-> game, whole |-> TRUE].whole
      OBVIOUS
    <3> QED BY <3>4, <3>5, Zenon DEF Whole, IsWhole
  <2> QED BY <2>1, <2>2, <2>3 DEF Whole
<1>7. CASE Fault
  <2>1. \A u \in Task : Dies(u)
    BY <1>7, FaultMoves
  <2>2. \A u \in Task : IsWhole(task'[u].data) /\ IsWhole(task'[u].aside)
    BY <2>1, NothingDone DEF Dies, Whole, IsWhole
  <2> QED BY <1>7, <2>2 DEF Fault, Whole
<1> QED BY <1>1, <1>3, <1>4, <1>5, <1>6, <1>7 DEF Next, Acts
-----------------------------------------------------------------------------
(* Versions: nobody's world is older software's *)

\* The tasks that another one's step leaves alone.
LEMMA OthersFit ==
  ASSUME Tasks, Numbers, Alone, NEW t \in Task, Still(t),
         \A u \in Task : MakerFits(u) /\ SwapperFits(u),
         \A u \in Task \ {t} : \A b \in {task[u].name, task[u].target} :
           b # 0 => file'[b] \in {file[b], Missing},
         \/ root' = root /\ game' = game
         \/ root' = root /\ Active(t) /\ task[t].op = "update"
         \/ Active(t) /\ task[t].op \in Swappers
  PROVE  \A u \in Task \ {t} : MakerFits(u)' /\ SwapperFits(u)'
<1> SUFFICES ASSUME NEW u \in Task, u # t PROVE MakerFits(u)' /\ SwapperFits(u)'
  OBVIOUS
<1>1. /\ task'[u] = task[u] /\ (Active(u)' <=> Active(u)) /\ Now(u)' = Now(u)
      /\ \A ops, steps : On(u, ops, steps)' <=> On(u, ops, steps)
  BY DEF Still, Active, Now, On
<1>2. MakerFits(u) /\ SwapperFits(u)
  OBVIOUS
<1>3. \A content : Fits(u, content)' <=> Fits(u, content)
  BY <1>1 DEF Fits
<1>4. Fits(u, Missing)
  BY DEF Fits
<1>5. On(u, Makers, Late) /\ task[u].name # 0 => Fits(u, file'[task[u].name])
  BY <1>2, <1>4 DEF MakerFits
<1>6. On(u, Swappers, Step) => task[u].target # 0
  BY DEF On, Numbers, NumbersOf
<1>7. CASE root' = root
  <2>1. MakerFits(u)'
    BY <1>1, <1>2, <1>3, <1>5, <1>7 DEF MakerFits
  <2>2. On(u, Swappers, Step) => game' = game
    BY DEF On, Alone, Swappers
  <2>3. SwapperFits(u)'
    BY <1>1, <1>2, <1>6, <1>7, <2>2 DEF SwapperFits
  <2> QED BY <2>1, <2>3
<1>8. CASE Active(t) /\ task[t].op \in Swappers
  <2>1. Active(u) => task[u].op \in {"delete", "page"}
    BY <1>8 DEF Alone
  <2> QED BY <1>1, <2>1 DEF MakerFits, SwapperFits, On, Makers, Swappers
<1> QED BY <1>7, <1>8

\* A task that ends, or gives up its archive.
LEMMA EndedFits ==
  ASSUME Tasks, NEW t \in Task, Ended(t) \/ Errs(t)
  PROVE  MakerFits(t)' /\ SwapperFits(t)'
<1>1. CASE Ended(t)
  BY <1>1, NothingDone DEF Ended, Active, On, MakerFits, SwapperFits
<1>2. CASE t = Pass /\ GaveUp
  <2>1. task'[t].op = "scheduled" /\ task'[t].name = 0 /\ Now(t)' \in {"saveOn", "commit"}
    BY <1>2 DEF GaveUp
  <2> QED BY <2>1 DEF On, MakerFits, SwapperFits, Swappers, Early
<1> QED BY <1>1, <1>2 DEF Errs

\* A task that goes on, and has neither archived, nor unpacked, nor swapped.
LEMMA ProceedsFits ==
  ASSUME Tasks, Numbers, NEW t \in Task, Proceeds(t), MakerFits(t), SwapperFits(t),
         Now(t) \notin {"archive", "archived", "unpack", "swapOut", "swapIn"},
         task'[t].data = task[t].data, task'[t].aside = task[t].aside,
         task'[t].wanted.game = task[t].wanted.game, root' = root, game' = game,
         \A b \in {task[t].name, task[t].target} : b # 0 => file'[b] \in {file[b], Missing}
  PROVE  MakerFits(t)' /\ SwapperFits(t)'
<1>1. /\ task[t].op \in Op \ {"none"} /\ <<Now(t), Now(t)'>> \in Edges[task[t].op]
      /\ Active(t) /\ Active(t)' /\ task'[t].op = task[t].op /\ task'[t].name = task[t].name
      /\ task'[t].target = task[t].target /\ task'[t].row = task[t].row /\ Now(t) \in Step
  BY StepOf, LastSteps DEF Proceeds
<1>2. /\ Now(t)' \in Early => Now(t) \in Early
      /\ Now(t)' # "archived"
      /\ Now(t)' \in Late => Now(t) \in Late
      /\ Now(t)' \notin {"swapOut", "swapIn"}
      /\ Now(t)' \in {"remove", "finish"} /\ task[t].op \in Swappers => Now(t) = "remove"
  BY <1>1 DEF Edges, Op, Early, Late, Swappers
<1>3. \A content : Fits(t, content)' <=> Fits(t, content)
  BY <1>1 DEF Fits
<1>4. Fits(t, Missing)
  BY DEF Fits
<1>5. /\ On(t, Makers, Early)' => On(t, Makers, Early)
      /\ ~On(t, Makers, {"archived"})'
      /\ On(t, Makers, Late)' => On(t, Makers, Late)
      /\ On(t, {"update"}, Step)' => On(t, {"update"}, Step)
      /\ On(t, Swappers, Step)' => On(t, Swappers, Step)
  BY <1>1, <1>2 DEF On
<1>6. MakerFits(t)'
  <2>1. On(t, Makers, Late) /\ task[t].name # 0 => Fits(t, file'[task[t].name])
    BY <1>4 DEF MakerFits
  <2> QED BY <1>1, <1>3, <1>5, <2>1 DEF MakerFits
<1>7. SwapperFits(t)'
  <2>1. On(t, Swappers, Step) => task[t].target # 0
    BY DEF On, Numbers, NumbersOf
  <2> SUFFICES ASSUME On(t, Swappers, Step)
               PROVE  /\ task[t].row.game = game /\ task[t].wanted.game # 0
                      /\ file'[task[t].target] # Missing =>
                           file'[task[t].target].version <= task[t].wanted.game
                      /\ Now(t)' \in {"remove", "finish"} =>
                           root # Missing /\ root.version <= task[t].wanted.game
    BY <1>1, <1>2, <1>5 DEF SwapperFits
  <2>2. file'[task[t].target] \in {file[task[t].target], Missing}
    BY <2>1
  <2>3. Now(t)' \in {"remove", "finish"} => Now(t) = "remove"
    BY <1>2 DEF On
  <2> QED BY <2>2, <2>3 DEF SwapperFits
<1> QED BY <1>6, <1>7

\* The directory is what it was, and has whoever is to put it right.
LEMMA RootSame ==
  ASSUME Tasks, RootFits, NEW t \in Task, Still(t), root' = root, game' = game,
         \/ Proceeds(t) /\ Now(t) # "swapIn"
         \/ ~On(t, Swappers, {"swapIn", "remove", "finish"})
  PROVE  RootFits'
<1>1. \A u \in Task \ {t} : \A ops, steps : On(u, ops, steps)' <=> On(u, ops, steps)
  BY DEF Still, Active, Now, On
<1>2. ~On(t, Swappers, {"swapIn"})
  BY DEF On
<1>3. On(t, Swappers, {"remove", "finish"}) => On(t, Swappers, {"remove", "finish"})'
  <2>1. CASE Proceeds(t)
    <3>1. /\ task[t].op \in Op \ {"none"} /\ <<Now(t), Now(t)'>> \in Edges[task[t].op]
          /\ Active(t) /\ Active(t)' /\ task'[t].op = task[t].op
      BY <2>1, StepOf DEF Proceeds
    <3>2. Now(t) \in {"remove", "finish"} => Now(t)' = "finish"
      BY <3>1 DEF Edges, Op
    <3> QED BY <3>1, <3>2 DEF On
  <2>2. CASE ~On(t, Swappers, {"swapIn", "remove", "finish"})
    BY <2>2 DEF On
  <2> QED BY <2>1, <2>2
<1>4. CASE root = Missing
  <2>1. PICK u \in Task : On(u, Swappers, {"swapIn"})
    BY <1>4 DEF RootFits
  <2>2. On(u, Swappers, {"swapIn"})'
    BY <1>1, <1>2, <2>1
  <2> QED BY <1>4, <2>2 DEF RootFits
<1>5. CASE root # Missing
  <2>1. \A u \in Task : On(u, Swappers, {"remove", "finish"}) => On(u, Swappers, {"remove", "finish"})'
    BY <1>1, <1>3
  <2> QED BY <1>5, <2>1 DEF RootFits
<1> QED BY <1>4, <1>5

\* Rows and files change at most as they do when updates end and archives go.
LEMMA RowsSame ==
  ASSUME RowsFit,
         \A b \in Backup : file'[b] # Missing /\ backup'[b] # NoRow =>
           /\ file'[b] = file[b] /\ backup[b] # NoRow
           /\ backup'[b].installed = backup[b].installed /\ backup'[b].game = backup[b].game
           /\ backup'[b].update # "none" => backup[b].update # "none"
  PROVE  RowsFit'
BY DEF RowsFit

\* A step that leaves the directory and the version alone, and ends, or goes on
\* to nothing that concerns them.
LEMMA PlainFits ==
  ASSUME Tasks, Numbers, Alone, VersionsFit, RowsFit', NEW t \in Task, Still(t),
         root' = root, game' = game, \A b \in Backup : file'[b] \in {file[b], Missing},
         \/ /\ Ended(t) \/ Errs(t)
            /\ ~On(t, Swappers, {"swapIn", "remove", "finish"})
         \/ /\ Proceeds(t) /\ Now(t) \notin {"archive", "archived", "unpack", "swapOut", "swapIn"}
            /\ task'[t].data = task[t].data /\ task'[t].aside = task[t].aside
            /\ task'[t].wanted.game = task[t].wanted.game
  PROVE  VersionsFit'
<1>1. \A u \in Task : \A b \in {task[u].name, task[u].target} : b # 0 => file'[b] \in {file[b], Missing}
  BY TaskTyped
<1>2. \A u \in Task : MakerFits(u) /\ SwapperFits(u)
  BY DEF VersionsFit
<1>3. \A u \in Task \ {t} : MakerFits(u)' /\ SwapperFits(u)'
  BY <1>1, <1>2, OthersFit
<1>4. MakerFits(t)' /\ SwapperFits(t)'
  BY <1>1, <1>2, EndedFits, ProceedsFits
<1>5. RootFits'
  BY RootSame DEF VersionsFit
<1> QED BY <1>3, <1>4, <1>5 DEF VersionsFit

\* The rows and the files of a step that touches neither.
LEMMA RowsUntouched ==
  ASSUME RowsFit, backup' = backup, \A b \in Backup : file'[b] \in {file[b], Missing}
  PROVE  RowsFit'
BY RowsSame

\* An archive is begun.
LEMMA ArchiveBeginsFits ==
  ASSUME Stores, Tasks, Numbers, Alone, VersionsFit, NEW t \in Task, Still(t), ArchiveBegins(t),
         UNCHANGED rowVars
  PROVE  VersionsFit'
<1>1. /\ Active(t) /\ Now(t) = "archive" /\ task[t].op \in Makers
      /\ \/ root = Missing /\ Errs(t)
         \/ /\ root # Missing /\ Proceeds(t) /\ task'[t].data = root
            /\ task'[t].aside = task[t].aside /\ task'[t].wanted = task[t].wanted
  <2>1. Active(t) /\ Now(t) = "archive"
    BY ArchiveBeginsMoves DEF Stores
  <2>2. task[t].op \in Makers
    BY <2>1, StepOf DEF StepsOf, Op, Makers
  <2> QED BY <2>1, <2>2, ArchiveBeginsMoves DEF Stores
<1>2. root' = root /\ game' = game /\ file' = file /\ backup' = backup
  BY DEF ArchiveBegins, rowVars
<1>3. RowsFit'
  BY <1>2, RowsUntouched DEF VersionsFit
<1>4. CASE Errs(t)
  BY <1>1, <1>2, <1>3, <1>4, PlainFits DEF On
<1>5. CASE root # Missing /\ Proceeds(t) /\ task'[t].data = root /\ task'[t].wanted = task[t].wanted
  <2>1. \A u \in Task : MakerFits(u) /\ SwapperFits(u)
    BY DEF VersionsFit
  <2>2. \A u \in Task \ {t} : MakerFits(u)' /\ SwapperFits(u)'
    BY <1>2, <2>1, OthersFit
  <2>3. /\ task'[t].op = task[t].op /\ task'[t].row = task[t].row /\ task'[t].target = task[t].target
        /\ Now(t)' = "archived" /\ Active(t)'
    BY <1>1, <1>5, StepOf DEF Proceeds, Edges, Op
  <2>4. Fits(t, root)
    BY <1>1, <2>1 DEF MakerFits, On, Early
  <2>5. MakerFits(t)'
    <3>1. On(t, {"update"}, Step)' => On(t, {"update"}, Step)
      BY <1>1, <2>3 DEF On, Step
    <3> QED BY <1>2, <1>5, <2>1, <2>3, <2>4, <3>1 DEF MakerFits, Fits, On, Early, Late
  <2>6. SwapperFits(t)'
    <3>1. On(t, Swappers, Step)' => On(t, Swappers, Step)
      BY <1>1, <2>3 DEF On, Step
    <3> QED BY <1>2, <1>5, <2>1, <2>3, <3>1 DEF SwapperFits
  <2>7. RootFits'
    BY <1>1, <1>2, <1>5, RootSame DEF VersionsFit
  <2> QED BY <1>3, <2>2, <2>5, <2>6, <2>7 DEF VersionsFit
<1> QED BY <1>1, <1>4, <1>5

\* An archive gets its name: nobody else relies on what that name stood for.
LEMMA ArchiveEndsFits ==
  ASSUME Stores, Tasks, Numbers, Agreement, faults = 0, Alone, VersionsFit, NEW t \in Task, Still(t),
         ArchiveEnds(t), UNCHANGED rowVars
  PROVE  VersionsFit'
<1>1. /\ Active(t) /\ Now(t) = "archived" /\ Proceeds(t) /\ task[t].data # Missing
      /\ task'[t].wanted = task[t].wanted
  BY ArchiveEndsMoves
<1>2. task[t].op \in Makers
  BY <1>1, StepOf DEF StepsOf, Op, Makers
<1>3. task[t].name \in Backup
  BY <1>1, <1>2, NamedUnlessAbandoned DEF On, Step
<1> DEFINE n == task[t].name
<1>4. /\ root' = root /\ game' = game /\ backup' = backup
      /\ file'[n] = task[t].data /\ \A b \in Backup \ {n} : file'[b] = file[b]
  BY <1>3 DEF ArchiveEnds, rowVars, Stores
<1>5. Making(t, n)
  BY <1>1 DEF Making
<1>6. backup[n] = NoRow /\ \A u \in Task : task[u].target # n
  BY <1>3, <1>5 DEF Agreement, Agrees, Apart
<1>7. \A u \in Task \ {t} : task[u].name # n
  BY <1>3, BackupAssumption DEF Numbers, Backup
<1>8. n \in Backup /\ \A u \in Task : task[u].name \in Backup \cup {0} /\ task[u].target \in Backup \cup {0}
  BY <1>3, TaskTyped
<1>9. task'[t].name = n /\ task'[t].target = task[t].target /\ task'[t].row = task[t].row
      /\ task'[t].op = task[t].op /\ Active(t)' /\ <<Now(t), Now(t)'>> \in Edges[task[t].op]
      /\ task[t].op \in Op \ {"none"}
  BY <1>1, StepOf DEF Proceeds
<1> HIDE DEF n
<1>10. RowsFit'
  BY <1>4, <1>6, <1>8, RowsSame DEF VersionsFit
<1>11. \A u \in Task : MakerFits(u) /\ SwapperFits(u)
  BY DEF VersionsFit
<1>12. \A u \in Task \ {t} : MakerFits(u)' /\ SwapperFits(u)'
  <2>1. \A u \in Task \ {t} : \A b \in {task[u].name, task[u].target} : b # 0 => file'[b] \in {file[b], Missing}
    BY <1>4, <1>6, <1>7, <1>8
  <2> QED BY <1>4, <1>11, <2>1, OthersFit
<1>13. Now(t)' \in {"record", "saveOn", "retain"}
  BY <1>1, <1>9 DEF Edges, Op
<1>14. MakerFits(t)'
  <2>1. Fits(t, task[t].data)
    BY <1>1, <1>2, <1>11 DEF MakerFits, On
  <2>2. On(t, {"update"}, Step)' => On(t, {"update"}, Step)
    BY <1>1, <1>9 DEF On, Step
  <2>3. Now(t)' \notin Early \cup {"archived"}
    BY <1>13 DEF Early
  <2>4. /\ ~On(t, Makers, Early)' /\ ~On(t, Makers, {"archived"})'
        /\ On(t, {"update"}, Step)' =>
             /\ root' # Missing /\ root'.version <= task'[t].row.game
             /\ task'[t].row.game <= task'[t].wanted.game
    BY <1>1, <1>4, <1>9, <1>11, <2>2, <2>3 DEF MakerFits, On
  <2>5. Fits(t, file[task[t].name])'
    BY <1>4, <1>9, <2>1 DEF Fits
  <2> QED BY <2>4, <2>5 DEF MakerFits
<1>15. SwapperFits(t)'
  <2>1. On(t, Swappers, Step)' => On(t, Swappers, Step)
    BY <1>1, <1>9 DEF On, Step
  <2>2. On(t, Swappers, Step) => task[t].target # 0
    BY DEF On, Numbers, NumbersOf
  <2>3. On(t, Swappers, Step) => file'[task[t].target] = file[task[t].target]
    BY <1>4, <1>6, <1>8, <2>2
  <2> QED BY <1>1, <1>4, <1>9, <1>11, <1>13, <2>1, <2>3 DEF SwapperFits
<1>16. RootFits'
  BY <1>1, <1>4, RootSame DEF VersionsFit
<1> QED BY <1>10, <1>12, <1>14, <1>15, <1>16 DEF VersionsFit

\* An archive is unpacked: its version is what the row will be given.
LEMMA UnpackFits ==
  ASSUME Stores, Tasks, Numbers, Alone, VersionsFit, NEW t \in Task, Still(t), Unpack(t),
         UNCHANGED rowVars
  PROVE  VersionsFit'
<1>1. task[t].target \in Backup /\ task[t].op \in Swappers
  BY UnpackTargets
<1>2. /\ Active(t) /\ Now(t) = "unpack"
      /\ \/ Errs(t)
         \/ /\ file[task[t].target] # Missing /\ Proceeds(t) /\ task'[t].data = file[task[t].target]
            /\ task'[t].aside = task[t].aside /\ task'[t].wanted = task[t].wanted
  BY <1>1, UnpackMoves DEF Stores
<1>3. root' = root /\ game' = game /\ file' = file /\ backup' = backup
  BY DEF Unpack, rowVars
<1>4. RowsFit'
  BY <1>3, RowsUntouched DEF VersionsFit
<1>5. CASE Errs(t)
  BY <1>2, <1>3, <1>4, <1>5, PlainFits DEF On
<1>6. CASE /\ file[task[t].target] # Missing /\ Proceeds(t) /\ task'[t].data = file[task[t].target]
           /\ task'[t].wanted = task[t].wanted
  <2>1. \A u \in Task : MakerFits(u) /\ SwapperFits(u)
    BY DEF VersionsFit
  <2>2. \A u \in Task \ {t} : MakerFits(u)' /\ SwapperFits(u)'
    BY <1>3, <2>1, OthersFit
  <2>3. /\ task'[t].op = task[t].op /\ task'[t].row = task[t].row /\ task'[t].target = task[t].target
        /\ Now(t)' = "swapOut" /\ Active(t)'
    BY <1>1, <1>2, <1>6, StepOf DEF Proceeds, Edges, Op
  <2>4. On(t, Swappers, Step)
    BY <1>1, <1>2 DEF On, Step
  <2>5. MakerFits(t)'
    BY <1>1, <2>3 DEF MakerFits, On, Early, Late, Swappers
  <2>6. SwapperFits(t)'
    BY <1>3, <1>6, <2>1, <2>3, <2>4 DEF SwapperFits
  <2>7. RootFits'
    BY <1>2, <1>3, <1>6, RootSame DEF VersionsFit
  <2> QED BY <1>4, <2>2, <2>5, <2>6, <2>7 DEF VersionsFit
<1> QED BY <1>2, <1>5, <1>6

\* A swap has the directory to itself, which is there and can be opened until
\* the swap moves it away.
LEMMA Swapping ==
  ASSUME Tasks, Alone, VersionsFit, NEW t \in Task, Active(t), task[t].op \in Swappers
  PROVE  \A u \in Task \ {t} : ~On(u, Swappers, Step) /\ ~On(u, Makers, Step)
<1> SUFFICES ASSUME NEW u \in Task, u # t, Active(u) PROVE task[u].op \notin Swappers \cup Makers
  BY DEF On
<1>1. task[u].op \in {"delete", "page"}
  BY DEF Alone
<1> QED BY <1>1 DEF Swappers, Makers

\* Moving the directory aside leaves the versions fitting.
LEMMA SwapOutFits ==
  ASSUME Stores, Tasks, Numbers, Alone, VersionsFit, NEW t \in Task, Still(t), SwapOut(t),
         UNCHANGED rowVars
  PROVE  VersionsFit'
<1>1. /\ Active(t) /\ Now(t) = "swapOut"
      /\ \/ Errs(t) /\ root' = root
         \/ /\ root' = Missing /\ Proceeds(t) /\ task'[t].aside = root
            /\ task'[t].data = task[t].data /\ task'[t].wanted = task[t].wanted
  BY SwapOutMoves DEF Stores
<1>2. game' = game /\ file' = file /\ backup' = backup
  BY DEF SwapOut, rowVars
<1>3. RowsFit'
  BY <1>2, RowsUntouched DEF VersionsFit
<1>4. task[t].op \in Swappers
  BY <1>1, StepOf DEF StepsOf, Op, Swappers
<1>5. CASE Errs(t) /\ root' = root
  BY <1>1, <1>2, <1>3, <1>5, PlainFits DEF On
<1>6. CASE /\ root' = Missing /\ Proceeds(t) /\ task'[t].aside = root
           /\ task'[t].data = task[t].data /\ task'[t].wanted = task[t].wanted
  <2>1. \A u \in Task : MakerFits(u) /\ SwapperFits(u)
    BY DEF VersionsFit
  <2>2. \A u \in Task \ {t} : MakerFits(u)' /\ SwapperFits(u)'
    BY <1>1, <1>2, <1>4, <2>1, OthersFit
  <2>3. /\ task'[t].op = task[t].op /\ task'[t].row = task[t].row /\ task'[t].target = task[t].target
        /\ Now(t)' = "swapIn" /\ Active(t)'
    BY <1>1, <1>4, <1>6, StepOf DEF Proceeds, Edges, Op
  <2>4. On(t, Swappers, Step)
    BY <1>1, <1>4 DEF On, Step
  <2>5. root # Missing /\ root.version <= game
    <3>1. \A u \in Task : ~On(u, Swappers, {"swapIn", "remove", "finish"})
      BY <1>1, <1>4, Swapping DEF On, Step
    <3>2. \A u \in Task : ~On(u, Swappers, {"swapIn"}) /\ ~On(u, Swappers, {"remove", "finish"})
      BY <3>1 DEF On
    <3> QED BY <3>2 DEF VersionsFit, RootFits
  <2>6. MakerFits(t)'
    BY <1>4, <2>3 DEF MakerFits, On, Early, Late, Swappers
  <2>7. SwapperFits(t)'
    BY <1>1, <1>2, <1>6, <2>1, <2>3, <2>4, <2>5 DEF SwapperFits
  <2>8. RootFits'
    <3>1. On(t, Swappers, {"swapIn"})'
      BY <1>4, <2>3 DEF On
    <3> QED BY <1>6, <3>1 DEF RootFits
  <2> QED BY <1>3, <2>2, <2>6, <2>7, <2>8 DEF VersionsFit
<1> QED BY <1>1, <1>5, <1>6

\* So does putting another one, or the old one, in its place.
LEMMA SwapInFits ==
  ASSUME Stores, Tasks, Numbers, Alone, VersionsFit, NEW t \in Task, Still(t), SwapIn(t),
         UNCHANGED rowVars
  PROVE  VersionsFit'
<1>1. /\ Active(t) /\ Now(t) = "swapIn" /\ task[t].data # Missing
      /\ \/ root' = task[t].data /\ Proceeds(t) /\ Carries(t)
         \/ Errs(t) /\ root' = (IF root = Missing THEN task[t].aside ELSE root)
  BY SwapInMoves
<1>2. game' = game /\ file' = file /\ backup' = backup
  BY DEF SwapIn, rowVars
<1>3. RowsFit'
  BY <1>2, RowsUntouched DEF VersionsFit
<1>4. task[t].op \in Swappers /\ On(t, Swappers, Step)
  <2>1. task[t].op \in Swappers
    BY <1>1, StepOf DEF StepsOf, Op, Swappers
  <2> QED BY <1>1, <2>1 DEF On, Step
<1>5. \A u \in Task : MakerFits(u) /\ SwapperFits(u)
  BY DEF VersionsFit
<1>6. \A u \in Task \ {t} : MakerFits(u)' /\ SwapperFits(u)'
  BY <1>1, <1>2, <1>4, <1>5, OthersFit
<1>7. /\ root = Missing /\ task[t].aside # Missing /\ task[t].aside.version <= game
      /\ task[t].data.version <= task[t].wanted.game
  BY <1>1, <1>4, <1>5 DEF SwapperFits
<1>8. CASE root' = task[t].data /\ Proceeds(t) /\ Carries(t)
  <2>1. /\ task'[t].op = task[t].op /\ task'[t].row = task[t].row /\ task'[t].target = task[t].target
        /\ task'[t].wanted = task[t].wanted
        /\ Now(t)' \in {"remove", "finish"} /\ Active(t)'
    BY <1>1, <1>4, <1>8, StepOf DEF Proceeds, Edges, Op, Carries
  <2>2. MakerFits(t)'
    BY <1>4, <2>1 DEF MakerFits, On, Early, Late, Swappers
  <2>3. SwapperFits(t)'
    BY <1>1, <1>2, <1>4, <1>5, <1>7, <1>8, <2>1 DEF SwapperFits
  <2>4. RootFits'
    <3>1. On(t, Swappers, {"remove", "finish"})'
      BY <1>4, <2>1 DEF On
    <3> QED BY <1>1, <1>8, <3>1 DEF RootFits
  <2> QED BY <1>3, <1>6, <2>2, <2>3, <2>4 DEF VersionsFit
<1>9. CASE Errs(t) /\ root' = task[t].aside
  <2>1. MakerFits(t)' /\ SwapperFits(t)'
    BY <1>9, EndedFits
  <2>2. RootFits'
    BY <1>2, <1>7, <1>9 DEF RootFits
  <2> QED BY <1>3, <1>6, <2>1, <2>2 DEF VersionsFit
<1> QED BY <1>1, <1>7, <1>8, <1>9

\* The row of a new backup has the versions that its task loaded.
LEMMA RecordFits ==
  ASSUME Stores, Tasks, Numbers, Alone, VersionsFit, NEW t \in Task, Still(t), Record(t)
  PROVE  VersionsFit'
<1>1. /\ Active(t) /\ Now(t) = "record"
      /\ \/ Ended(t)
         \/ Proceeds(t) /\ Carries(t)
  BY RecordMoves
<1>2. task[t].op \in Makers
  BY <1>1, StepOf DEF StepsOf, Op, Makers
<1>3. task[t].name \in Backup /\ task[t].name # 0
  <2>1. task[t].name \in Backup
    BY <1>1, <1>2, NamedUnlessAbandoned DEF On, Step
  <2> QED BY <2>1, BackupAssumption DEF Backup
<1>4. /\ root' = root /\ game' = game /\ file' = file
      /\ backup' = [backup EXCEPT ![task[t].name] = RowOf(t)]
  BY DEF Record
<1>5. Fits(t, file[task[t].name])
  BY <1>1, <1>2, <1>3 DEF VersionsFit, MakerFits, On, Late
<1>6. RowsFit'
  <2>1. /\ RowOf(t).game = task[t].row.game /\ RowOf(t).installed = task[t].row.installed
        /\ RowOf(t).update = IF task[t].op = "update" THEN "downloading" ELSE "none"
    BY <1>1, RowTyped
  <2>2. /\ backup'[task[t].name] = RowOf(t)
        /\ \A b \in Backup \ {task[t].name} : backup'[b] = backup[b]
    BY <1>3, <1>4 DEF Stores
  <2> QED BY <1>4, <1>5, <2>1, <2>2 DEF VersionsFit, RowsFit, Fits
<1>7. ~On(t, Swappers, {"swapIn", "remove", "finish"})
  BY <1>1 DEF On
<1> QED BY <1>1, <1>4, <1>6, <1>7, PlainFits DEF Carries

\* So does the commit of the pass.
LEMMA PassCommitFits ==
  ASSUME Stores, Tasks, Numbers, Alone, VersionsFit, NEW t \in Task, Still(t), t = Pass, PassCommit
  PROVE  VersionsFit'
<1>1. Active(Pass) /\ Now(Pass) = "commit" /\ Ended(Pass) /\ task[Pass].op = "scheduled"
  <2>1. Active(Pass) /\ Now(Pass) = "commit" /\ task' = [task EXCEPT ![Pass] = NoTask]
    BY DEF PassCommit, At, Now
  <2> QED BY <2>1, LastMoves DEF Tasks, OnCourse
<1>2. /\ root' = root /\ game' = game /\ file' = file
      /\ backup' = [b \in Backup |-> IF b \in task[Pass].doomed THEN NoRow
                                     ELSE IF b = task[Pass].name THEN RowOf(Pass) ELSE backup[b]]
  BY DEF PassCommit
<1>3. RowsFit'
  <2>1. /\ RowOf(Pass).game = task[Pass].row.game /\ RowOf(Pass).update = "none"
    BY <1>1, RowTyped
  <2>2. task[Pass].name # 0 => Fits(Pass, file[task[Pass].name])
    BY <1>1 DEF VersionsFit, MakerFits, On, Late, Makers
  <2>3. \A b \in Backup : b # 0
    BY BackupAssumption DEF Backup
  <2> SUFFICES ASSUME NEW b \in Backup, file[b] # Missing, backup'[b] # NoRow
               PROVE  /\ file[b].version <= backup'[b].game
                      /\ backup'[b].update # "none" => file[b].version <= backup'[b].installed
    BY <1>2 DEF RowsFit
  <2>4. \/ backup'[b] = RowOf(Pass) /\ b = task[Pass].name
        \/ backup'[b] = backup[b]
    BY <1>2
  <2>5. CASE backup'[b] = RowOf(Pass) /\ b = task[Pass].name
    BY <2>1, <2>2, <2>3, <2>5 DEF Fits
  <2>6. CASE backup'[b] = backup[b]
    BY <2>6 DEF VersionsFit, RowsFit
  <2> QED BY <2>4, <2>5, <2>6
<1>4. ~On(Pass, Swappers, {"swapIn", "remove", "finish"})
  BY <1>1 DEF On
<1> QED BY <1>1, <1>2, <1>3, <1>4, PlainFits

\* The last commit of a handler: the version that the row is given can open the
\* world in the directory.
LEMMA FinishFits ==
  ASSUME Stores, Tasks, Numbers, Marked, faults = 0, Unasked, Alone, VersionsFit,
         NEW t \in Client, t \in Task, Still(t), Finish(t)
  PROVE  VersionsFit'
<1>1. /\ Active(t) /\ Now(t) = "finish" /\ t \in Task
      /\ task[t].op \in {"update", "rollback", "restore", "delete"}
  BY FinishRows
<1>2. /\ root' = root /\ file' = file /\ task' = [task EXCEPT ![t] = NoTask]
      /\ game' = IF task[t].wanted.game \in {0, task[t].row.game} THEN game ELSE task[t].wanted.game
  BY DEF Finish, Column
<1>3. Ended(t)
  BY <1>1, <1>2, LastMoves
<1>4. \A u \in Task : MakerFits(u) /\ SwapperFits(u)
  BY DEF VersionsFit
<1>5. RowsFit'
  <2>1. backup \in [Backup -> Row] /\ \A d \in Backup : RowNumbered(d)
    BY DEF Stores, Numbers
  <2>2. ASSUME NEW n, NEW state \in {"completed", "failed", "rolled_back"}, Settle(n, state), n \in Backup => Marks(t, n)
        PROVE  RowsFit'
    <3>1. \A b \in Backup : /\ b # n => backup'[b] = backup[b]
                            /\ backup'[b] = NoRow <=> backup[b] = NoRow
                            /\ backup'[b].installed = backup[b].installed
                            /\ backup'[b].game = backup[b].game
      BY <2>1, <2>2, Settles
    <3>2. \A b \in Backup : b = n => backup[b] = NoRow \/ backup[b].update # "none"
      BY <1>1, <2>2 DEF Marked
    <3> QED BY <1>2, <3>1, <3>2, RowsSame DEF VersionsFit
  <2>3. CASE task[t].op = "update"
    <3>1. Marks(t, task[t].name)
      BY <1>1, <2>3 DEF Marks, Settling, On
    <3> QED BY <1>1, <2>2, <2>3, <3>1, FinishRows
  <2>4. CASE task[t].op = "rollback"
    <3>1. Marks(t, task[t].target)
      BY <1>1, <2>4 DEF Marks, On, Step
    <3> QED BY <1>1, <2>2, <2>4, <3>1, FinishRows
  <2>5. CASE task[t].op = "restore"
    BY <1>2, <2>5, FinishRows, RowsUntouched DEF VersionsFit
  <2>6. CASE task[t].op = "delete"
    <3>1. backup' = [backup EXCEPT ![task[t].target] = NoRow]
      BY <2>6, FinishRows
    <3>2. \A b \in Backup : backup'[b] = NoRow \/ backup'[b] = backup[b]
      BY <2>1, <3>1
    <3> QED BY <1>2, <3>2, RowsSame DEF VersionsFit
  <2> QED BY <1>1, <2>3, <2>4, <2>5, <2>6
<1>6. CASE task[t].op = "delete"
  <2>1. game' = game
    BY <1>1, <1>2, <1>6 DEF Unasked
  <2>2. ~On(t, Swappers, {"swapIn", "remove", "finish"})
    BY <1>6 DEF On, Swappers
  <2> QED BY <1>2, <1>3, <1>5, <2>1, <2>2, PlainFits
<1>7. MakerFits(t)' /\ SwapperFits(t)'
  BY <1>3, EndedFits
<1>8. CASE task[t].op \in Swappers
  <2>1. \A u \in Task \ {t} : MakerFits(u)' /\ SwapperFits(u)'
    BY <1>1, <1>2, <1>4, <1>8, OthersFit
  <2>2. /\ task[t].row.game = game /\ task[t].wanted.game # 0
        /\ root # Missing /\ root.version <= task[t].wanted.game
    <3>1. On(t, Swappers, Step)
      BY <1>1, <1>8 DEF On, Step
    <3> QED BY <1>1, <1>4, <3>1 DEF SwapperFits
  <2>3. game' = task[t].wanted.game
    BY <1>2, <2>2
  <2>4. RootFits'
    BY <1>2, <2>2, <2>3 DEF RootFits
  <2> QED BY <1>5, <1>7, <2>1, <2>4 DEF VersionsFit
<1>9. CASE task[t].op = "update"
  <2>1. \A u \in Task \ {t} : MakerFits(u)' /\ SwapperFits(u)'
    BY <1>1, <1>2, <1>4, <1>9, OthersFit
  <2>2. /\ root # Missing /\ root.version <= task[t].row.game
        /\ task[t].row.game <= task[t].wanted.game
    <3>1. On(t, {"update"}, Step)
      BY <1>1, <1>9 DEF On, Step
    <3> QED BY <1>4, <3>1 DEF MakerFits
  <2>3. root.version <= game
    <3>1. \A u \in Task : ~On(u, Swappers, {"remove", "finish"})
      <4>1. \A u \in Task \ {t} : Active(u) => task[u].op \notin Swappers
        BY <1>1, <1>9 DEF Alone
      <4> QED BY <1>9, <4>1 DEF On, Swappers
    <3> QED BY <2>2, <3>1 DEF VersionsFit, RootFits
  <2>4. root'.version <= game'
    <3>1. root.version \in Nat /\ task[t].row.game \in Nat /\ task[t].wanted.game \in Nat
      <4>1. root \in Content
        BY <2>2 DEF Stores
      <4>2. \A v \in Version \cup {0} : v \in Nat
        BY VersionAssumption
      <4>3. root.version \in Version
        BY <4>1 DEF Content
      <4>4. task[t].row.game \in Version \cup {0} /\ task[t].wanted.game \in Version \cup {0}
        BY TaskTyped
      <4> QED BY <4>2, <4>3, <4>4
    <3> QED BY <1>2, <2>2, <2>3, <3>1
  <2>5. RootFits'
    BY <1>2, <2>2, <2>4 DEF RootFits
  <2> QED BY <1>5, <1>7, <2>1, <2>5 DEF VersionsFit
<1> QED BY <1>1, <1>6, <1>8, <1>9 DEF Swappers

\* The pass learns whether the server runs.
LEMMA StatusFits ==
  ASSUME Stores, Tasks, Numbers, Alone, VersionsFit, NEW t \in Task, Still(t), t = Pass, Status
  PROVE  VersionsFit'
<1>1. /\ Active(Pass) /\ Active(Pass)' /\ Now(Pass) = "status"
      /\ task[Pass].op = "scheduled" /\ task'[Pass].op = "scheduled"
      /\ task'[Pass].row = task[Pass].row /\ Now(Pass)' \in {"saveOff", "archive"}
  BY StatusMoves
<1>2. root' = root /\ game' = game /\ file' = file /\ backup' = backup
  BY DEF Status, rowVars
<1>3. RowsFit'
  BY <1>2, RowsUntouched DEF VersionsFit
<1>4. \A u \in Task : MakerFits(u) /\ SwapperFits(u)
  BY DEF VersionsFit
<1>5. \A u \in Task \ {t} : MakerFits(u)' /\ SwapperFits(u)'
  BY <1>2, <1>4, OthersFit
<1>6. MakerFits(Pass)' /\ SwapperFits(Pass)'
  <2>1. root # Missing /\ Fits(Pass, root)
    BY <1>1, <1>4 DEF MakerFits, On, Makers, Early
  <2> QED BY <1>1, <1>2, <2>1 DEF MakerFits, SwapperFits, Fits, On, Late, Swappers
<1>7. RootFits'
  <2>1. ~On(t, Swappers, {"swapIn", "remove", "finish"})
    BY <1>1 DEF On
  <2> QED BY <1>2, <2>1, RootSame DEF VersionsFit
<1> QED BY <1>3, <1>5, <1>6, <1>7 DEF VersionsFit

\* So does every step of a task.
LEMMA FitsActs ==
  ASSUME Stores, Tasks, Numbers, Agreement, Marked, faults = 0, Unasked, Alone, Quiet, VersionsFit,
         NEW t, Acts(t)
  PROVE  VersionsFit'
<1>1. t \in Task /\ Still(t) /\ RowsFit
  BY Acting, StillActs DEF VersionsFit
<1> USE <1>1
<1>2. CASE UNCHANGED rowVars /\ (ArchiveBegins(t) \/ ArchiveEnds(t))
  BY <1>2, ArchiveBeginsFits, ArchiveEndsFits
<1>3. CASE UNCHANGED rowVars /\ (Unpack(t) \/ SwapOut(t) \/ SwapIn(t))
  BY <1>3, UnpackFits, SwapOutFits, SwapInFits
<1>4. CASE UNCHANGED rowVars /\ ArchiveFails(t)
  <2>1. root' = root /\ game' = game /\ file' = file /\ backup' = backup
    BY <1>4 DEF ArchiveFails, rowVars
  <2>2. Errs(t) /\ ~On(t, Swappers, {"swapIn", "remove", "finish"})
    BY <1>4, ArchiveFailsMoves DEF On
  <2> QED BY <2>1, <2>2, RowsUntouched, PlainFits
<1>5. CASE UNCHANGED rowVars /\ Unlink(t)
  <2>1. root' = root /\ game' = game /\ backup' = backup
    BY <1>5 DEF Unlink, rowVars
  <2>2. /\ Active(t) /\ Now(t) = "unlink" /\ ~On(t, Swappers, {"swapIn", "remove", "finish"})
        /\ \/ Errs(t) /\ file' = file
           \/ Proceeds(t) /\ Carries(t) /\ file' = [file EXCEPT ![task[t].target] = Missing]
    BY <1>5, UnlinkMoves DEF On
  <2>3. \A b \in Backup : file'[b] \in {file[b], Missing}
    BY <2>2 DEF Stores
  <2> QED BY <2>1, <2>2, <2>3, RowsUntouched, PlainFits DEF Carries
<1>6. CASE t \in Client /\ Check(t)
  <2>1. root' = root /\ game' = game /\ file' = file /\ backup' = backup
    BY <1>6 DEF Check, rowVars
  <2>2. /\ Now(t) = "check" /\ ~On(t, Swappers, {"swapIn", "remove", "finish"})
        /\ Errs(t) \/ (Proceeds(t) /\ Carries(t))
    BY <1>6, CheckMoves DEF On
  <2> QED BY <2>1, <2>2, RowsUntouched, PlainFits DEF Carries
<1>7. CASE t \in Client /\ Record(t)
  BY <1>7, RecordFits
<1>8. CASE t \in Client /\ RecordRefused(t)
  <2>1. root' = root /\ game' = game /\ backup' = backup /\ file' = [file EXCEPT ![task[t].name] = Missing]
    BY <1>8 DEF RecordRefused, rowVars
  <2>2. \A b \in Backup : file'[b] \in {file[b], Missing}
    BY <2>1 DEF Stores
  <2>3. Ended(t) /\ ~On(t, Swappers, {"swapIn", "remove", "finish"})
    BY <1>8, RecordRefusedMoves DEF On
  <2> QED BY <2>1, <2>2, <2>3, RowsUntouched, PlainFits
<1>9. CASE t \in Client /\ Fetch(t)
  <2>1. root' = root /\ game' = game /\ file' = file
    BY <1>9 DEF Fetch
  <2>2. /\ Active(t) /\ Now(t) = "fetch" /\ ~On(t, Swappers, {"swapIn", "remove", "finish"})
        /\ \/ Proceeds(t) /\ Carries(t) /\ backup' = backup
           \/ Ended(t) /\ Settle(task[t].name, "failed")
    BY <1>9, FetchMoves DEF On
  <2>3. RowsFit'
    <3>1. CASE backup' = backup
      BY <2>1, <3>1, RowsUntouched
    <3>2. CASE Settle(task[t].name, "failed")
      <4>1. \A b \in Backup : /\ b # task[t].name => backup'[b] = backup[b]
                              /\ backup'[b] = NoRow <=> backup[b] = NoRow
                              /\ backup'[b].installed = backup[b].installed
                              /\ backup'[b].game = backup[b].game
        BY <3>2, Settles DEF Stores, Numbers
      <4>2. task[t].op = "update"
        BY <2>2, StepOf DEF StepsOf, Op
      <4>3. Marks(t, task[t].name)
        BY <2>2, <4>2 DEF Marks, Settling, On
      <4>4. \A b \in Backup : b = task[t].name => backup[b] = NoRow \/ backup[b].update # "none"
        BY <4>3 DEF Marked
      <4> QED BY <2>1, <4>1, <4>4, RowsSame
    <3> QED BY <2>2, <3>1, <3>2
  <2> QED BY <2>1, <2>2, <2>3, PlainFits DEF Carries
<1>10. CASE t \in Client /\ Remove(t)
  <2>1. root' = root /\ game' = game /\ file' = file /\ backup' = backup
    BY <1>10 DEF Remove, rowVars
  <2>2. Now(t) = "remove" /\ Proceeds(t) /\ Carries(t)
    BY <1>10, RemoveMoves
  <2> QED BY <2>1, <2>2, RowsUntouched, PlainFits DEF Carries
<1>11. CASE t \in Client /\ Finish(t)
  BY <1>11, FinishFits
<1>12. CASE t \in Client /\ Look(t)
  <2>1. root' = root /\ game' = game /\ file' = file /\ backup' = backup /\ root \in Content \cup {Missing}
    BY <1>12 DEF Look, rowVars, Stores
  <2>2. /\ Active(t) /\ Now(t) = "look" /\ ~On(t, Swappers, {"swapIn", "remove", "finish"})
    BY <1>12, <2>1, LookMoves DEF On
  <2>3. CASE Errs(t)
    BY <2>1, <2>2, <2>3, RowsUntouched, PlainFits
  <2>4. CASE ~Errs(t)
    <3>1. \A u \in Task : MakerFits(u) /\ SwapperFits(u)
      BY DEF VersionsFit
    <3>2. \A u \in Task \ {t} : MakerFits(u)' /\ SwapperFits(u)'
      BY <2>1, <3>1, OthersFit
    <3>3. task[t].op = "page" /\ task'[t].op = "page"
      <4>1. task'[t].op = task[t].op
        BY <1>12, <2>1, <2>4, LookMoves DEF Proceeds
      <4>2. task[t].op = "page"
        BY <2>2, StepOf DEF StepsOf, Op
      <4> QED BY <4>1, <4>2
    <3>4. MakerFits(t)' /\ SwapperFits(t)'
      BY <3>3 DEF MakerFits, SwapperFits, On, Makers, Swappers
    <3> QED BY <2>1, <2>2, <3>2, <3>4, RowsUntouched, RootSame DEF VersionsFit
  <2> QED BY <2>3, <2>4
<1>13. CASE t \in Client /\ Note(t)
  <2>1. /\ root' = root /\ game' = game /\ file' = file /\ backup' = backup
        /\ Active(t) /\ Now(t) = "note" /\ task' = [task EXCEPT ![t] = NoTask]
    BY <1>13 DEF Note, At, Now
  <2>2. Ended(t) /\ ~On(t, Swappers, {"swapIn", "remove", "finish"})
    BY <2>1, LastMoves DEF On
  <2> QED BY <2>1, <2>2, RowsUntouched, PlainFits
<1>14. CASE t = Pass /\ Status
  BY <1>14, StatusFits
<1>15. CASE t = Pass /\ (SaveOff \/ Flush \/ SaveOn)
  <2>1. root' = root /\ game' = game /\ file' = file /\ backup' = backup
    BY <1>15 DEF SaveOff, Flush, SaveOn, rowVars
  <2>2. /\ Now(t) \in {"saveOff", "flush", "saveOn"} /\ ~On(t, Swappers, {"swapIn", "remove", "finish"})
        /\ Errs(t) \/ (Proceeds(t) /\ Carries(t))
    BY <1>15, SaveOffMoves, FlushMoves, SaveOnMoves DEF On, Errs
  <2> QED BY <2>1, <2>2, RowsUntouched, PlainFits DEF Carries
<1>16. CASE t = Pass /\ Retain
  <2>1. root' = root /\ game' = game /\ backup' = backup
    BY <1>16 DEF Retain, rowVars
  <2>2. /\ Now(t) = "retain" /\ Proceeds(t)
        /\ task'[t].data = task[t].data /\ task'[t].aside = task[t].aside
        /\ task'[t].wanted = task[t].wanted
        /\ file' = [b \in Backup |-> IF b \in task'[Pass].doomed THEN Missing ELSE file[b]]
    BY <1>16, RetainNames, RetainMoves
  <2>3. \A b \in Backup : file'[b] \in {file[b], Missing}
    BY <2>2
  <2> QED BY <2>1, <2>2, <2>3, RowsUntouched, PlainFits
<1>17. CASE t = Pass /\ PassCommit
  BY <1>17, PassCommitFits
<1> QED BY <1>2, <1>3, <1>4, <1>5, <1>6, <1>7, <1>8, <1>9, <1>10, <1>11, <1>12, <1>13, <1>14,
           <1>15, <1>16, <1>17, Acting

\* A task that begins undisturbed finds a world that the server's version opens.
LEMMA BeginsWhole ==
  ASSUME VersionsFit, NEW op \in Op \ {"none", "delete", "page"}, ~Disturbs(op)
  PROVE  root # Missing /\ root.version <= game
<1>1. \A u \in Task : Active(u) => task[u].op \notin Swappers
  <2> SUFFICES ASSUME NEW u \in Task, Active(u), task[u].op \in Swappers PROVE FALSE
    OBVIOUS
  <2>1. {"delete", "page"} \cap {op, task[u].op} = {} /\ {op, task[u].op} \cap {"restore", "rollback"} # {}
    BY DEF Swappers
  <2> QED BY <2>1 DEF Disturbs
<1>2. \A u \in Task : ~On(u, Swappers, {"swapIn"}) /\ ~On(u, Swappers, {"remove", "finish"})
  BY <1>1 DEF On
<1> QED BY <1>2 DEF VersionsFit, RootFits

\* A task that begins with fitting versions leaves those of the others fitting.
LEMMA StartsFit ==
  ASSUME Tasks, Numbers, Alone, VersionsFit, NEW t \in Task, Still(t), ~Active(t),
         UNCHANGED <<root, file, backup, game>>, MakerFits(t)', SwapperFits(t)'
  PROVE  VersionsFit'
<1>1. RowsFit'
  BY RowsUntouched DEF VersionsFit
<1>2. \A u \in Task : MakerFits(u) /\ SwapperFits(u)
  BY DEF VersionsFit
<1>3. \A u \in Task \ {t} : MakerFits(u)' /\ SwapperFits(u)'
  BY <1>2, OthersFit
<1>4. RootFits'
  <2>1. ~On(t, Swappers, {"swapIn", "remove", "finish"})
    BY DEF On
  <2> QED BY <2>1, RootSame DEF VersionsFit
<1> QED BY <1>1, <1>3, <1>4 DEF VersionsFit

\* A handler begins with fitting versions.
LEMMA BeginFits ==
  ASSUME Stores, Tasks, Numbers, Alone, VersionsFit, ~disturbed',
         NEW c \in Client, NEW op \in Op \ {"none", "scheduled"}, NEW b \in Backup \cup {0},
         NEW v \in Version \cup {0}, Begin(c, op, b, v)
  PROVE  VersionsFit'
<1>1. /\ c \in Task /\ ~Active(c) /\ Active(c)' /\ task'[c].op = op /\ task'[c].target = b
      /\ task'[c].row = [installed |-> installed, game |-> game] /\ task'[c].wanted = Wanted(op, b, v)
      /\ Now(c)' \in {"check", "unlink", "look"}
  <2>1. /\ c \in Task
        /\ Starts(c, op, b, IF made' = made THEN 0 ELSE made', [installed |-> installed, game |-> game],
                  Wanted(op, b, v))
    BY BeginMoves
  <2> QED BY <2>1 DEF Starts
<1>2. UNCHANGED <<root, file, backup, game>> /\ Still(c)
  BY DEF Begin, Still, Tasks
<1>3. /\ IF op \in {"restore", "rollback", "delete"} THEN b \in Rows ELSE b = 0
      /\ op = "rollback" => backup[b].update # "none"
      /\ IF op = "update" THEN v \in Version ELSE v = 0
  BY DEF Begin
<1>4. ~Disturbs(op)
  BY Zenon DEF Begin
<1>5. op = "update" => ~(v < game) /\ ~Unnoted
  BY Zenon DEF Begin
<1>6. op \notin {"delete", "page"} => root # Missing /\ root.version <= game
  BY <1>4, BeginsWhole
<1>7. /\ task'[c].row.game = game /\ task'[c].row.installed = installed
      /\ op = "update" => task'[c].wanted.game = v
      /\ op = "restore" => task'[c].wanted.game = backup[b].game
      /\ op = "rollback" => task'[c].wanted.game = backup[b].installed
  BY <1>1 DEF Wanted
<1>8. MakerFits(c)'
  <2>1. op = "update" => root.version <= installed /\ game <= v
    <3>1. \A x \in Version : x \in Nat
      BY VersionAssumption
    <3> SUFFICES ASSUME op = "update" PROVE root.version <= installed /\ game <= v
      OBVIOUS
    <3>2. ~(v < game) /\ ~(root.version > installed)
      BY <1>5, <1>6 DEF Unnoted
    <3>3. v \in Nat /\ game \in Nat /\ installed \in Nat /\ root.version \in Nat
      <4>1. root \in Content
        BY <1>6 DEF Stores
      <4>2. root.version \in Version
        BY <4>1 DEF Content
      <4> QED BY <1>3, <3>1, <4>2 DEF Stores
    <3> QED BY <3>2, <3>3
  <2>2. On(c, Makers, Step)' => op \notin {"delete", "page"}
    BY <1>1 DEF On, Makers
  <2>3. ~On(c, Makers, {"archived"})' /\ ~On(c, Makers, Late)'
    BY <1>1 DEF On, Late
  <2>4. On(c, Makers, Early)' => root' # Missing /\ Fits(c, root)'
    BY <1>1, <1>2, <1>6, <1>7, <2>1 DEF On, Makers, Fits
  <2>5. On(c, {"update"}, Step)' => /\ root' # Missing /\ root'.version <= task'[c].row.game
                                    /\ task'[c].row.game <= task'[c].wanted.game
    BY <1>1, <1>2, <1>6, <1>7, <2>1 DEF On
  <2> QED BY <2>3, <2>4, <2>5 DEF MakerFits
<1>9. SwapperFits(c)'
  <2> SUFFICES ASSUME op \in Swappers
               PROVE  /\ task'[c].wanted.game # 0
                      /\ file[b] # Missing => file[b].version <= task'[c].wanted.game
    BY <1>1, <1>2, <1>7 DEF SwapperFits, On
  <2>1. b \in Backup /\ backup[b] # NoRow
    BY <1>3 DEF Swappers, Rows
  <2>2. backup[b].game # 0 /\ backup[b].installed # 0
    BY <2>1 DEF Numbers, RowNumbered
  <2>3. file[b] # Missing => /\ file[b].version <= backup[b].game
                             /\ backup[b].update # "none" => file[b].version <= backup[b].installed
    BY <2>1 DEF VersionsFit, RowsFit
  <2> QED BY <1>3, <1>7, <2>2, <2>3 DEF Swappers
<1> QED BY <1>1, <1>2, <1>8, <1>9, StartsFit

\* So does the pass.
LEMMA PassBeginsFits ==
  ASSUME Stores, Tasks, Numbers, Alone, VersionsFit, ~disturbed', PassBegins
  PROVE  VersionsFit'
<1>1. /\ Pass \in Task /\ ~Active(Pass) /\ Active(Pass)' /\ task'[Pass].op = "scheduled"
      /\ task'[Pass].row = [installed |-> installed, game |-> game] /\ Now(Pass)' = "status"
  <2>1. Starts(Pass, "scheduled", 0, made', [installed |-> installed, game |-> game], NoVersions)
    BY PassBeginsMoves
  <2> QED BY <2>1 DEF Starts, Task
<1>2. UNCHANGED <<root, file, backup, game>> /\ Still(Pass)
  BY DEF PassBegins, Still, Tasks
<1>3. ~Disturbs("scheduled")
  BY Zenon DEF PassBegins
<1>4. root # Missing /\ root.version <= game
  BY <1>3, BeginsWhole DEF Op
<1>5. MakerFits(Pass)'
  BY <1>1, <1>2, <1>4 DEF MakerFits, Fits, On, Late
<1>6. SwapperFits(Pass)'
  BY <1>1 DEF SwapperFits, On, Swappers
<1> QED BY <1>1, <1>2, <1>5, <1>6, StartsFit

\* Starts and stops that disturb nobody meet no task but deletions.
LEMMA PowerFits ==
  ASSUME Stores, Tasks, Numbers, Alone, Quiet, VersionsFit, Power \/ Save, ~disturbed'
  PROVE  VersionsFit'
<1>1. task' = task /\ file' = file /\ backup' = backup /\ game' = game
  BY NothingTorn, PowerMoves DEF rowVars
<1>2. RowsFit'
  BY <1>1, RowsUntouched DEF VersionsFit
<1>3. \A u \in Task : \A ops, steps : On(u, ops, steps)' <=> On(u, ops, steps)
  BY <1>1 DEF On, Active, Now
<1>4. CASE root' = root
  <2>1. RootFits'
    BY <1>1, <1>3, <1>4 DEF VersionsFit, RootFits
  <2>2. \A u \in Task : MakerFits(u) /\ SwapperFits(u)
    BY DEF VersionsFit
  <2>3. \A u \in Task : MakerFits(u)' /\ SwapperFits(u)'
    BY <1>1, <1>3, <1>4, <2>2 DEF MakerFits, SwapperFits, Fits, Now
  <2> QED BY <1>2, <2>1, <2>3 DEF VersionsFit
<1>5. CASE Power /\ root' = [version |-> game, whole |-> root = Missing \/ root.whole]
  <2>1. \A u \in Task : Active(u) => task[u].op = "delete"
    BY <1>5, PowerDisturbs
  <2>2. \A u \in Task : MakerFits(u)' /\ SwapperFits(u)'
    BY <1>1, <2>1 DEF MakerFits, SwapperFits, On, Makers, Swappers, Active
  <2>3. root' \in Content /\ root'.version = game
    <3>1. (root = Missing \/ root.whole) \in BOOLEAN
      <4>1. root = Missing \/ root \in Content
        BY DEF Stores
      <4> QED BY <4>1 DEF Content
    <3> QED BY <1>5, <3>1 DEF Content, Stores
  <2>4. RootFits'
    <3>1. root' # Missing /\ root'.version <= game'
      <4>1. game \in Nat
        BY VersionAssumption DEF Stores
      <4> QED BY <1>1, <2>3, <4>1, MissingAssumption
    <3> QED BY <3>1 DEF RootFits
  <2> QED BY <1>2, <2>2, <2>4 DEF VersionsFit
<1> QED BY <1>4, <1>5 DEF Power, Save, ServerStarts, ServerStops, ServerSaves

\* As long as nobody disturbs and nothing fails, every step leaves the versions
\* fitting.
LEMMA FitsKept ==
  ASSUME Stores, Tasks, Numbers, Agreement, Marked, faults = 0, Unasked, Alone, Quiet, VersionsFit,
         Next, ~disturbed', faults' = 0
  PROVE  VersionsFit'
<1>1. CASE \E t : Acts(t)
  BY <1>1, FitsActs
<1>2. ASSUME NEW c \in Client, NEW op \in Op \ {"none", "scheduled"}, NEW b \in Backup \cup {0},
             NEW v \in Version \cup {0}, Begin(c, op, b, v)
      PROVE  VersionsFit'
  BY <1>2, BeginFits
<1>3. CASE SetPolicy \/ TimePasses
  BY <1>3 DEF SetPolicy, TimePasses, storeVars, VersionsFit, RowsFit, RootFits, MakerFits,
     SwapperFits, Fits, On, Active, Now
<1>4. CASE PassBegins
  BY <1>4, PassBeginsFits
<1>5. CASE Power \/ Save
  BY <1>5, PowerFits
<1>6. CASE Fault
  BY <1>6, FaultAssumption DEF Fault
<1> QED BY <1>1, <1>2, <1>3, <1>4, <1>5, <1>6 DEF Next, Acts
-----------------------------------------------------------------------------
(* The invariant *)

\* Deletions go on without versions to write.
LEMMA UnaskedActs ==
  ASSUME Stores, Tasks, Numbers, Unasked, NEW t, Acts(t)
  PROVE  Unasked'
<1>1. t \in Task /\ Others(t) /\ \A u \in Task : Active(u)' => Active(u) /\ task'[u].op = task[u].op
  BY Acting, OthersKept, ActsOperations
<1>2. ASSUME NEW u \in Task \ {t}, Active(u)', task'[u].op = "delete" PROVE task'[u].wanted.game = 0
  BY <1>1, <1>2, KeptFields DEF Others, Unasked
<1>3. ASSUME Active(t)', task'[t].op = "delete" PROVE task'[t].wanted.game = 0
  <2>1. Active(t) /\ task[t].op = "delete" /\ t # Pass /\ task[t].wanted.game = 0
    BY <1>1, <1>3 DEF Tasks, OnCourse, Unasked
  <2>2. Now(t) \in {"unlink", "finish"}
    BY <1>1, <2>1, StepOf DEF StepsOf
  <2>3. Unlink(t) \/ Finish(t)
    <3>1. CASE Now(t) = "unlink"
      BY <2>1, <3>1, Acting DEF ArchiveBegins, ArchiveEnds, ArchiveFails, Unpack, SwapOut, SwapIn,
         Check, Record, RecordRefused, Fetch, Remove, Finish, Look, Note, At, Now
    <3>2. CASE Now(t) = "finish"
      BY <2>1, <3>2, Acting DEF ArchiveBegins, ArchiveEnds, ArchiveFails, Unpack, SwapOut, SwapIn, Unlink,
         Check, Record, RecordRefused, Fetch, Remove, Look, Note, At, Now
    <3> QED BY <2>2, <3>1, <3>2
  <2>4. ~Ended(t)
    BY <1>3, NothingDone DEF Ended, Active
  <2>5. Unlink(t)
    BY <1>1, <2>1, <2>3, <2>4, LastMoves DEF Finish
  <2>6. Carries(t)
    BY <1>1, <2>1, <2>4, <2>5, UnlinkMoves DEF Errs
  <2> QED BY <2>1, <2>6 DEF Carries
<1> QED BY <1>2, <1>3 DEF Unasked

\* Every step leaves deletions without versions.
LEMMA UnaskedKept ==
  ASSUME Stores, Tasks, Numbers, Unasked, Next
  PROVE  Unasked'
<1>1. CASE \E t : Acts(t)
  BY <1>1, UnaskedActs
<1>2. ASSUME NEW c \in Client, NEW op \in Op \ {"none", "scheduled"}, NEW b \in Backup \cup {0},
             NEW v \in Version \cup {0}, Begin(c, op, b, v)
      PROVE  Unasked'
  <2>1. /\ Others(c) /\ c \in Task
        /\ Starts(c, op, b, IF made' = made THEN 0 ELSE made', [installed |-> installed, game |-> game],
                  Wanted(op, b, v))
    BY <1>2, BeginMoves
  <2>2. op = "delete" => task'[c].wanted.game = 0
    BY <2>1 DEF Starts, Wanted, NoVersions
  <2>3. \A u \in Task \ {c} : Active(u)' /\ task'[u].op = "delete" => task'[u].wanted.game = 0
    BY <2>1, KeptFields DEF Others, Unasked
  <2> QED BY <2>1, <2>2, <2>3 DEF Starts, Unasked
<1>3. CASE SetPolicy \/ TimePasses
  BY <1>3 DEF SetPolicy, TimePasses, storeVars, Unasked, Active
<1>4. CASE PassBegins
  <2>1. /\ Others(Pass) /\ Pass \in Task
        /\ Starts(Pass, "scheduled", 0, made', [installed |-> installed, game |-> game], NoVersions)
    BY <1>4, PassBeginsMoves
  <2>2. \A u \in Task \ {Pass} : Active(u)' /\ task'[u].op = "delete" => task'[u].wanted.game = 0
    BY <2>1, KeptFields DEF Others, Unasked
  <2> QED BY <2>1, <2>2 DEF Starts, Unasked
<1>5. CASE Power \/ Save
  <2>1. AllKept
    BY <1>5, PowerMoves, TearMoves
  <2> QED BY <2>1, KeptFields DEF AllKept, Unasked
<1>6. CASE Fault
  <2>1. task' \in [Task -> TaskRecord] /\ \A u \in Task : Dies(u)
    BY <1>6, FaultMoves
  <2> QED BY <2>1, NothingDone DEF Dies, Active, Unasked
<1> QED BY <1>1, <1>2, <1>3, <1>4, <1>5, <1>6 DEF Next, Acts

\* Neither a disturbance nor a fault is ever undone.
LEMMA Lasting ==
  ASSUME Stores, Next
  PROVE  (~disturbed' => ~disturbed) /\ (faults' = 0 => faults = 0)
<1>1. CASE \E t : Acts(t)
  BY <1>1, Acting
<1>2. CASE \E c \in Client, op \in Op \ {"none", "scheduled"}, b \in Backup \cup {0},
             v \in Version \cup {0} : Begin(c, op, b, v)
  BY <1>2, Zenon DEF Begin
<1>3. CASE SetPolicy \/ TimePasses
  BY <1>3 DEF SetPolicy, TimePasses
<1>4. CASE PassBegins
  BY <1>4, Zenon DEF PassBegins
<1>5. CASE Power \/ Save
  BY <1>5, PowerMoves
<1>6. CASE Fault
  BY <1>6, FaultAssumption DEF Fault, Stores
<1> QED BY <1>1, <1>2, <1>3, <1>4, <1>5, <1>6 DEF Next, Acts

\* The first state has nothing that is wrong.
LEMMA Initially == Init => IInv
<1> SUFFICES ASSUME Init PROVE IInv
  OBVIOUS
<1>1. \A t \in Task : task[t] = NoTask /\ ~Active(t)
  BY NothingDone DEF Init, StoreInit, Active
<1>2. First \in Version /\ First \in Nat /\ First # 0
  BY VersionAssumption
<1>3. \A b \in Backup : backup[b] = NoRow /\ file[b] = Missing
  BY DEF Init, StoreInit
<1>4. root \in Content /\ root # Missing /\ root.version = First /\ root.whole
  <2>1. root = [version |-> First, whole |-> TRUE]
    BY DEF Init, StoreInit
  <2>2. root \in Content
    BY <1>2, <2>1 DEF Content
  <2> QED BY <2>1, <2>2, MissingAssumption
<1>5. Stores
  <2>1. NoRow \in Row
    BY DEF NoRow, Row
  <2>2. server \in [up : BOOLEAN, saves : BOOLEAN,
                    container : [game : Version, java : Version] \cup {Missing}]
    BY <1>2 DEF Init, StoreInit
  <2>3. installed = First /\ game = First
    BY <1>4 DEF Init
  <2>4. /\ backup \in [Backup -> Row] /\ file \in [Backup -> Content \cup {Missing}]
        /\ schedule = "off" /\ made = 0 /\ faults = 0 /\ disturbed = FALSE
    BY <2>1 DEF Init, StoreInit
  <2>5. made \in 0 .. MaxBackups /\ faults \in 0 .. MaxFaults
    BY <2>4, BackupAssumption, FaultAssumption
  <2> QED BY <1>2, <1>4, <2>2, <2>3, <2>4, <2>5 DEF Stores
<1>6. Tasks
  BY <1>1, NoTaskTyped DEF Init, StoreInit, Tasks, OnCourse
<1>7. Numbers
  <2>1. made = 0
    BY DEF Init
  <2>2. \A t \in Task : NumbersOf(t)
    BY <1>1, <2>1, NothingDone DEF NumbersOf, On
  <2>3. \A b \in Backup : RowNumbered(b) /\ FileNumbered(b)
    BY <1>3 DEF RowNumbered, FileNumbered
  <2> QED BY <1>1, <2>2, <2>3, NothingDone DEF Numbers
<1>8. \A t \in Task, b \in Backup : ~Making(t, b) /\ ~Made(t, b) /\ ~Removing(t, b) /\ ~Marks(t, b)
  BY <1>1, NothingDone DEF Making, Made, Removing, On, Marks, Settling
<1>9. Agreement
  BY <1>3, <1>8 DEF Agreement, Held, Agrees, Apart
<1>10. Downloads /\ Marked
  <2>1. \A b \in Backup : backup[b].update # "downloading"
    BY <1>3 DEF NoRow
  <2> QED BY <1>8, <2>1 DEF Downloads, Marked
<1>11. Resuming /\ Unasked
  BY <1>1 DEF Resuming, Paused, Unasked, Init, StoreInit
<1>12. Alone /\ Quiet
  BY <1>1 DEF Alone, Quiet, On, Task
<1>13. Whole
  BY <1>1, <1>3, <1>4, NothingDone DEF Whole, IsWhole
<1>14. VersionsFit
  <2>1. RootFits
    BY <1>2, <1>4 DEF RootFits, Init
  <2>2. \A t \in Task : MakerFits(t) /\ SwapperFits(t)
    BY <1>1 DEF MakerFits, SwapperFits, On
  <2> QED BY <1>3, <2>1, <2>2 DEF VersionsFit, RowsFit
<1> QED BY <1>5, <1>6, <1>7, <1>9, <1>10, <1>11, <1>12, <1>13, <1>14 DEF IInv

\* A step that changes nothing keeps the invariant.
LEMMA Stuttering == IInv /\ UNCHANGED vars => IInv'
<1> SUFFICES ASSUME IInv, UNCHANGED vars PROVE IInv'
  OBVIOUS
<1>1. /\ UNCHANGED <<root, file, server, task>>
      /\ UNCHANGED <<backup, installed, game, schedule, made, faults, disturbed>>
  BY DEF vars, storeVars, rowVars
<1>2. Stores' /\ Tasks' /\ Numbers'
  BY <1>1 DEF IInv, Stores, Tasks, OnCourse, Active, Now, Numbers, NumbersOf, On, Abandoned,
     RowNumbered, FileNumbered
<1>3. \A t \in Task, b \in Backup :
        /\ Making(t, b)' <=> Making(t, b)
        /\ Made(t, b)' <=> Made(t, b)
        /\ Removing(t, b)' <=> Removing(t, b)
        /\ Settling(t, b)' <=> Settling(t, b)
        /\ Marks(t, b)' <=> Marks(t, b)
  BY <1>1 DEF Making, Made, Removing, Settling, Marks, On, Active, Now
<1>4. Agreement' /\ Downloads' /\ Marked'
  BY <1>1, <1>3 DEF IInv, Agreement, Held, Agrees, Apart, Downloads, Marked
<1>5. Resuming' /\ Unasked'
  BY <1>1 DEF IInv, Resuming, Paused, Resumes, Unasked, Active
<1>6. ~disturbed' => Alone' /\ Quiet' /\ Whole'
  BY <1>1 DEF IInv, Alone, Quiet, Whole, IsWhole, On, Active, Now
<1>7. ~disturbed' /\ faults' = 0 => VersionsFit'
  BY <1>1 DEF IInv, VersionsFit, RowsFit, RootFits, MakerFits, SwapperFits, Fits, On, Active, Now
<1> QED BY <1>2, <1>4, <1>5, <1>6, <1>7 DEF IInv

\* Every step keeps the invariant.
LEMMA Inductively == IInv /\ [Next]_vars => IInv'
<1>1. ASSUME IInv, Next PROVE IInv'
  <2>1. Stores /\ Tasks /\ Numbers /\ Agreement /\ Downloads /\ Marked /\ Resuming /\ Unasked
    BY <1>1 DEF IInv
  <2>2. (~disturbed' => ~disturbed) /\ (faults' = 0 => faults = 0)
    BY <1>1, <2>1, Lasting
  <2>3. Stores' /\ Tasks' /\ Numbers'
    BY <1>1, <2>1, StoresKept, NumbersKept
  <2>4. Agreement' /\ Downloads' /\ Marked'
    BY <1>1, <2>1, AgreementKept, UpdatesKept
  <2>5. Resuming' /\ Unasked'
    BY <1>1, <2>1, ResumingKept, UnaskedKept
  <2>6. ASSUME ~disturbed' PROVE Alone' /\ Quiet' /\ Whole'
    <3>1. Alone /\ Quiet /\ Whole
      BY <1>1, <2>2, <2>6, Zenon DEF IInv
    <3> QED BY <1>1, <2>1, <2>6, <3>1, AloneKept, QuietKept, WholeKept
  <2>7. ASSUME ~disturbed', faults' = 0 PROVE VersionsFit'
    <3>1. ~disturbed /\ faults = 0
      BY <2>2, <2>7
    <3>2. Alone /\ Quiet /\ VersionsFit
      BY <1>1, <3>1, Zenon DEF IInv
    <3> QED BY <1>1, <2>1, <2>7, <3>1, <3>2, FitsKept
  <2> QED BY <2>3, <2>4, <2>5, <2>6, <2>7, Zenon DEF IInv
<1> QED BY <1>1, Stuttering

\* Every reachable state satisfies the invariant.
THEOREM Invariant == Spec => []IInv
<1> QED BY Initially, Inductively, PTL DEF Spec
-----------------------------------------------------------------------------
(* What follows from it *)

\* Every variable of the backups has its type.
THEOREM TypeCorrect == Spec => []TypeOK
<1>1. IInv => TypeOK
  BY DEF IInv, Stores, Tasks, TaskRecord, Row, TypeOK, StoreTypeOK
<1> QED BY <1>1, Invariant, PTL

\* A server whose saves are paused has a pass at work that will resume them,
\* whatever fails in _scheduled_backup and whoever stops and starts the server
\* meanwhile, unless the panel dies or the resuming itself fails.
THEOREM SavesAreResumed == Spec => []SavesResume
<1>1. IInv => SavesResume
  BY FaultAssumption DEF IInv, Stores, Resuming, SavesResume
<1> QED BY <1>1, Invariant, PTL

\* Whenever no handler and no pass is at work, the listed backups are those
\* that have an archive, and every update has ended, however creations,
\* restores, updates, deletions and scheduled backups have overlapped.
THEOREM ArchivesAreListed == Spec => []FilesAndRowsAgree
<1>1. IInv => FilesAndRowsAgree
  <2> SUFFICES ASSUME IInv, AtRest, faults = 0
               PROVE  Stored = Rows /\ \A b \in Rows : backup[b].update # "downloading"
    BY DEF FilesAndRowsAgree
  <2>1. \A t \in Task, b \in Backup : ~Made(t, b) /\ ~Settling(t, b)
    BY DEF AtRest, Made, Settling, On
  <2>2. \A t \in Task, b \in Backup : ~Removing(t, b)
    <3>1. \A t \in Task : NumbersOf(t) /\ ~Active(t)
      BY DEF IInv, Numbers, AtRest
    <3>2. \A t \in Task : task[t].doomed = {}
      BY <3>1 DEF NumbersOf, On
    <3> QED BY <3>1, <3>2 DEF Removing, On
  <2>3. \A b \in Backup : Held(b)
    BY DEF IInv, Agreement
  <2>4. \A b \in Backup : file[b] # Missing <=> backup[b] # NoRow
    BY <2>1, <2>2, <2>3 DEF Held
  <2>5. \A b \in Backup : backup[b].update # "downloading"
    BY <2>1 DEF IInv, Downloads
  <2> QED BY <2>4, <2>5 DEF Stored, Rows
<1> QED BY <1>1, Invariant, PTL

\* An archive is never torn by the server that writes to the directory: the
\* handlers archive a stopped server, the pass a stopped one or one whose
\* saves are paused and flushed.
THEOREM BackupsAreWhole == Spec => []ArchivesWhole
<1>1. IInv => ArchivesWhole
  BY DEF IInv, Whole, IsWhole, ArchivesWhole, Stored
<1> QED BY <1>1, Invariant, PTL

\* Whenever the panel is at rest the world is whole and no newer than the
\* version that will open it, however updates, restores and rollbacks went.
THEOREM WorldsOpen == Spec => []NoDowngrade
<1>1. IInv => NoDowngrade
  <2> SUFFICES ASSUME IInv, AtRest, ~disturbed, faults = 0 PROVE Opens
    BY DEF NoDowngrade
  <2>1. IsWhole(root) /\ RootFits
    BY DEF IInv, Whole, VersionsFit
  <2>2. \A t \in Task : ~On(t, Swappers, {"swapIn"}) /\ ~On(t, Swappers, {"remove", "finish"})
    BY DEF AtRest, On
  <2> QED BY <2>1, <2>2 DEF IsWhole, RootFits, Opens
<1> QED BY <1>1, Invariant, PTL

\* Among finitely many backups one is the newest.
LEMMA Newest ==
  ASSUME NEW S \in SUBSET Backup, S # {}
  PROVE  \E m \in S : \A b \in S : b <= m
<1> DEFINE T == {MaxBackups - b : b \in S}
           less == OpToRel(<, Nat)
<1>1. MaxBackups \in Nat /\ \A b \in S : b \in Nat /\ b <= MaxBackups
  BY BackupAssumption DEF Backup
<1>2. \A b \in S : MaxBackups - b \in Nat
  BY <1>1
<1>3. T \subseteq Nat /\ T # {}
  BY <1>2
<1>4. IsWellFoundedOn(less, Nat)
  BY NatLessThanWellFounded, Zenon
<1>5. \A x, y \in Nat : y < x => <<y, x>> \in less
  BY DEF OpToRel
<1> HIDE DEF less
<1>6. PICK x \in T : \A y \in T : ~(<<y, x>> \in less)
  <2> HIDE DEF T
  <2> QED BY <1>3, <1>4, WFMin
<1>7. PICK m \in S : x = MaxBackups - m
  BY <1>6
<1>8. ASSUME NEW b \in S PROVE b <= m
  <2>1. MaxBackups - b \in T /\ MaxBackups - b \in Nat /\ x \in Nat
    BY <1>2, <1>7
  <2>2. ~(MaxBackups - b < x)
    BY <1>5, <1>6, <2>1
  <2> QED BY <1>1, <1>7, <2>2
<1> QED BY <1>8

\* Retention leaves the newest backup alone.
LEMMA RetentionSpares ==
  ASSUME Tasks, Numbers, Agreement, faults = 0, ~Deleting, Retain
  PROVE  \E m \in Backup : file[m] # Missing /\ m \notin Expired
<1>1. /\ Pass \in Task /\ Active(Pass) /\ Now(Pass) = "retain" /\ task[Pass].name \in Backup
      /\ task[Pass].op = "scheduled"
  BY RetainNames DEF Retain, At, Now, Task, Tasks, OnCourse
<1> DEFINE listed == Rows \cup {task[Pass].name}
<1>2. PICK m \in listed : \A b \in listed : b <= m
  BY <1>1, Newest DEF Rows
<1>3. m \in Backup
  BY <1>1, <1>2 DEF Rows
<1>4. m \notin Expired
  <2>1. {d \in listed : d > m} = {}
    BY <1>1, <1>2, <1>3, BackupAssumption DEF Rows, Backup
  <2>2. Cardinality({d \in listed : d > m}) = 0
    BY <2>1, FS_EmptySet
  <2> QED BY <2>2, RetentionAssumption DEF Expired
<1>5. \A t \in Task, b \in Backup : ~Removing(t, b)
  <2>1. \A t \in Task : t # Pass => t \in Client
    BY DEF Task
  <2>2. \A t \in Task : ~(Active(t) /\ task[t].op = "delete")
    BY <1>1, <2>1 DEF Deleting
  <2>3. \A t \in Task : task[t].doomed = {}
    <3> SUFFICES ASSUME NEW t \in Task, task[t].doomed # {} PROVE FALSE
      OBVIOUS
    <3>1. On(t, {"scheduled"}, {"commit"})
      BY DEF Numbers, NumbersOf
    <3>2. t = Pass
      BY <3>1 DEF On, Tasks, OnCourse
    <3> QED BY <1>1, <3>1, <3>2 DEF On
  <2> QED BY <2>2, <2>3 DEF Removing, On
<1>6. file[m] # Missing
  <2>1. CASE m \in Rows
    <3>1. Held(m) /\ backup[m] # NoRow
      BY <1>3, <2>1 DEF Agreement, Rows
    <3> QED BY <1>3, <1>5, <3>1 DEF Held
  <2>2. CASE m = task[Pass].name
    <3>1. Made(Pass, m) /\ Agrees(Pass, m)
      BY <1>1, <1>3, <2>2 DEF Made, Agreement
    <3> QED BY <1>1, <1>3, <1>5, <3>1 DEF Agrees, Removing
  <2> QED BY <1>2, <2>1, <2>2
<1> QED BY <1>3, <1>4, <1>6

\* The retention of scheduled backups never takes the last archive there is:
\* the newest backup stays, whatever the database lists and whatever has
\* already gone from the disk.
THEOREM LastCopyStays == Spec => LastCopyKept
<1>1. ASSUME IInv, PassStep, faults = 0, Stored # {}, ~Deleting PROVE Stored' # {}
  <2>1. Stores /\ Tasks /\ Numbers /\ Agreement /\ Acts(Pass)
    BY <1>1 DEF IInv, Acts
  <2>2. CASE file' = file
    BY <1>1, <2>2 DEF Stored
  <2>3. CASE ArchiveEnds(Pass)
    <3>1. PICK b \in Backup : file[b] # Missing
      BY <1>1 DEF Stored
    <3>2. file' = [file EXCEPT ![task[Pass].name] = task[Pass].data] /\ task[Pass].data # Missing
      BY <2>1, <2>3, ArchiveEndsMoves, Acting DEF ArchiveEnds
    <3>3. file'[b] # Missing
      BY <2>1, <3>1, <3>2 DEF Stores
    <3> QED BY <3>1, <3>3 DEF Stored
  <2>4. CASE Unlink(Pass)
    <3>1. Pass \in Task /\ Active(Pass) /\ Now(Pass) = "unlink"
      BY <2>4 DEF Unlink, At, Now, Task
    <3>2. task[Pass].op = "scheduled"
      BY <2>1, <3>1 DEF Tasks, OnCourse
    <3> QED BY <2>1, <3>1, <3>2, StepOf DEF StepsOf
  <2>5. CASE Retain
    <3>1. PICK m \in Backup : file[m] # Missing /\ m \notin Expired
      BY <1>1, <2>1, <2>5, RetentionSpares
    <3>2. file'[m] = file[m]
      BY <2>5, <3>1 DEF Retain
    <3> QED BY <3>1, <3>2 DEF Stored
  <2>6. ~ArchiveEnds(Pass) /\ ~Unlink(Pass) /\ ~Retain => file' = file
    BY <2>1, Acting, TaskAssumption DEF ArchiveBegins, ArchiveFails, Unpack, SwapOut, SwapIn,
       Status, SaveOff, Flush, SaveOn, PassCommit
  <2> QED BY <2>2, <2>3, <2>4, <2>5, <2>6
<1>2. IInv /\ [Next]_vars => [PassStep /\ faults = 0 /\ Stored # {} /\ ~Deleting => Stored' # {}]_vars
  BY <1>1
<1> QED BY <1>2, Invariant, PTL DEF Spec, LastCopyKept
-----------------------------------------------------------------------------
(* Archives are snapshots, and restores exchange worlds at one moment *)

\* What the abstract specification shows of the state.
World ==
  IF disturbed THEN Missing
  ELSE IF \E t \in Task : Exchanging(t) THEN task[CHOOSE t \in Task : Exchanging(t)].aside
  ELSE root
Copy == [t \in Task |-> IF At(t, "swapOut") \/ Exchanging(t) THEN task[t].data ELSE Missing]
Shown == <<World, file, Copy, faults, disturbed>>

\* The archive that a task is to write is not there yet; what it reads is what
\* is in the directory; and a directory that was moved away is missing.
Unwritten(t) == Active(t) /\ task[t].name # 0 /\ Now(t) \in Early \cup {"archived"}
Exact ==
  /\ \A t \in Task : Unwritten(t) => file[task[t].name] = Missing
  /\ ~disturbed => \A t \in Task : /\ At(t, "archived") => task[t].data = root
                                   /\ Exchanging(t) => root = Missing

\* Which operations have the steps that matter here.
LEMMA StepsOfSwappers ==
  ASSUME Tasks, NEW t \in Task
  PROVE  /\ At(t, "unpack") \/ At(t, "swapOut") \/ Exchanging(t) => task[t].op \in Swappers
         /\ At(t, "archived") => task[t].op \in Makers
         /\ At(t, "unlink") => task[t].op = "delete"
<1>1. Active(t) => task[t].op \in Op \ {"none"} /\ Now(t) \in StepsOf[task[t].op]
  BY StepOf
<1> QED BY <1>1 DEF Exchanging, At, Now, StepsOf, Op, Makers, Swappers

\* While nobody disturbs, one task at most exchanges the directory, and the
\* world is what it has moved aside.
LEMMA WorldRead ==
  Tasks /\ Alone /\ ~disturbed =>
    /\ \A t \in Task : Exchanging(t) => World = task[t].aside
    /\ (\A t \in Task : ~Exchanging(t)) => World = root
<1> SUFFICES ASSUME Tasks, Alone, ~disturbed
             PROVE  /\ \A t \in Task : Exchanging(t) => World = task[t].aside
                    /\ (\A t \in Task : ~Exchanging(t)) => World = root
  OBVIOUS
<1>1. ASSUME NEW t \in Task, Exchanging(t) PROVE World = task[t].aside
  <2> DEFINE u == CHOOSE v \in Task : Exchanging(v)
  <2>1. u \in Task /\ Exchanging(u)
    BY <1>1
  <2>2. World = task[u].aside
    BY <1>1 DEF World
  <2> HIDE DEF u
  <2>3. Active(t) /\ Active(u) /\ task[t].op \in Swappers /\ task[u].op \in Swappers
    BY <1>1, <2>1, StepsOfSwappers DEF Exchanging, At
  <2>4. u = t
    BY <2>1, <2>3 DEF Alone, Swappers
  <2> QED BY <2>2, <2>4
<1>2. (\A t \in Task : ~Exchanging(t)) => World = root
  BY DEF World
<1> QED BY <1>1, <1>2

\* So it is after a step.
LEMMA WorldReadNext ==
  (Tasks /\ Alone /\ ~disturbed =>
     /\ \A t \in Task : Exchanging(t) => World = task[t].aside
     /\ (\A t \in Task : ~Exchanging(t)) => World = root)'
BY WorldRead, PTL

\* A step that moves no directory away, or back, leaves the world as it is.
LEMMA WorldSame ==
  ASSUME Tasks, Tasks', ~disturbed => Alone, ~disturbed' => Alone', disturbed' = disturbed,
         root' = root,
         \A u \in Task : /\ Exchanging(u)' <=> Exchanging(u)
                         /\ Exchanging(u) => task'[u].aside = task[u].aside
  PROVE  World' = World
<1>1. CASE disturbed
  BY <1>1 DEF World
<1>2. CASE ~disturbed /\ \A u \in Task : ~Exchanging(u)
  BY <1>2, WorldRead, WorldReadNext
<1>3. ASSUME ~disturbed, NEW u \in Task, Exchanging(u) PROVE World' = World
  BY <1>3, WorldRead, WorldReadNext
<1> QED BY <1>1, <1>2, <1>3

\* What a task has unpacked changes only where the task itself goes on.
LEMMA CopyStep ==
  ASSUME Tasks, NEW t \in Task, Others(t)
  PROVE  Copy' = [Copy EXCEPT ![t] = Copy'[t]]
<1>1. ASSUME NEW u \in Task, u # t PROVE Copy'[u] = Copy[u]
  <2>1. /\ task'[u].todo = task[u].todo /\ (Active(u)' <=> Active(u))
        /\ task'[u].data # task[u].data => At(u, "archived")
    BY <1>1, KeptFields DEF Others
  <2>2. (At(u, "swapOut")' <=> At(u, "swapOut")) /\ (Exchanging(u)' <=> Exchanging(u))
    BY <2>1 DEF At, Exchanging, Active
  <2>3. At(u, "swapOut") \/ Exchanging(u) => ~At(u, "archived")
    BY DEF At, Exchanging
  <2> QED BY <2>1, <2>2, <2>3 DEF Copy
<1>2. Copy' = [u \in Task |-> Copy'[u]]
  BY DEF Copy
<1> QED BY <1>1, <1>2 DEF Copy

\* Only three steps touch the directory and what is unpacked.
LEMMA OnlySwaps ==
  ASSUME NEW t, Acts(t)
  PROVE  /\ root' = root \/ SwapOut(t) \/ SwapIn(t)
         /\ At(t, "unpack") => Unpack(t)
         /\ At(t, "swapOut") => SwapOut(t)
         /\ Exchanging(t) => SwapIn(t)
         /\ At(t, "archive") => ArchiveBegins(t)
<1>1. root' = root \/ SwapOut(t) \/ SwapIn(t)
  BY Acting DEF ArchiveBegins, ArchiveEnds, ArchiveFails, Unpack, Unlink, Check, Record, RecordRefused,
     Fetch, Remove, Finish, Look, Note, Status, SaveOff, Flush, SaveOn, Retain, PassCommit
<1>2. /\ At(t, "unpack") => Unpack(t)
      /\ At(t, "swapOut") => SwapOut(t)
      /\ Exchanging(t) => SwapIn(t)
      /\ At(t, "archive") => ArchiveBegins(t)
  <2>1. CASE UNCHANGED rowVars /\ \/ ArchiveBegins(t) \/ ArchiveEnds(t) \/ ArchiveFails(t)
                                  \/ Unpack(t) \/ SwapOut(t) \/ SwapIn(t) \/ Unlink(t)
    BY <2>1 DEF ArchiveBegins, ArchiveEnds, ArchiveFails, Unpack, SwapOut, SwapIn, Unlink, At, Exchanging
  <2>2. CASE t \in Client /\ \/ Check(t) \/ Record(t) \/ RecordRefused(t) \/ Fetch(t)
                             \/ Remove(t) \/ Finish(t) \/ Look(t) \/ Note(t)
    BY <2>2 DEF Check, Record, RecordRefused, Fetch, Remove, Finish, Look, Note, At, Exchanging
  <2>3. CASE t = Pass /\ (Status \/ SaveOff \/ Flush \/ SaveOn \/ Retain \/ PassCommit)
    BY <2>3 DEF Status, SaveOff, Flush, SaveOn, Retain, PassCommit, At, Exchanging
  <2> QED BY <2>1, <2>2, <2>3, Acting
<1> QED BY <1>1, <1>2

\* Archives are written when they are finished, and otherwise only removed.
LEMMA OnlyArchives ==
  ASSUME Stores, Tasks, Numbers, NEW t, Acts(t), ~ArchiveEnds(t)
  PROVE  \E doomed \in SUBSET Backup :
           file' = [b \in Backup |-> IF b \in doomed THEN Missing ELSE file[b]]
<1>1. t \in Task /\ file \in [Backup -> Content \cup {Missing}]
  BY Acting DEF Stores
<1>2. CASE file' = file
  <2> DEFINE gone == {}
  <2>1. gone \in SUBSET Backup /\ file' = [b \in Backup |-> IF b \in gone THEN Missing ELSE file[b]]
    BY <1>1, <1>2
  <2> HIDE DEF gone
  <2> QED BY <2>1
<1>3. ASSUME NEW d, file' = [file EXCEPT ![d] = Missing]
      PROVE  \E doomed \in SUBSET Backup :
               file' = [b \in Backup |-> IF b \in doomed THEN Missing ELSE file[b]]
  <2> DEFINE gone == {d} \cap Backup
  <2>1. gone \in SUBSET Backup /\ file' = [b \in Backup |-> IF b \in gone THEN Missing ELSE file[b]]
    BY <1>1, <1>3
  <2> HIDE DEF gone
  <2> QED BY <2>1
<1>4. CASE Unlink(t) \/ RecordRefused(t)
  BY <1>2, <1>3, <1>4 DEF Unlink, RecordRefused
<1>5. CASE t = Pass /\ Retain
  <2>1. task'[Pass].doomed \in SUBSET Backup
    BY <1>1, <1>5, RetainMoves, RetainNames DEF Expired, Rows
  <2> QED BY <1>5, <2>1, RetainMoves, RetainNames
<1>6. CASE ~Unlink(t) /\ ~RecordRefused(t) /\ ~(t = Pass /\ Retain)
  <2>1. file' = file
    BY <1>6, Acting DEF ArchiveBegins, ArchiveFails, Unpack, SwapOut, SwapIn, Check, Record,
       Fetch, Remove, Finish, Look, Note, Status, SaveOff, Flush, SaveOn, PassCommit
  <2> QED BY <1>2, <2>1
<1> QED BY <1>4, <1>5, <1>6

\* Where a task may be after its step, as far as it matters here.
LEMMA NextPlace ==
  ASSUME Stores, Tasks, Numbers, NEW t, Acts(t)
  PROVE  /\ At(t, "swapOut")' => At(t, "unpack")
         /\ Exchanging(t)' => At(t, "swapOut")
         /\ At(t, "archived")' => At(t, "archive")
         /\ Unwritten(t)' => Unwritten(t) /\ task'[t].name = task[t].name /\ ~At(t, "archived")
<1>1. t \in Task
  BY Acting
<1>2. CASE t = Pass /\ Status
  <2>1. /\ Active(Pass) /\ Now(Pass) = "status" /\ task'[Pass].name = task[Pass].name
        /\ Now(Pass)' \in {"saveOff", "archive"}
    BY <1>2, StatusMoves
  <2> QED BY <1>2, <2>1 DEF At, Now, Exchanging, Unwritten, Early
<1>3. CASE Ended(t)
  BY <1>3, NothingDone DEF Ended, Active, At, Exchanging, Unwritten
<1>4. CASE t = Pass /\ GaveUp
  BY <1>4 DEF GaveUp, At, Now, Exchanging, Unwritten
<1>5. CASE Proceeds(t)
  <2>1. /\ Active(t) /\ Active(t)' /\ task'[t].name = task[t].name
        /\ <<Now(t), Now(t)'>> \in Edges[task[t].op] /\ task[t].op \in Op \ {"none"}
    BY <1>1, <1>5, StepOf DEF Proceeds
  <2>2. /\ Now(t)' = "swapOut" => Now(t) = "unpack"
        /\ Now(t)' = "swapIn" => Now(t) = "swapOut"
        /\ Now(t)' = "archived" => Now(t) = "archive"
        /\ Now(t)' \in Early \cup {"archived"} => Now(t) \in Early
    BY <2>1, SMTT(30) DEF Edges, Op, Early
  <2> QED BY <2>1, <2>2 DEF At, Now, Exchanging, Unwritten, Early
<1> QED BY <1>2, <1>3, <1>4, <1>5, ActsProgress DEF Errs

\* No step of a task makes an archive that another one is to write, ...
LEMMA UnwrittenActs ==
  ASSUME Stores, Tasks, Numbers, NEW t, Acts(t), \A u \in Task : Unwritten(u) => file[task[u].name] = Missing
  PROVE  \A u \in Task : Unwritten(u)' => file'[task'[u].name] = Missing
<1>1. t \in Task /\ Others(t) /\ file \in [Backup -> Content \cup {Missing}]
  BY Acting, OthersKept DEF Stores
<1>2. ASSUME NEW u \in Task, Unwritten(u)'
      PROVE  Unwritten(u) /\ task'[u].name = task[u].name /\ (u = t => ~At(t, "archived"))
  <2>1. CASE u = t
    BY <1>2, <2>1, NextPlace
  <2>2. CASE u # t
    <3>1. /\ task'[u].name = task[u].name /\ (Active(u)' <=> Active(u)) /\ Now(u)' = Now(u)
      BY <1>1, <2>2, KeptFields DEF Others
    <3> QED BY <1>2, <2>2, <3>1 DEF Unwritten
  <2> QED BY <2>1, <2>2
<1>3. ASSUME NEW u \in Task, Unwritten(u)' PROVE file'[task[u].name] = Missing
  <2>1. /\ Unwritten(u) /\ file[task[u].name] = Missing /\ (u = t => ~At(t, "archived"))
        /\ task[u].name \in Backup
    BY <1>2, <1>3, TaskTyped DEF Unwritten
  <2>2. CASE ArchiveEnds(t)
    <3>1. u # t
      BY <2>1, <2>2 DEF ArchiveEnds
    <3>2. task[u].name # task[t].name
      BY <1>1, <2>1, <3>1 DEF Numbers, Unwritten
    <3> QED BY <1>1, <2>1, <2>2, <3>2 DEF ArchiveEnds
  <2>3. CASE ~ArchiveEnds(t)
    BY <2>1, <2>3, OnlyArchives
  <2> QED BY <2>2, <2>3
<1> QED BY <1>2, <1>3

\* ... or touches the directory that another one reads or has moved away.
LEMMA ReadingActs ==
  ASSUME Stores, Tasks, Numbers, Alone, Quiet, NEW t, Acts(t),
         \A u \in Task : /\ At(u, "archived") => task[u].data = root
                         /\ Exchanging(u) => root = Missing
  PROVE  \A u \in Task : /\ At(u, "archived")' => task'[u].data = root'
                         /\ Exchanging(u)' => root' = Missing
<1>1. t \in Task /\ Still(t) /\ root \in Content \cup {Missing}
  BY Acting, StillActs DEF Stores
<1>2. ASSUME NEW u \in Task \ {t}
      PROVE  /\ At(u, "archived")' => task'[u].data = root'
             /\ Exchanging(u)' => root' = Missing
  <2>1. task'[u] = task[u]
    BY <1>1 DEF Still
  <2>2. (At(u, "archived")' <=> At(u, "archived")) /\ (Exchanging(u)' <=> Exchanging(u))
    BY <2>1 DEF At, Exchanging, Active
  <2>3. CASE root' = root
    BY <2>1, <2>2, <2>3
  <2>4. CASE SwapOut(t) \/ SwapIn(t)
    <3>1. Active(t) /\ task[t].op \in Swappers
      BY <1>1, <2>4, StepsOfSwappers DEF SwapOut, SwapIn, Exchanging, At
    <3>2. Active(u) => task[u].op \in {"delete", "page"}
      BY <1>1, <3>1 DEF Alone
    <3>3. ~At(u, "archived") /\ ~Exchanging(u)
      BY <3>2, StepsOfSwappers DEF Exchanging, At, Makers, Swappers
    <3> QED BY <2>2, <3>3
  <2> QED BY <2>3, <2>4, OnlySwaps
<1>3. ASSUME At(t, "archived")' PROVE task'[t].data = root'
  <2>1. ArchiveBegins(t)
    BY <1>3, NextPlace, OnlySwaps
  <2>2. ~Errs(t)
    BY <1>3, NothingDone DEF Errs, Ended, GaveUp, Active, At, Now
  <2> QED BY <1>1, <2>1, <2>2, ArchiveBeginsMoves DEF ArchiveBegins
<1>4. ASSUME Exchanging(t)' PROVE root' = Missing
  <2>1. SwapOut(t)
    BY <1>4, NextPlace, OnlySwaps
  <2>2. ~Errs(t)
    BY <1>4, NothingDone DEF Errs, Ended, GaveUp, Active, Exchanging, At, Now
  <2> QED BY <1>1, <2>1, <2>2, SwapOutMoves
<1> QED BY <1>2, <1>3, <1>4

\* A task that begins has read nothing, and its archive has a new number.
LEMMA ExactStarts ==
  ASSUME Stores, Tasks, Numbers, Exact, NEW t \in Task, Still(t), Others(t),
         NEW op \in Op \ {"none"}, NEW b, NEW name \in Nat, NEW loaded, NEW wanted,
         Starts(t, op, b, name, loaded, wanted), name = 0 \/ name = made + 1,
         UNCHANGED <<root, file>>, ~disturbed' => ~disturbed,
         name \in Backup \cup {0}
  PROVE  /\ Exact' /\ Copy' = Copy /\ ~Exchanging(t) /\ ~Exchanging(t)'
         /\ \A u \in Task \ {t} : task'[u] = task[u]
<1>1. /\ ~Active(t) /\ task'[t].name = name
      /\ Now(t)' \in {"status", "unlink", "look", "check"}
  BY DEF Starts
<1>2. /\ ~At(t, "archived")' /\ ~Exchanging(t)' /\ ~At(t, "swapOut")'
      /\ ~At(t, "archived") /\ ~Exchanging(t) /\ ~At(t, "swapOut")
  BY <1>1 DEF At, Exchanging, Now
<1>3. \A u \in Task \ {t} :
        /\ task'[u] = task[u] /\ (Unwritten(u)' <=> Unwritten(u))
        /\ (At(u, "archived")' <=> At(u, "archived")) /\ (Exchanging(u)' <=> Exchanging(u))
  BY DEF Still, Unwritten, At, Exchanging, Active, Now
<1>4. Unwritten(t)' => file[name] = Missing
  <2>1. made \in Nat
    BY BackupAssumption DEF Stores
  <2>2. name # 0 => name \in Backup /\ ~(name <= made)
    BY <2>1
  <2>3. name # 0 => file[name] = Missing
    BY <2>2 DEF Numbers, FileNumbered
  <2> QED BY <1>1, <2>3 DEF Unwritten
<1>5. \A u \in Task : Unwritten(u)' => file'[task'[u].name] = Missing
  BY <1>1, <1>3, <1>4 DEF Exact
<1>6. ~disturbed' => \A u \in Task : /\ At(u, "archived")' => task'[u].data = root'
                                     /\ Exchanging(u)' => root' = Missing
  BY <1>2, <1>3 DEF Exact
<1>7. Exact'
  BY <1>5, <1>6 DEF Exact
<1>8. Copy' = Copy
  <2>1. Copy'[t] = Copy[t]
    BY <1>2 DEF Copy
  <2> QED BY <2>1, CopyStep DEF Copy
<1> QED BY <1>2, <1>3, <1>7, <1>8

\* The tasks that begin, and what a begin may disturb.
LEMMA Beginnings ==
  ASSUME Stores, Tasks, Numbers, Exact,
         \/ PassBegins
         \/ \E c \in Client, op \in Op \ {"none", "scheduled"}, b \in Backup \cup {0},
               v \in Version \cup {0} : Begin(c, op, b, v)
  PROVE  /\ Exact' /\ Copy' = Copy /\ UNCHANGED <<root, file, faults>>
         /\ disturbed => disturbed'
         /\ \A u \in Task : /\ Exchanging(u)' <=> Exchanging(u)
                            /\ Exchanging(u) => task'[u].aside = task[u].aside
<1> DEFINE Goal == /\ Exact' /\ Copy' = Copy
                   /\ \A u \in Task : /\ Exchanging(u)' <=> Exchanging(u)
                                      /\ Exchanging(u) => task'[u].aside = task[u].aside
<1>1. made \in Nat /\ task \in [Task -> TaskRecord]
  BY BackupAssumption DEF Stores, Tasks
<1>2. ASSUME NEW t \in Task, NEW op \in Op \ {"none"}, NEW b, NEW name \in Nat, NEW loaded, NEW wanted,
             Others(t), Still(t), Starts(t, op, b, name, loaded, wanted), name = 0 \/ name = made + 1,
             UNCHANGED <<root, file>>, ~disturbed' => ~disturbed, name \in Backup \cup {0}
      PROVE  Goal
  <2>1. /\ Exact' /\ Copy' = Copy /\ ~Exchanging(t) /\ ~Exchanging(t)'
        /\ \A u \in Task \ {t} : task'[u] = task[u]
    BY <1>2, ExactStarts
  <2>2. \A u \in Task : /\ Exchanging(u)' <=> Exchanging(u)
                        /\ Exchanging(u) => task'[u].aside = task[u].aside
    BY <2>1 DEF Exchanging, At, Active
  <2> QED BY <2>1, <2>2
<1> HIDE DEF Goal
<1>3. CASE PassBegins
  <2>1. /\ Others(Pass) /\ Pass \in Task
        /\ Starts(Pass, "scheduled", 0, made', [installed |-> installed, game |-> game], NoVersions)
    BY <1>3, PassBeginsMoves
  <2>2. Still(Pass) /\ UNCHANGED <<root, file, faults>> /\ made' = made + 1 /\ made' \in Backup
    BY <1>1, <1>3, BackupAssumption DEF PassBegins, Still, Backup
  <2>3. "scheduled" \in Op \ {"none"} /\ made' \in Nat
    BY <1>1, <2>2 DEF Op
  <2>4. disturbed => disturbed'
    BY <1>3, Zenon DEF PassBegins
  <2>5. Goal
    BY <1>2, <2>1, <2>2, <2>3, <2>4
  <2> QED BY <2>2, <2>4, <2>5 DEF Goal
<1>4. ASSUME NEW c \in Client, NEW op \in Op \ {"none", "scheduled"}, NEW b \in Backup \cup {0},
             NEW v \in Version \cup {0}, Begin(c, op, b, v)
      PROVE  Goal /\ UNCHANGED <<root, file, faults>> /\ (disturbed => disturbed')
  <2> DEFINE name == IF made' = made THEN 0 ELSE made'
             loaded == [installed |-> installed, game |-> game]
  <2>1. /\ Others(c) /\ c \in Task
        /\ Starts(c, op, b, name, loaded, Wanted(op, b, v))
    BY <1>4, BeginMoves
  <2>2. Still(c) /\ UNCHANGED <<root, file, faults>>
    BY <1>1, <1>4 DEF Begin, Still
  <2>3. name \in Nat /\ (name = 0 \/ name = made + 1) /\ name \in Backup \cup {0}
    BY <1>1, <1>4, BackupAssumption DEF Begin, Backup
  <2>4. disturbed => disturbed'
    BY <1>4, Zenon DEF Begin
  <2> HIDE DEF name, loaded
  <2>5. Goal
    BY <1>2, <2>1, <2>2, <2>3, <2>4
  <2> QED BY <2>2, <2>4, <2>5
<1> QED BY <1>3, <1>4 DEF Goal

\* A fault leaves what the tasks that go on have read.
LEMMA ExactFault ==
  ASSUME Stores, Tasks, Exact, Fault
  PROVE  Exact'
<1>1. \A u \in Task : Dies(u)
  BY FaultMoves
<1>2. UNCHANGED <<root, file, disturbed>>
  BY DEF Fault
<1>3. \A u \in Task : task'[u] = task[u] \/ (~Unwritten(u)' /\ ~At(u, "archived")' /\ ~Exchanging(u)')
  BY <1>1, NothingDone DEF Dies, Unwritten, At, Exchanging, Active
<1>4. \A u \in Task : task'[u] = task[u] =>
        /\ Unwritten(u)' <=> Unwritten(u)
        /\ At(u, "archived")' <=> At(u, "archived")
        /\ Exchanging(u)' <=> Exchanging(u)
  BY DEF Unwritten, At, Exchanging, Active, Now
<1> QED BY <1>2, <1>3, <1>4 DEF Exact

\* So does the server, unless it disturbs.
LEMMA ExactPower ==
  ASSUME Stores, Tasks, Exact, Power \/ Save, ~disturbed' => Quiet
  PROVE  Exact'
<1>1. AllKept /\ file' = file /\ (disturbed => disturbed')
  BY PowerMoves, TearMoves
<1>2. \A u \in Task : Unwritten(u)' => file'[task'[u].name] = Missing
  <2>1. \A u \in Task : /\ task'[u].name = task[u].name /\ (Active(u)' <=> Active(u)) /\ Now(u)' = Now(u)
    BY <1>1, KeptFields DEF AllKept
  <2> QED BY <1>1, <2>1 DEF Exact, Unwritten
<1>3. ASSUME ~disturbed'
      PROVE  \A u \in Task : /\ At(u, "archived")' => task'[u].data = root'
                             /\ Exchanging(u)' => root' = Missing
  <2>1. task' = task /\ ~disturbed
    BY <1>1, <1>3, NothingTorn
  <2>2. \A u \in Task : (At(u, "archived")' <=> At(u, "archived")) /\ (Exchanging(u)' <=> Exchanging(u))
    BY <2>1 DEF At, Exchanging, Active
  <2>3. CASE root' = root
    BY <2>1, <2>2, <2>3 DEF Exact
  <2>4. CASE Power
    <3>1. \A u \in Task : ~At(u, "archived") /\ ~Exchanging(u)
      BY <1>3, <2>4, PowerDisturbs, StepsOfSwappers DEF Exchanging, At, Makers, Swappers
    <3> QED BY <2>2, <3>1
  <2> QED BY <2>3, <2>4 DEF Save, ServerSaves
<1> QED BY <1>2, <1>3 DEF Exact

\* Every step keeps what is read exact.
LEMMA ExactKept == IInv /\ IInv' /\ Exact /\ [Next]_vars => Exact'
<1> SUFFICES ASSUME IInv, IInv', Exact, [Next]_vars PROVE Exact'
  OBVIOUS
<1>1. Stores /\ Tasks /\ Numbers /\ (~disturbed => Alone /\ Quiet)
  BY DEF IInv
<1>2. CASE UNCHANGED vars
  BY <1>2 DEF vars, storeVars, Exact, Unwritten, At, Exchanging, Active, Now
<1>3. ASSUME NEW t, Acts(t) PROVE Exact'
  <2>1. disturbed' = disturbed
    BY <1>3, Acting
  <2> QED BY <1>1, <1>3, <2>1, UnwrittenActs, ReadingActs DEF Exact
<1>4. CASE \/ PassBegins
           \/ \E c \in Client, op \in Op \ {"none", "scheduled"}, b \in Backup \cup {0},
                 v \in Version \cup {0} : Begin(c, op, b, v)
  BY <1>1, <1>4, Beginnings
<1>5. CASE SetPolicy \/ TimePasses
  BY <1>5 DEF SetPolicy, TimePasses, storeVars, Exact, Unwritten, At, Exchanging, Active, Now
<1>6. CASE Power \/ Save
  <2>1. ~disturbed' => Quiet
    BY <1>1, <1>6, PowerMoves
  <2> QED BY <1>1, <1>6, <2>1, ExactPower
<1>7. CASE Fault
  BY <1>1, <1>7, ExactFault
<1> QED BY <1>2, <1>3, <1>4, <1>5, <1>6, <1>7 DEF Next, Acts

\* In every reachable state what is read is exact.
LEMMA ExactAlways == Spec => []Exact
<1>1. Init => Exact
  <2>1. ASSUME Init PROVE \A t \in Task : ~Active(t)
    BY <2>1, NothingDone DEF Init, StoreInit, Active
  <2> QED BY <2>1 DEF Exact, Unwritten, At, Exchanging
<1> QED BY <1>1, ExactKept, Invariant, PTL DEF Spec

\* Steps that do not exchange the directory leave the world as it is, ...
LEMMA WorldActs ==
  ASSUME IInv, IInv', NEW t, Acts(t), ~SwapOut(t), ~SwapIn(t)
  PROVE  World' = World
<1>1. /\ Stores /\ Tasks /\ Tasks' /\ Numbers
      /\ ~disturbed => Alone
      /\ ~disturbed' => Alone'
  BY DEF IInv
<1>2. t \in Task /\ Others(t) /\ disturbed' = disturbed /\ root' = root
  BY <1>1, Acting, OthersKept, OnlySwaps
<1>3. ~Exchanging(t) /\ ~Exchanging(t)'
  BY <1>1, NextPlace, OnlySwaps
<1>4. ASSUME NEW u \in Task
      PROVE  /\ Exchanging(u)' <=> Exchanging(u)
             /\ Exchanging(u) => task'[u].aside = task[u].aside
  <2>1. CASE u = t
    BY <1>3, <2>1
  <2>2. CASE u # t
    <3>1. /\ task'[u].todo = task[u].todo /\ task'[u].aside = task[u].aside
      BY <1>1, <1>2, <2>2, KeptFields DEF Others
    <3> QED BY <3>1 DEF Exchanging, At, Active
  <2> QED BY <2>1, <2>2
<1> QED BY <1>1, <1>2, <1>4, WorldSame

\* ... and those that unpack nothing either leave what is unpacked.
LEMMA CopyActs ==
  ASSUME IInv, NEW t, Acts(t), ~Unpack(t), ~SwapOut(t), ~SwapIn(t)
  PROVE  Copy' = Copy
<1>1. Stores /\ Tasks /\ Numbers
  BY DEF IInv
<1>2. t \in Task /\ Others(t)
  BY <1>1, Acting, OthersKept
<1>3. /\ ~At(t, "swapOut") /\ ~Exchanging(t)
      /\ ~At(t, "swapOut")' /\ ~Exchanging(t)'
  BY <1>1, NextPlace, OnlySwaps
<1>4. Copy'[t] = Copy[t]
  BY <1>2, <1>3 DEF Copy
<1> QED BY <1>1, <1>2, <1>4, CopyStep DEF Copy

\* A task that ends after an error has nothing unpacked.
LEMMA ErrsCopy ==
  ASSUME NEW t \in Task, Errs(t)
  PROVE  Copy'[t] = Missing /\ ~Exchanging(t)'
<1>1. ~At(t, "swapOut")' /\ ~Exchanging(t)'
  BY NothingDone DEF Errs, Ended, GaveUp, Exchanging, At, Active, Now
<1> QED BY <1>1 DEF Copy

\* A finished archive is the world as it is.
LEMMA ArchiveShows ==
  ASSUME IInv, IInv', Exact, NEW t, Acts(t), ArchiveEnds(t)
  PROVE  Promise!Archive(task[t].name)
<1>1. Stores /\ Tasks /\ Numbers /\ t \in Task
  BY Acting DEF IInv
<1>2. /\ Active(t) /\ Now(t) = "archived" /\ At(t, "archived") /\ task[t].op \in Makers
      /\ task[t].data # Missing
  BY <1>1, ArchiveEndsMoves, StepsOfSwappers DEF At, Now
<1>3. task[t].name \in Backup
  BY <1>1, <1>2, NamedUnlessAbandoned DEF On, Step
<1>4. file[task[t].name] = Missing
  <2>1. task[t].name # 0
    BY <1>3 DEF Backup
  <2> QED BY <1>1, <1>2, <2>1 DEF Exact, Unwritten
<1>5. ~SwapOut(t) /\ ~SwapIn(t) /\ ~Unpack(t)
  BY <1>2 DEF SwapOut, SwapIn, Unpack, At, Now
<1>6. World' = World /\ Copy' = Copy /\ UNCHANGED <<faults, disturbed>>
  BY <1>5, WorldActs, CopyActs, Acting
<1>7. task[t].data \in IF disturbed THEN Content ELSE {World}
  <2>1. CASE disturbed
    BY <1>1, <1>2, <2>1, TaskTyped
  <2>2. CASE ~disturbed
    <3>1. Alone /\ task[t].data = root
      BY <1>1, <1>2, <2>2 DEF IInv, Exact
    <3>2. ASSUME NEW u \in Task, Exchanging(u) PROVE FALSE
      BY <1>2, <2>2, <3>1, <3>2, <1>1 DEF Exact
    <3> QED BY <1>1, <2>2, <3>1, <3>2, WorldRead
  <2> QED BY <2>1, <2>2
<1>8. file' = [file EXCEPT ![task[t].name] = task[t].data]
  BY DEF ArchiveEnds
<1> QED BY <1>4, <1>6, <1>7, <1>8 DEF Promise!Archive, Promise!Content, Content, World, Copy

\* What is unpacked is what the backup held.
LEMMA UnpackShows ==
  ASSUME IInv, IInv', NEW t, Acts(t), Unpack(t)
  PROVE  Promise!GiveUp(t) \/ \E b \in Backup : Promise!Unpack(t, b)
<1>1. /\ Stores /\ Tasks /\ Numbers /\ t \in Task
      /\ file \in [Backup -> Content \cup {Missing}]
  BY Acting DEF IInv, Stores
<1>2. task[t].target \in Backup
  BY <1>1, UnpackTargets
<1>3. ~SwapOut(t) /\ ~SwapIn(t) /\ file' = file
  BY DEF Unpack, SwapOut, SwapIn, At
<1>4. World' = World /\ UNCHANGED <<faults, disturbed>>
  BY <1>3, WorldActs, Acting
<1>5. Copy' = [Copy EXCEPT ![t] = Copy'[t]]
  BY <1>1, CopyStep, OthersKept
<1>6. CASE Errs(t)
  BY <1>1, <1>3, <1>4, <1>5, <1>6, ErrsCopy DEF Promise!GiveUp, World, Copy
<1>7. CASE ~Errs(t)
  <2>1. /\ file[task[t].target] # Missing /\ Proceeds(t) /\ task'[t].data = file[task[t].target]
        /\ Now(t) = "unpack"
    BY <1>1, <1>2, <1>7, UnpackMoves
  <2>2. At(t, "swapOut")'
    <3>1. <<"unpack", Now(t)'>> \in Edges[task[t].op] /\ task[t].op \in Op \ {"none"} /\ Active(t)'
      BY <1>1, <2>1, StepOf DEF Proceeds
    <3>2. Now(t)' = "swapOut"
      BY <3>1, SMTT(30) DEF Edges, Op
    <3> QED BY <3>1, <3>2 DEF At, Now
  <2>3. Copy'[t] = file[task[t].target]
    BY <1>1, <2>1, <2>2 DEF Copy
  <2>4. PICK b \in Backup : b = task[t].target
    BY <1>2
  <2>5. Promise!Unpack(t, b)
    BY <1>3, <1>4, <1>5, <2>1, <2>3, <2>4 DEF Promise!Unpack, World, Copy
  <2> QED BY <2>5
<1> QED BY <1>6, <1>7

\* A directory is moved away in secret, or the task gives up.
LEMMA SwapOutShows ==
  ASSUME IInv, IInv', Exact, NEW t, Acts(t), SwapOut(t)
  PROVE  Promise!GiveUp(t) \/ UNCHANGED Shown
<1>1. /\ Stores /\ Tasks /\ Tasks' /\ Numbers /\ t \in Task /\ root \in Content \cup {Missing}
      /\ ~disturbed => Alone
      /\ ~disturbed' => Alone'
  BY Acting DEF IInv, Stores
<1>2. UNCHANGED <<file, faults, disturbed>> /\ Active(t) /\ Now(t) = "swapOut"
  BY <1>1, Acting, SwapOutMoves DEF SwapOut
<1>3. Others(t) /\ Copy' = [Copy EXCEPT ![t] = Copy'[t]]
  BY <1>1, CopyStep, OthersKept
<1>4. At(t, "swapOut") /\ ~Exchanging(t) /\ Copy[t] = task[t].data
  BY <1>1, <1>2 DEF At, Now, Exchanging, Copy
<1>5. ASSUME NEW u \in Task \ {t}
      PROVE  /\ Exchanging(u)' <=> Exchanging(u)
             /\ task'[u].aside = task[u].aside
  <2>1. /\ task'[u].todo = task[u].todo /\ task'[u].aside = task[u].aside
    BY <1>1, <1>3, KeptFields DEF Others
  <2> QED BY <2>1 DEF Exchanging, At, Active
<1>6. CASE Errs(t) /\ root' = root
  <2>1. Copy'[t] = Missing /\ ~Exchanging(t)'
    BY <1>1, <1>6, ErrsCopy
  <2>2. World' = World
    BY <1>1, <1>2, <1>4, <1>5, <1>6, <2>1, WorldSame
  <2> QED BY <1>2, <1>3, <2>1, <2>2 DEF Promise!GiveUp, World, Copy
<1>7. CASE /\ root' = Missing /\ Proceeds(t) /\ task'[t].aside = root
           /\ task'[t].data = task[t].data
  <2>1. Exchanging(t)'
    <3>1. <<"swapOut", Now(t)'>> \in Edges[task[t].op] /\ task[t].op \in Op \ {"none"} /\ Active(t)'
      BY <1>1, <1>2, <1>7, StepOf DEF Proceeds
    <3>2. Now(t)' = "swapIn"
      BY <3>1, SMTT(30) DEF Edges, Op
    <3> QED BY <3>1, <3>2 DEF Exchanging, At, Now
  <2>2. Copy' = Copy
    <3>1. Copy'[t] = Copy[t]
      BY <1>1, <1>4, <1>7, <2>1 DEF Copy
    <3> QED BY <1>3, <3>1 DEF Copy
  <2>3. World' = World
    <3>1. CASE disturbed
      BY <1>2, <3>1 DEF World
    <3>2. CASE ~disturbed
      <4>1. Active(t) /\ task[t].op \in Swappers /\ Alone /\ ~disturbed'
        BY <1>1, <1>2, <1>4, <3>2, StepsOfSwappers
      <4>2. ASSUME NEW u \in Task, Exchanging(u) PROVE FALSE
        <5>1. u # t /\ Active(u) /\ task[u].op \in Swappers
          BY <1>1, <1>4, <4>2, StepsOfSwappers DEF Exchanging, At
        <5> QED BY <1>1, <4>1, <5>1 DEF Alone, Swappers
      <4>3. World = root
        BY <1>1, <3>2, <4>2, WorldRead
      <4>4. World' = task'[t].aside
        BY <1>1, <2>1, <4>1, WorldReadNext
      <4> QED BY <1>7, <4>3, <4>4
    <3> QED BY <3>1, <3>2
  <2> QED BY <1>2, <2>2, <2>3 DEF Shown
<1> QED BY <1>1, <1>6, <1>7, SwapOutMoves

\* The directory takes its place, and the world is what was unpacked; or the old
\* one is moved back, and nothing has happened to the world.
LEMMA SwapInShows ==
  ASSUME IInv, IInv', Exact, NEW t, Acts(t), SwapIn(t)
  PROVE  Promise!GiveUp(t) \/ Promise!Restore(t)
<1>1. /\ Stores /\ Tasks /\ Tasks' /\ Numbers /\ t \in Task
      /\ ~disturbed => Alone
      /\ ~disturbed' => Alone'
  BY Acting DEF IInv
<1>2. UNCHANGED <<file, faults, disturbed>> /\ Active(t) /\ Now(t) = "swapIn" /\ task[t].data # Missing
  BY <1>1, Acting, SwapInMoves DEF SwapIn
<1>3. Others(t) /\ Copy' = [Copy EXCEPT ![t] = Copy'[t]]
  BY <1>1, CopyStep, OthersKept
<1>4. Exchanging(t) /\ Copy[t] = task[t].data
  BY <1>1, <1>2 DEF At, Now, Exchanging, Copy
<1>5. ASSUME ~disturbed
      PROVE  World = task[t].aside /\ root = Missing /\ \A u \in Task \ {t} : ~Exchanging(u)'
  <2>1. World = task[t].aside /\ root = Missing
    BY <1>1, <1>4, <1>5, WorldRead DEF Exact
  <2>2. ASSUME NEW u \in Task \ {t}, Exchanging(u)' PROVE FALSE
    <3>1. task'[u].todo = task[u].todo
      BY <1>1, <1>3, KeptFields DEF Others
    <3>2. Exchanging(u)
      BY <2>2, <3>1 DEF Exchanging, At, Active
    <3>3. Active(t) /\ Active(u) /\ task[t].op \in Swappers /\ task[u].op \in Swappers
      BY <1>1, <1>4, <3>2, StepsOfSwappers DEF Exchanging, At
    <3> QED BY <1>1, <1>5, <3>3 DEF Alone, Swappers
  <2> QED BY <2>1, <2>2
<1>6. ASSUME ~disturbed, ~Exchanging(t)' PROVE World' = root'
  BY <1>2, <1>5, <1>6 DEF World
<1>7. CASE Errs(t) /\ root' = (IF root = Missing THEN task[t].aside ELSE root)
  <2>1. Copy'[t] = Missing /\ ~Exchanging(t)'
    BY <1>1, <1>7, ErrsCopy
  <2>2. World' = World
    <3>1. CASE disturbed
      BY <1>2, <3>1 DEF World
    <3>2. CASE ~disturbed
      BY <1>5, <1>6, <1>7, <2>1, <3>2
    <3> QED BY <3>1, <3>2
  <2> QED BY <1>2, <1>3, <2>1, <2>2 DEF Promise!GiveUp, World, Copy
<1>8. CASE root = Missing /\ root' = task[t].data /\ Proceeds(t)
  <2>1. ~Exchanging(t)' /\ ~At(t, "swapOut")'
    <3>1. <<"swapIn", Now(t)'>> \in Edges[task[t].op] /\ task[t].op \in Op \ {"none"}
      BY <1>1, <1>2, <1>8, StepOf DEF Proceeds
    <3>2. Now(t)' # "swapIn" /\ Now(t)' # "swapOut"
      BY <3>1, SMTT(30) DEF Edges, Op
    <3> QED BY <3>2 DEF Exchanging, At, Now
  <2>2. Copy'[t] = Missing
    BY <1>1, <2>1 DEF Copy
  <2>3. World' = IF disturbed THEN World ELSE Copy[t]
    <3>1. CASE disturbed
      BY <1>2, <3>1 DEF World
    <3>2. CASE ~disturbed
      BY <1>4, <1>6, <1>8, <2>1, <3>2
    <3> QED BY <3>1, <3>2
  <2> QED BY <1>2, <1>3, <1>4, <2>2, <2>3 DEF Promise!Restore, World, Copy
<1> QED BY <1>1, <1>7, <1>8, SwapInMoves

\* The steps of tasks keep the promise.
LEMMA ActsShow ==
  ASSUME IInv, IInv', Exact, NEW t, Acts(t)
  PROVE  Promise!Next \/ UNCHANGED Shown
<1>1. /\ t \in Task /\ Stores /\ Tasks /\ Numbers
      /\ UNCHANGED <<faults, disturbed>>
  BY Acting DEF IInv
<1>2. ASSUME Promise!GiveUp(t) PROVE Promise!Next
  BY <1>1, <1>2 DEF Promise!Next
<1>3. CASE Unpack(t)
  BY <1>1, <1>2, <1>3, UnpackShows DEF Promise!Next
<1>4. CASE SwapIn(t)
  BY <1>1, <1>2, <1>4, SwapInShows DEF Promise!Next
<1>5. CASE ArchiveEnds(t)
  <2>1. PICK b : b = task[t].name
    OBVIOUS
  <2>2. At(t, "archived")
    BY <1>5 DEF ArchiveEnds
  <2>3. b \in Backup
    <3>1. task[t].op \in Makers /\ Now(t) = "archived" /\ Active(t)
      BY <1>1, <2>2, StepsOfSwappers DEF At, Now
    <3> QED BY <1>1, <2>1, <3>1, NamedUnlessAbandoned DEF On, Step
  <2>4. Promise!Archive(b)
    BY <1>5, <2>1, ArchiveShows DEF Promise!Archive
  <2> QED BY <2>3, <2>4 DEF Promise!Next
<1>6. CASE SwapOut(t)
  BY <1>1, <1>2, <1>6, SwapOutShows DEF Promise!Next
<1>7. CASE ~Unpack(t) /\ ~SwapOut(t) /\ ~SwapIn(t) /\ ~ArchiveEnds(t)
  <2>1. World' = World /\ Copy' = Copy
    BY <1>7, WorldActs, CopyActs
  <2>2. PICK doomed \in SUBSET Backup :
          file' = [b \in Backup |-> IF b \in doomed THEN Missing ELSE file[b]]
    BY <1>1, <1>7, OnlyArchives
  <2>3. Promise!Discard(doomed)
    BY <1>1, <2>1, <2>2 DEF Promise!Discard, World, Copy
  <2> QED BY <2>2, <2>3 DEF Promise!Next
<1> QED BY <1>3, <1>4, <1>5, <1>6, <1>7

\* A step at the wrong moment ends what is promised about the world.
LEMMA DisturbanceShows ==
  ASSUME disturbed \in BOOLEAN, disturbed' \in BOOLEAN, disturbed => disturbed', disturbed',
         Copy' = Copy, UNCHANGED <<file, faults>>
  PROVE  Promise!Next \/ UNCHANGED Shown
<1>1. World' = Missing
  BY DEF World
<1>2. CASE disturbed
  BY <1>1, <1>2 DEF Shown, World
<1>3. CASE ~disturbed
  BY <1>1, <1>3 DEF Promise!Next, Promise!Disturb, World, Copy
<1> QED BY <1>2, <1>3

\* Tasks that begin have no part in the world yet.
LEMMA BeginningsShow ==
  ASSUME IInv, IInv', Exact,
         \/ PassBegins
         \/ \E c \in Client, op \in Op \ {"none", "scheduled"}, b \in Backup \cup {0},
               v \in Version \cup {0} : Begin(c, op, b, v)
  PROVE  Promise!Next \/ UNCHANGED Shown
<1>1. /\ Stores /\ Tasks /\ Tasks' /\ Numbers /\ disturbed \in BOOLEAN /\ disturbed' \in BOOLEAN
      /\ ~disturbed => Alone
      /\ ~disturbed' => Alone'
  BY DEF IInv, Stores
<1>2. /\ Copy' = Copy /\ UNCHANGED <<root, file, faults>>
      /\ disturbed => disturbed'
      /\ \A u \in Task : /\ Exchanging(u)' <=> Exchanging(u)
                         /\ Exchanging(u) => task'[u].aside = task[u].aside
  BY <1>1, Beginnings
<1>3. CASE disturbed'
  BY <1>1, <1>2, <1>3, DisturbanceShows
<1>4. CASE ~disturbed'
  <2>1. disturbed' = disturbed
    BY <1>1, <1>2, <1>4
  <2>2. World' = World
    BY <1>1, <1>2, <2>1, WorldSame
  <2> QED BY <1>2, <2>1, <2>2 DEF Shown
<1> QED BY <1>3, <1>4

\* The server opens the world as it finds it, and only one that it can open.
LEMMA PowerShows ==
  ASSUME IInv, IInv', Power \/ Save
  PROVE  Promise!Next \/ UNCHANGED Shown
<1>1. /\ Stores /\ Tasks /\ disturbed \in BOOLEAN /\ disturbed' \in BOOLEAN
      /\ ~disturbed => Alone /\ Quiet
      /\ ~disturbed /\ faults = 0 => RootFits
  BY DEF IInv, Stores, VersionsFit
<1>2. /\ task' = Tear(task) /\ file' = file /\ UNCHANGED <<rowVars, faults>>
      /\ disturbed => disturbed'
  BY PowerMoves
<1>3. Copy' = Copy
  <2>1. AllKept
    BY <1>1, <1>2, TearMoves
  <2>2. ASSUME NEW u \in Task PROVE Copy'[u] = Copy[u]
    <3>1. /\ task'[u].todo = task[u].todo
          /\ task'[u].data # task[u].data => At(u, "archived")
      BY <1>1, <2>1, KeptFields DEF AllKept
    <3>2. /\ At(u, "swapOut")' <=> At(u, "swapOut")
          /\ Exchanging(u)' <=> Exchanging(u)
      BY <3>1 DEF At, Exchanging, Active
    <3>3. At(u, "swapOut") \/ Exchanging(u) => ~At(u, "archived")
      BY DEF At, Exchanging
    <3> QED BY <3>1, <3>2, <3>3 DEF Copy
  <2> QED BY <2>2 DEF Copy
<1>4. CASE disturbed'
  BY <1>1, <1>2, <1>3, <1>4, DisturbanceShows
<1>5. CASE ~disturbed'
  <2>1. ~disturbed /\ disturbed' = disturbed /\ task' = task
    BY <1>1, <1>2, <1>5, NothingTorn
  <2>2. CASE root' = root
    <3>1. World' = World
      BY <2>1, <2>2 DEF World, Exchanging, At, Active
    <3> QED BY <1>2, <1>3, <2>1, <3>1 DEF Shown
  <2>3. CASE Power /\ root' = [version |-> game, whole |-> root = Missing \/ root.whole]
    <3>1. \A u \in Task : ~Exchanging(u) /\ ~Exchanging(u)' /\ ~On(u, Swappers, Step)
      <4>1. \A u \in Task : Active(u) => task[u].op = "delete"
        BY <1>1, <1>5, <2>3, PowerDisturbs
      <4>2. \A u \in Task : ~Exchanging(u) /\ ~On(u, Swappers, Step)
        BY <1>1, <4>1, StepsOfSwappers DEF Exchanging, At, On, Swappers
      <4> QED BY <2>1, <4>2 DEF Exchanging, At, Active
    <3>2. World = root /\ World' = root'
      BY <2>1, <3>1 DEF World
    <3>3. faults = 0 => root # Missing /\ root.version <= game
      <4>1. \A u \in Task : ~On(u, Swappers, {"swapIn"}) /\ ~On(u, Swappers, {"remove", "finish"})
        BY <3>1 DEF On, Step
      <4> QED BY <1>1, <2>1, <4>1 DEF RootFits
    <3>4. PICK v \in Version : v = game
      BY <1>1 DEF Stores
    <3>5. Promise!Open
      <4>1. /\ faults = 0 => World # Missing /\ World.version <= v
            /\ World' = [version |-> v, whole |-> World = Missing \/ World.whole]
        BY <2>3, <3>2, <3>3, <3>4
      <4> QED BY <1>2, <1>3, <2>1, <3>4, <4>1 DEF Promise!Open, World, Copy
    <3> QED BY <3>5 DEF Promise!Next
  <2> QED BY <2>2, <2>3 DEF Power, Save, ServerStarts, ServerStops, ServerSaves
<1> QED BY <1>4, <1>5

\* A fault ends what tasks do; the world may stay where one of them moved it.
LEMMA FaultShows ==
  ASSUME IInv, IInv', Exact, Fault
  PROVE  Promise!Next
<1>1. /\ Stores /\ Tasks /\ Tasks'
      /\ ~disturbed => Alone
      /\ ~disturbed' => Alone'
  BY DEF IInv
<1>2. faults' = faults + 1 /\ UNCHANGED <<root, file, disturbed>>
  BY DEF Fault
<1>3. World' \in {World, Missing} /\ Copy' \in {Copy, Promise!Nothing}
  <2>1. CASE PanelCrashes
    <3>1. \A u \in Task : ~At(u, "swapOut")' /\ ~Exchanging(u)'
      BY <2>1, NothingDone DEF PanelCrashes, At, Exchanging, Active
    <3>2. Copy' = Promise!Nothing
      BY <3>1 DEF Copy, Promise!Nothing
    <3>3. World' = IF disturbed THEN Missing ELSE root
      BY <1>2, <3>1 DEF World
    <3>4. World' \in {World, Missing}
      <4>1. CASE disturbed \/ \A u \in Task : ~Exchanging(u)
        BY <3>3, <4>1 DEF World
      <4>2. CASE ~disturbed /\ \E u \in Task : Exchanging(u)
        BY <3>3, <4>2 DEF Exact
      <4> QED BY <4>1, <4>2
    <3> QED BY <3>2, <3>4
  <2>2. ASSUME NEW t \in Task, TaskDies(t)
        PROVE  World' = World /\ Copy' = Copy
    <3>1. /\ task' = [task EXCEPT ![t] = NoTask] /\ task \in [Task -> TaskRecord]
          /\ ~At(t, "swapOut") /\ ~Exchanging(t)
      BY <1>1, <2>2 DEF TaskDies, Tasks, At, Exchanging
    <3>2. ~At(t, "swapOut")' /\ ~Exchanging(t)'
      BY <3>1, NothingDone DEF At, Exchanging, Active
    <3>3. \A u \in Task \ {t} :
            /\ task'[u] = task[u] /\ (At(u, "swapOut")' <=> At(u, "swapOut"))
            /\ Exchanging(u)' <=> Exchanging(u)
      BY <3>1 DEF At, Exchanging, Active
    <3>4. Copy' = Copy
      BY <3>1, <3>2, <3>3 DEF Copy
    <3>5. \A u \in Task : /\ Exchanging(u)' <=> Exchanging(u)
                          /\ Exchanging(u) => task'[u].aside = task[u].aside
      BY <3>1, <3>2, <3>3
    <3> QED BY <1>1, <1>2, <3>4, <3>5, WorldSame
  <2> QED BY <2>1, <2>2 DEF Fault
<1> QED BY <1>2, <1>3 DEF Promise!Next, Promise!Fault, World, Copy

\* The first world is the one the promise begins with, ...
LEMMA ShownInitially == Init => Promise!Init
<1> SUFFICES ASSUME Init PROVE Promise!Init
  OBVIOUS
<1>1. \A t \in Task : ~At(t, "swapOut") /\ ~Exchanging(t)
  BY NothingDone DEF Init, StoreInit, At, Exchanging, Active
<1>2. World = root /\ Copy = Promise!Nothing
  BY <1>1 DEF World, Copy, Promise!Nothing, Init
<1> QED BY <1>2 DEF Promise!Init, World, Copy, Init, StoreInit

\* ... and every step keeps it.
LEMMA ShownStep == IInv /\ IInv' /\ Exact /\ [Next]_vars => [Promise!Next]_Shown
<1> SUFFICES ASSUME IInv, IInv', Exact, [Next]_vars PROVE Promise!Next \/ UNCHANGED Shown
  OBVIOUS
<1>1. CASE UNCHANGED vars
  BY <1>1 DEF vars, storeVars, Shown, World, Copy, Exchanging, At, Active
<1>2. ASSUME NEW t, Acts(t) PROVE Promise!Next \/ UNCHANGED Shown
  BY <1>2, ActsShow
<1>3. CASE \/ PassBegins
           \/ \E c \in Client, op \in Op \ {"none", "scheduled"}, b \in Backup \cup {0},
                 v \in Version \cup {0} : Begin(c, op, b, v)
  BY <1>3, BeginningsShow
<1>4. CASE SetPolicy \/ TimePasses
  <2>1. UNCHANGED <<root, file, task, faults, disturbed>>
    BY <1>4 DEF SetPolicy, TimePasses, storeVars
  <2> QED BY <2>1 DEF Shown, World, Copy, Exchanging, At, Active
<1>5. CASE Power \/ Save
  BY <1>5, PowerShows
<1>6. CASE Fault
  BY <1>6, FaultShows
<1> QED BY <1>1, <1>2, <1>3, <1>4, <1>5, <1>6 DEF Next, Acts

\* The handlers, the scheduled backups, the server and the crashes of the panel
\* together implement the promise about a world and the backups of it: archives
\* are snapshots, restores exchange the world at one moment or leave it, and a
\* server opens no world that is too new for it, unless somebody disturbs.
THEOREM SnapshotsAreKept == Spec => SnapshotsKept
<1>1. IInv /\ IInv' /\ Exact /\ [Next]_vars => [Promise!Next]_(Promise!vars)
  BY ShownStep DEF Promise!vars, Shown, World, Copy
<1> QED BY <1>1, ShownInitially, Invariant, ExactAlways, PTL DEF Spec, SnapshotsKept, Promise!Spec
=============================================================================
