----------------------------- MODULE FilesProofs -----------------------------
(***************************************************************************)
(* Theorems about Files for every set of clients, folders, names and files *)
(* of an archive, every initial content and every bound.                   *)
(***************************************************************************)
EXTENDS Files, SequenceTheorems, TLAPS

(* The inductive invariant *)

Steps == {"done", "guard", "source", "check", "rename", "copy", "fill", "mkdir", "trash",
          "read", "write", "store", "replace", "plan", "unzip"}

StepsOf(op) ==
  CASE op = "upload" -> {"guard", "store", "replace"}
    [] op = "mkdir" -> {"guard", "mkdir"}
    [] op = "move" -> {"guard", "source", "check", "rename"}
    [] op = "copy" -> {"guard", "check", "copy", "fill"}
    [] op = "extract" -> {"guard", "plan", "unzip"}
    [] op = "edit" -> {"guard", "read", "write"}
    [] op = "delete" -> {"guard", "trash"}
    [] op = "toggle" -> {"guard", "check", "rename"}
    [] OTHER -> {"done"}

TaskRecord ==
  [op : Operation \cup {"none"}, step : Steps, from : Path \cup {Nothing}, to : Path \cup {Nothing},
   files : Seq(File), i : Nat, n : 0 .. MaxRequests, temp : Dir \cup {Nothing},
   mine : BOOLEAN, late : BOOLEAN, rest : SUBSET Name, failed : BOOLEAN]

\* What the fields of a request hold.
Shape(a) ==
  /\ a.step \in StepsOf(a.op) /\ a.i <= Len(a.files)
  /\ a.op \notin {"upload", "extract"} => a.files = <<>>
  /\ a.op \in {"none", "upload", "delete"} => a.to = Nothing
  /\ a.op \in {"move", "copy", "toggle"} =>
       a.from \in Path /\ a.to \in Path /\ (IsFolder(a.from) <=> IsFolder(a.to))
  /\ a.op \in {"mkdir", "extract"} => a.to \in Path /\ IsFolder(a.to)
  /\ a.op = "edit" => a.from \in File /\ a.to = a.from
  /\ a.op = "delete" => a.from \in Path
  /\ a.op = "upload" => a.i < Len(a.files)
  /\ a.op = "extract" => \A k \in DOMAIN a.files : a.files[k][1] = a.to[1]
  /\ a.step = "fill" => IsFolder(a.to)
  /\ a.step = "rename" => a.from # a.to

Stores ==
  /\ disk \in [Path -> Item] /\ up \in BOOLEAN /\ contested \in BOOLEAN
  /\ trash \subseteq Content /\ kept \subseteq Content /\ edited \subseteq Item
  /\ requests \in 0 .. MaxRequests

\* Folders are above, and a file has its folder.
Placed(p) == (disk[p] = Folder => IsFolder(p)) /\ (Stored(p) => ~IsFolder(p) /\ There(p))
Tree == \A p \in Path : Placed(p)

\* The folder of a temporary file is there.
Temps == \A t \in Client : task[t].temp # Nothing => disk[<<task[t].temp, Here>>] = Folder

Tasks == task \in [Client -> TaskRecord] /\ \A t \in Client : Shape(task[t])

\* Requests are numbered in the order in which they begin, and what is kept is
\* of requests that have ended.
Numbers ==
  /\ \A t \in Client : Active(t) => task[t].n \in 1 .. requests
  /\ \A t, u \in Client : Active(t) /\ Active(u) /\ task[t].n = task[u].n => t = u
  /\ \A c \in kept : c[1] <= requests /\ \A t \in Client : Active(t) => c[1] # task[t].n

\* No two requests have targets of which one is above the other.
Apart == \A t, u \in Client : t # u => ~Clash(task[t], task[u])

\* Nobody has taken the place that a request has found free.
Vacant(t) ==
  /\ task[t].step \in {"rename", "copy"} => disk[task[t].to] = Nothing
  /\ task[t].step = "replace" => disk[task[t].files[task[t].i + 1]] = Nothing

\* What a request removes when it fails.
Undoable(a) == IF a.step \in {"copy", "fill"} THEN Under(a.to) ELSE {a.files[k] : k \in 1 .. a.i}

\* A content is in the trash, or was replaced by an edit, or is where none of
\* some requests would remove it.
Safe(c, clients) ==
  \/ c \in trash \cup edited
  \/ \E p \in Path : disk[p] = c /\ \A u \in clients : p \notin Undoable(task[u])

KeptSafe == \A c \in kept : Safe(c, Client)
OwnSafe(t) == \A k \in 1 .. task[t].i : Safe(<<task[t].n, k>>, Client \ {t})

\* Where an upload has stored files there are no others.
OwnPlaces(t) ==
  task[t].op = "upload" =>
    \A p \in Undoable(task[t]) : disk[p] # Nothing => disk[p] \in Content /\ disk[p][1] = task[t].n

\* What needs a stopped server, for requests other than uploads.
MustStop(p, op) ==
  op = "toggle" \/ p[2] \in Live \/ p[1] = World \/ (p[1] = Plugins /\ p[2] \in Jar)

\* What a request under a running server has been judged for, unless the server
\* was started after the judgement.
Allowed(t) ==
  LET a == task[t] IN
  Active(t) /\ up /\ ~a.late =>
    /\ a.op = "extract" => a.step = "guard"
    /\ a.op \in {"edit", "delete", "toggle"} /\ a.step # "guard" => ~MustStop(a.from, a.op)
    /\ a.op = "move" /\ a.step \notin {"guard", "source"} => ~MustStop(a.from, a.op)

Uncontested ==
  /\ Apart /\ KeptSafe
  /\ \A t \in Client : Vacant(t) /\ OwnSafe(t) /\ OwnPlaces(t)

IInv ==
  /\ Stores /\ Tree /\ Tasks /\ Temps /\ Numbers
  /\ \A t \in Client : Allowed(t)
  /\ ~contested => Uncontested
-----------------------------------------------------------------------------
(* Paths *)

\* A path is a folder or a name in one, and its folder is a path.
LEMMA Parts ==
  ASSUME NEW p \in Path
  PROVE  /\ p[1] \in Dir /\ p[2] \in Name \cup {Here} /\ p = <<p[1], p[2]>>
         /\ Up(p) \in Path /\ IsFolder(Up(p)) /\ Up(Up(p)) = Up(p)
         /\ IsFolder(p) <=> p = Up(p)
         /\ ~IsFolder(p) <=> p \in File
BY NameAssumption DEF Path, File, Up, IsFolder

\* A file is a path.
LEMMA FilesArePaths ==
  File \subseteq Path /\ \A p \in File : ~IsFolder(p) /\ Up(p) \in Path /\ p # Up(p)
BY NameAssumption DEF Path, File, Up, IsFolder

\* Neither a path nor a content is one of the two values that stand for no file and for a folder.
LEMMA Distinct ==
  /\ Nothing # Folder /\ Nothing \notin Path /\ Folder \notin Path
  /\ Nothing \notin Content /\ Folder \notin Content /\ Nothing \notin Dir
BY ItemAssumption, NameAssumption

\* The order of the tree: a path covers itself and what is in it.
LEMMA Covering ==
  ASSUME NEW p \in Path, NEW q \in Path
  PROVE  /\ Covers(p, p) /\ Covers(Up(p), p)
         /\ Covers(p, q) <=> p = q \/ p = Up(q)
         /\ Covers(p, q) /\ ~IsFolder(p) => p = q
         /\ Covers(p, q) /\ Covers(q, p) => p = q
BY NameAssumption DEF Path, Covers, Up, IsFolder

\* Covering is transitive.
LEMMA CoveringGoesOn ==
  ASSUME NEW p \in Path, NEW q \in Path, NEW r \in Path, Covers(p, q), Covers(q, r)
  PROVE  Covers(p, r)
BY NameAssumption DEF Path, Covers

\* What is comparable with a path is comparable with what covers the path.
LEMMA ComparableAbove ==
  ASSUME NEW p \in Path, NEW q \in Path, NEW r \in Path, Comparable(p, r), Covers(q, r)
  PROVE  Comparable(p, q)
BY NameAssumption DEF Path, Covers, Comparable
-----------------------------------------------------------------------------
(* Requests *)

\* The step tells the operation.
LEMMA StepTells ==
  ASSUME NEW a \in TaskRecord, Shape(a)
  PROVE  /\ a.op = "none" <=> a.step = "done"
         /\ a.step = "source" => a.op = "move"
         /\ a.step = "check" => a.op \in {"move", "copy", "toggle"}
         /\ a.step = "rename" => a.op \in {"move", "toggle"}
         /\ a.step \in {"copy", "fill"} => a.op = "copy"
         /\ a.step = "mkdir" => a.op = "mkdir"
         /\ a.step = "trash" => a.op = "delete"
         /\ a.step \in {"read", "write"} => a.op = "edit"
         /\ a.step \in {"store", "replace"} => a.op = "upload"
         /\ a.step \in {"plan", "unzip"} => a.op = "extract"
<1>1. a.op \in Operation \cup {"none"} /\ a.step \in StepsOf(a.op) BY DEF TaskRecord, Shape
<1> QED BY <1>1 DEF Operation, StepsOf

\* The fields of a request.
LEMMA Fields ==
  ASSUME NEW a \in TaskRecord
  PROVE  /\ a.op \in Operation \cup {"none"} /\ a.step \in Steps
         /\ a.from \in Path \cup {Nothing} /\ a.to \in Path \cup {Nothing}
         /\ a.files \in Seq(File) /\ a.i \in Nat /\ a.n \in 0 .. MaxRequests
         /\ a.temp \in Dir \cup {Nothing} /\ a.mine \in BOOLEAN /\ a.late \in BOOLEAN
         /\ a.rest \in SUBSET Name /\ a.failed \in BOOLEAN
BY DEF TaskRecord

\* The files of a request are files, and those that it has stored are some of them.
LEMMA FilesListed ==
  ASSUME NEW a \in TaskRecord, Shape(a)
  PROVE  /\ \A k \in DOMAIN a.files : a.files[k] \in File /\ a.files[k] \in Path /\ a.files[k] \in Targets(a)
         /\ \A k \in 1 .. a.i : k \in DOMAIN a.files
         /\ Targets(a) \subseteq Path
<1>1. a.files \in Seq(File) /\ a.i \in Nat /\ a.to \in Path \cup {Nothing} /\ a.i <= Len(a.files)
  BY Fields DEF Shape
<1>2. \A k \in DOMAIN a.files : a.files[k] \in File BY <1>1
<1>3. \A k \in 1 .. a.i : k \in DOMAIN a.files BY <1>1
<1>4. \A k \in DOMAIN a.files : a.files[k] \in Path /\ a.files[k] # Nothing BY <1>2, FilesArePaths, Distinct
<1> QED BY <1>1, <1>2, <1>3, <1>4 DEF Targets, Listed

\* What a request would remove lies at or under one of its targets.
LEMMA UndoableTargets ==
  ASSUME NEW a \in TaskRecord, Shape(a)
  PROVE  /\ Undoable(a) \subseteq Path
         /\ \A p \in Undoable(a) : \E q \in Targets(a) : Covers(q, p)
         /\ a.op = "none" => Undoable(a) = {} /\ Targets(a) = {}
<1>1. Undoable(a) \subseteq Path BY FilesListed DEF Undoable, Under
<1>2. ASSUME NEW p \in Undoable(a) PROVE \E q \in Targets(a) : Covers(q, p)
  <2>1. CASE a.step \in {"copy", "fill"}
    <3>1. a.to \in Path BY <2>1, StepTells DEF Shape
    <3>2. a.to \in Targets(a) BY <3>1, Distinct DEF Targets
    <3> QED BY <2>1, <3>2 DEF Undoable, Under
  <2>2. CASE a.step \notin {"copy", "fill"}
    <3>1. PICK k \in 1 .. a.i : p = a.files[k] BY <2>2 DEF Undoable
    <3>2. p \in Targets(a) /\ p \in Path BY <3>1, FilesListed
    <3> QED BY <3>2, Covering
  <2> QED BY <2>1, <2>2
<1>3. ASSUME a.op = "none" PROVE Undoable(a) = {} /\ Targets(a) = {}
  <2>1. a.files = <<>> /\ a.to = Nothing /\ a.step = "done" /\ a.i <= Len(a.files) BY <1>3, StepTells DEF Shape
  <2>2. a.i \in Nat BY Fields
  <2>3. 1 .. a.i = {} BY <2>1, <2>2
  <2> QED BY <2>1, <2>3 DEF Undoable, Targets, Listed
<1> QED BY <1>1, <1>2, <1>3

\* Requests that do not clash have no places that are comparable.
LEMMA NoClash ==
  ASSUME NEW a, NEW b, ~Clash(a, b)
  PROVE  /\ \A p \in Targets(a), q \in Targets(b) : ~Comparable(p, q)
         /\ ~Clash(b, a)
BY DEF Clash, Comparable

\* What a request has for a target is far from the targets and places of others.
LEMMA FarFromOthers ==
  ASSUME NEW a \in TaskRecord, Shape(a), NEW b \in TaskRecord, Shape(b), ~Clash(a, b),
         NEW p \in Path, NEW q \in Targets(a), Comparable(q, p)
  PROVE  p \notin Targets(b) /\ p \notin Undoable(b)
<1>1. q \in Path BY FilesListed
<1>2. p \notin Targets(b) BY NoClash
<1>3. ASSUME p \in Undoable(b) PROVE FALSE
  <2>1. PICK r \in Targets(b) : Covers(r, p) BY <1>3, UndoableTargets
  <2>2. r \in Path BY FilesListed
  <2>3. Comparable(q, r) BY <1>1, <2>1, <2>2, ComparableAbove
  <2> QED BY <2>3, NoClash
<1> QED BY <1>2, <1>3
-----------------------------------------------------------------------------
(* What a step of a request does *)

SameRequest(u) ==
  /\ task'[u].op = task[u].op /\ task'[u].step = task[u].step
  /\ task'[u].from = task[u].from /\ task'[u].to = task[u].to
  /\ task'[u].files = task[u].files /\ task'[u].i = task[u].i /\ task'[u].n = task[u].n
  /\ task'[u].late = task[u].late

Ended(t) == task'[t] = NoTask
Onward(t) ==
  /\ task'[t].op = task[t].op /\ task'[t].from = task[t].from /\ task'[t].to = task[t].to
  /\ task'[t].files = task[t].files /\ task'[t].n = task[t].n /\ task'[t].late = task[t].late
  /\ Shape(task'[t])

\* The requests of others stay as they are, except for where temporary files lie.
Moving(t) ==
  /\ task' \in [Client -> TaskRecord]
  /\ \A u \in Client : u # t => SameRequest(u)
  /\ Ended(t) \/ Onward(t)

\* It makes a file or folder at a target, above one or under one.
Writing(t) ==
  \A r \in Path : disk'[r] # disk[r] /\ disk'[r] # Nothing =>
    \E q \in Targets(task[t]) : Comparable(q, r)

\* A content is at or under a target afterwards.
Written(t, c) == \E p \in Path : disk'[p] = c /\ \E q \in Targets(task[t]) : Covers(q, p)

\* A content that is gone from a place is in the trash, edited, undone or moved.
Losing(t) ==
  \A r \in Path : Stored(r) /\ disk'[r] # disk[r] =>
    \/ disk[r] \in trash' \cup edited'
    \/ r \in Undoable(task[t])
    \/ Ended(t) /\ Written(t, disk[r])

Steady == \A r \in Path : Stored(r) => disk'[r] = disk[r]

\* Nothing of others is where the request would undo more than before.
Growing(t) == \A p \in Undoable(task'[t]) : p \notin Undoable(task[t]) => ~Stored(p)

\* Of its own contents, those stored so far stay, and at its end they are kept.
Keeping(t) ==
  /\ \A k \in 1 .. task'[t].i : Steady /\ (k <= task[t].i \/ Written(t, <<task[t].n, k>>))
  /\ \A c \in kept' \ kept :
       /\ Ended(t) /\ c[1] = task[t].n
       /\ Written(t, c) \/ (Steady /\ \E k \in 1 .. task[t].i : c = <<task[t].n, k>>)

Effect(t) ==
  /\ Stores' /\ Tree' /\ Moving(t)
  /\ contested' = contested /\ requests' = requests /\ up' = up
  /\ trash \subseteq trash' /\ edited \subseteq edited' /\ kept \subseteq kept'
  /\ \A c \in kept' \ kept : c[1] = task[t].n /\ Ended(t)
  /\ Uncontested => /\ Writing(t) /\ Losing(t) /\ Growing(t) /\ Keeping(t)
                    /\ Vacant(t)' /\ OwnPlaces(t)'

\* The types and the shape of the requests after a step.
LEMMA MovingKeepsTasks ==
  ASSUME Tasks, NEW t \in Client, Moving(t)
  PROVE  Tasks'
<1>1. task' \in [Client -> TaskRecord] BY DEF Moving
<1>2. ASSUME NEW u \in Client PROVE Shape(task'[u])
  <2>1. CASE u # t
    <3>1. Shape(task[u]) BY DEF Tasks
    <3> QED BY <2>1, <3>1 DEF Moving, SameRequest, Shape
  <2>2. CASE u = t /\ Onward(t) BY <2>2 DEF Onward
  <2>3. CASE u = t /\ Ended(t)
    <3>1. task'[u] = NoTask BY <2>3 DEF Ended
    <3>2. Len(NoTask.files) = 0 /\ NoTask.files = <<>> /\ NoTask.i = 0 /\ NoTask.to = Nothing
          /\ NoTask.op = "none" /\ NoTask.step = "done" BY DEF NoTask
    <3>3. "done" \in StepsOf("none") BY DEF StepsOf
    <3> QED BY <3>1, <3>2, <3>3 DEF Shape
  <2> QED BY <2>1, <2>2, <2>3 DEF Moving
<1> QED BY <1>1, <1>2 DEF Tasks

\* Targets and undoable places of the requests of others are as before, and the
\* request that moves has no more targets than before.
LEMMA MovingKeepsTargets ==
  ASSUME Tasks, NEW t \in Client, Moving(t)
  PROVE  /\ \A u \in Client : u # t => /\ Targets(task'[u]) = Targets(task[u])
                                        /\ Undoable(task'[u]) = Undoable(task[u])
         /\ Targets(task'[t]) \subseteq Targets(task[t])
         /\ Ended(t) => Undoable(task'[t]) = {} /\ Targets(task'[t]) = {}
<1>1. ASSUME NEW u \in Client, u # t
      PROVE  Targets(task'[u]) = Targets(task[u]) /\ Undoable(task'[u]) = Undoable(task[u])
  <2>1. SameRequest(u) BY <1>1 DEF Moving
  <2>2. Targets(task'[u]) = Targets(task[u]) BY <2>1 DEF SameRequest, Targets, Listed
  <2>3. {task'[u].files[k] : k \in 1 .. task'[u].i} = {task[u].files[k] : k \in 1 .. task[u].i}
    BY <2>1 DEF SameRequest
  <2>4. Undoable(task'[u]) = Undoable(task[u]) BY <2>1, <2>3 DEF SameRequest, Undoable
  <2> QED BY <2>2, <2>4
<1>2. Ended(t) => Undoable(task'[t]) = {} /\ Targets(task'[t]) = {}
  <2>1. Tasks' BY MovingKeepsTasks
  <2>2. Ended(t) => task'[t].op = "none" BY DEF Ended, NoTask
  <2>3. task'[t] \in TaskRecord /\ Shape(task'[t]) BY <2>1 DEF Tasks
  <2> QED BY <2>2, <2>3, UndoableTargets
<1>3. Onward(t) => Targets(task'[t]) = Targets(task[t]) BY DEF Onward, Targets, Listed
<1> QED BY <1>1, <1>2, <1>3 DEF Moving
-----------------------------------------------------------------------------
(* What such a step keeps *)

\* Safe, after the step.
SafeAfter(c, clients) ==
  \/ c \in trash' \cup edited'
  \/ \E p \in Path : disk'[p] = c /\ \A u \in clients : p \notin Undoable(task'[u])

\* What is written at a target is safe from all others, and from all at the end.
LEMMA WrittenIsSafe ==
  ASSUME Tasks, Apart, NEW t \in Client, Moving(t), NEW c, Written(t, c)
  PROVE  SafeAfter(c, Client \ {t}) /\ (Ended(t) => SafeAfter(c, Client))
<1>1. PICK p \in Path : disk'[p] = c /\ \E q \in Targets(task[t]) : Covers(q, p) BY DEF Written
<1>2. PICK q \in Targets(task[t]) : Covers(q, p) BY <1>1
<1>3. ASSUME NEW u \in Client, u # t PROVE p \notin Undoable(task'[u])
  <2>1. ~Clash(task[t], task[u]) BY <1>3 DEF Apart
  <2>2. p \notin Undoable(task[u])
    <3>1. task[t] \in TaskRecord /\ Shape(task[t]) /\ task[u] \in TaskRecord /\ Shape(task[u]) BY DEF Tasks
    <3>2. Comparable(q, p) BY <1>2 DEF Comparable
    <3> QED BY <2>1, <3>1, <3>2, FarFromOthers
  <2> QED BY <1>3, <2>2, MovingKeepsTargets
<1>4. Ended(t) => p \notin Undoable(task'[t]) BY MovingKeepsTargets
<1> QED BY <1>1, <1>3, <1>4 DEF SafeAfter

\* What is safe from a request among others stays safe when that request moves.
LEMMA SafeStays ==
  ASSUME Tasks, Apart, NEW t \in Client, Moving(t), Losing(t), Growing(t),
         trash \subseteq trash', edited \subseteq edited',
         NEW c \in Content, NEW S \in SUBSET Client, t \in S, Safe(c, S)
  PROVE  SafeAfter(c, S)
<1>1. CASE c \in trash \cup edited BY <1>1 DEF SafeAfter
<1>2. CASE c \notin trash \cup edited
  <2>1. PICK p \in Path : disk[p] = c /\ \A u \in S : p \notin Undoable(task[u]) BY <1>2 DEF Safe
  <2>2. Stored(p) BY <2>1 DEF Stored
  <2>3. CASE disk'[p] = c
    <3>1. \A u \in S : p \notin Undoable(task'[u])
      BY <2>1, <2>2, MovingKeepsTargets DEF Growing
    <3> QED BY <2>3, <3>1 DEF SafeAfter
  <2>4. CASE disk'[p] # c
    <3>1. c \in trash' \cup edited' \/ (Ended(t) /\ Written(t, c)) BY <2>1, <2>2, <2>4 DEF Losing
    <3>2. CASE c \in trash' \cup edited' BY <3>2 DEF SafeAfter
    <3>3. CASE Ended(t) /\ Written(t, c)
      <4>1. SafeAfter(c, Client) BY <3>3, WrittenIsSafe
      <4> QED BY <4>1 DEF SafeAfter
    <3> QED BY <3>1, <3>2, <3>3
  <2> QED BY <2>3, <2>4
<1> QED BY <1>1, <1>2

\* A step that changes no content leaves safe what is safe from the others.
LEMMA SteadyIsSafe ==
  ASSUME Tasks, NEW t \in Client, Moving(t), Steady, trash \subseteq trash', edited \subseteq edited',
         NEW c \in Content, Safe(c, Client \ {t})
  PROVE  SafeAfter(c, Client \ {t}) /\ (Ended(t) => SafeAfter(c, Client))
<1>1. CASE c \in trash \cup edited BY <1>1 DEF SafeAfter
<1>2. CASE c \notin trash \cup edited
  <2>1. PICK p \in Path : disk[p] = c /\ \A u \in Client \ {t} : p \notin Undoable(task[u]) BY <1>2 DEF Safe
  <2>2. disk'[p] = c BY <2>1 DEF Steady, Stored
  <2>3. \A u \in Client \ {t} : p \notin Undoable(task'[u]) BY <2>1, MovingKeepsTargets
  <2>4. Ended(t) => p \notin Undoable(task'[t]) BY MovingKeepsTargets
  <2> QED BY <2>2, <2>3, <2>4 DEF SafeAfter
<1> QED BY <1>1, <1>2

\* The numbers of requests stay in order.
LEMMA EffectKeepsNumbers ==
  ASSUME Stores, Tasks, Numbers, NEW t \in Client, Active(t), Effect(t)
  PROVE  Numbers'
<1>1. /\ \A u \in Client : u # t => SameRequest(u)
      /\ Ended(t) \/ Onward(t)
      /\ requests' = requests
      /\ \A c \in kept' \ kept : c[1] = task[t].n /\ Ended(t)
  BY DEF Effect, Moving
<1>2. Ended(t) => ~Active(t)' BY DEF Ended, NoTask, Active
<1>3. \A u \in Client : Active(u)' => Active(u) /\ task'[u].n = task[u].n
  BY <1>1, <1>2 DEF SameRequest, Onward, Active
<1>4. \A u \in Client : Active(u)' => task'[u].n \in 1 .. requests' BY <1>1, <1>3 DEF Numbers
<1>5. \A u, v \in Client : Active(u)' /\ Active(v)' /\ task'[u].n = task'[v].n => u = v
  BY <1>3 DEF Numbers
<1>6. ASSUME NEW c \in kept'
      PROVE  c[1] <= requests' /\ \A u \in Client : Active(u)' => c[1] # task'[u].n
  <2>1. CASE c \in kept BY <1>1, <1>3, <2>1 DEF Numbers
  <2>2. CASE c \notin kept
    <3>1. c[1] = task[t].n /\ Ended(t) BY <1>1, <2>2
    <3>2. task[t].n \in 1 .. requests /\ requests \in Int BY DEF Numbers, Stores
    <3>3. \A u \in Client : Active(u)' => task[t].n # task'[u].n
      BY <1>2, <1>3, <3>1 DEF Numbers
    <3> QED BY <1>1, <3>1, <3>2, <3>3
  <2> QED BY <2>1, <2>2
<1> QED BY <1>4, <1>5, <1>6 DEF Numbers

\* Targets stay apart.
LEMMA EffectKeepsApart ==
  ASSUME Tasks, Apart, NEW t \in Client, Moving(t)
  PROVE  Apart'
<1>1. \A u \in Client : Targets(task'[u]) \subseteq Targets(task[u]) BY MovingKeepsTargets
<1>2. ASSUME NEW u \in Client, NEW v \in Client, u # v PROVE ~Clash(task'[u], task'[v])
  BY <1>1, <1>2 DEF Apart, Clash
<1> QED BY <1>2 DEF Apart

\* The place that another request has found free stays free, and where others
\* have stored files there are no others.
LEMMA EffectKeepsPlaces ==
  ASSUME Tasks, Apart, NEW t \in Client, Moving(t), Writing(t),
         NEW u \in Client, u # t, Vacant(u), OwnPlaces(u)
  PROVE  Vacant(u)' /\ OwnPlaces(u)'
<1> DEFINE a == task[u]
<1>1. a \in TaskRecord /\ Shape(a) /\ task[t] \in TaskRecord /\ Shape(task[t]) /\ ~Clash(task[t], a)
  BY DEF Tasks, Apart
<1>2. ASSUME NEW p \in Path, p \in Targets(a) \/ p \in Undoable(a), disk'[p] # disk[p]
      PROVE  disk'[p] = Nothing
  <2>1. ASSUME disk'[p] # Nothing PROVE FALSE
    <3>1. PICK q \in Targets(task[t]) : Comparable(q, p) BY <1>2, <2>1 DEF Writing
    <3> QED BY <1>1, <1>2, <3>1, FarFromOthers
  <2> QED BY <2>1
<1>3. SameRequest(u) BY DEF Moving
<1>4. Vacant(u)'
  <2>1. ASSUME a.step \in {"rename", "copy"} PROVE disk'[a.to] = Nothing
    <3>1. a.op \in {"move", "toggle", "copy"} BY <1>1, <2>1, StepTells
    <3>2. a.to \in Path BY <1>1, <3>1 DEF Shape
    <3>3. a.to \in Targets(a) BY <3>2, Distinct DEF Targets
    <3>4. disk[a.to] = Nothing BY <2>1 DEF Vacant
    <3> QED BY <1>2, <3>2, <3>3, <3>4
  <2>2. ASSUME a.step = "replace" PROVE disk'[a.files[a.i + 1]] = Nothing
    <3>1. a.op = "upload" BY <1>1, <2>2, StepTells
    <3>2. a.i \in Nat /\ a.i < Len(a.files) /\ a.files \in Seq(File) BY <1>1, <3>1, Fields DEF Shape
    <3>3. a.i + 1 \in DOMAIN a.files BY <3>2
    <3>4. a.files[a.i + 1] \in Path /\ a.files[a.i + 1] \in Targets(a) BY <1>1, <3>3, FilesListed
    <3>5. disk[a.files[a.i + 1]] = Nothing BY <2>2 DEF Vacant
    <3> QED BY <1>2, <3>4, <3>5
  <2> QED BY <1>3, <2>1, <2>2 DEF Vacant, SameRequest
<1>5. OwnPlaces(u)'
  <2>1. Undoable(task'[u]) = Undoable(a) BY MovingKeepsTargets
  <2>2. \A p \in Undoable(a) : p \in Path BY <1>1, UndoableTargets
  <2> QED BY <1>2, <1>3, <2>1, <2>2 DEF OwnPlaces, SameRequest
<1> QED BY <1>4, <1>5

\* The invariant of uncontested requests is kept.
LEMMA EffectKeepsUncontested ==
  ASSUME Stores, Tree, Tasks, Numbers, Uncontested, NEW t \in Client, Active(t), Effect(t)
  PROVE  Uncontested'
<1>1. /\ Apart /\ KeptSafe /\ Moving(t) /\ Writing(t) /\ Losing(t) /\ Growing(t) /\ Keeping(t)
      /\ trash \subseteq trash' /\ edited \subseteq edited' /\ Vacant(t)' /\ OwnPlaces(t)'
      /\ \A u \in Client : Vacant(u) /\ OwnSafe(u) /\ OwnPlaces(u)
  BY DEF Uncontested, Effect
<1>2. Apart' BY <1>1, EffectKeepsApart
<1>3. \A u \in Client : Vacant(u)' /\ OwnPlaces(u)' BY <1>1, EffectKeepsPlaces
<1>4. ASSUME NEW u \in Client, NEW k \in 1 .. task[u].i PROVE <<task[u].n, k>> \in Content
  <2>1. task[u].n \in 0 .. MaxRequests /\ task[u].i \in Nat BY Fields DEF Tasks
  <2>2. k \in Nat BY <2>1
  <2> QED BY <2>1, <2>2 DEF Content
<1>5. ASSUME NEW c \in kept' PROVE SafeAfter(c, Client)
  <2>1. CASE c \in kept
    <3>1. c \in Content /\ Safe(c, Client) BY <1>1, <2>1 DEF Stores, KeptSafe
    <3> QED BY <1>1, <3>1, SafeStays
  <2>2. CASE c \notin kept /\ Written(t, c)
    <3>1. Ended(t) BY <1>1, <2>2 DEF Keeping
    <3> QED BY <1>1, <2>2, <3>1, WrittenIsSafe
  <2>3. CASE c \notin kept /\ ~Written(t, c)
    <3>1. Ended(t) /\ Steady /\ \E k \in 1 .. task[t].i : c = <<task[t].n, k>>
      BY <1>1, <2>3 DEF Keeping
    <3>2. c \in Content BY <1>4, <3>1
    <3>3. Safe(c, Client \ {t}) BY <1>1, <3>1 DEF OwnSafe
    <3> QED BY <1>1, <3>1, <3>2, <3>3, SteadyIsSafe
  <2> QED BY <2>1, <2>2, <2>3
<1>6. KeptSafe' BY <1>5 DEF KeptSafe, SafeAfter, Safe
<1>7. ASSUME NEW u \in Client, NEW k \in 1 .. task'[u].i
      PROVE  SafeAfter(<<task'[u].n, k>>, Client \ {u})
  <2>1. CASE u # t
    <3>1. task'[u].i = task[u].i /\ task'[u].n = task[u].n BY <1>1, <2>1 DEF Moving, SameRequest
    <3>2. <<task[u].n, k>> \in Content /\ Safe(<<task[u].n, k>>, Client \ {u})
      BY <1>1, <1>4, <3>1 DEF OwnSafe
    <3>3. SafeAfter(<<task[u].n, k>>, Client \ {u}) BY <1>1, <2>1, <3>2, SafeStays
    <3> QED BY <3>1, <3>3
  <2>2. CASE u = t
    <3>1. ~Ended(t)
      <4>1. Ended(t) => task'[t].i = 0 BY DEF Ended, NoTask
      <4> QED BY <2>2, <4>1
    <3>2. task'[t].n = task[t].n BY <1>1, <3>1 DEF Moving, Onward
    <3>3. Steady /\ (k <= task[t].i \/ Written(t, <<task[t].n, k>>)) BY <1>1, <2>2 DEF Keeping
    <3>4. CASE Written(t, <<task[t].n, k>>) BY <1>1, <2>2, <3>2, <3>4, WrittenIsSafe
    <3>5. CASE k <= task[t].i
      <4>0. task[t].i \in Nat BY Fields DEF Tasks
      <4>1. k \in 1 .. task[t].i BY <3>5, <4>0
      <4>2. <<task[t].n, k>> \in Content /\ Safe(<<task[t].n, k>>, Client \ {t})
        BY <1>1, <1>4, <4>1 DEF OwnSafe
      <4>3. SafeAfter(<<task[t].n, k>>, Client \ {t}) BY <1>1, <3>3, <4>2, SteadyIsSafe
      <4> QED BY <2>2, <3>2, <4>3
    <3> QED BY <3>3, <3>4, <3>5
  <2> QED BY <2>1, <2>2
<1>8. \A u \in Client : OwnSafe(u)' BY <1>7 DEF OwnSafe, SafeAfter, Safe
<1> QED BY <1>2, <1>3, <1>6, <1>8 DEF Uncontested
-----------------------------------------------------------------------------
(* The tree *)

\* A directory that is a tree, whatever it is called.
IsTree(now) ==
  /\ now \in [Path -> Item]
  /\ \A p \in Path : /\ now[p] = Folder => IsFolder(p)
                     /\ now[p] \in Content => ~IsFolder(p) /\ now[Up(p)] = Folder

\* The directory is one.
LEMMA DiskIsTree == disk \in [Path -> Item] /\ Tree <=> IsTree(disk)
BY Parts DEF IsTree, Tree, Placed, Stored, There

\* So it is after a step.
LEMMA DiskIsTreeAfter == disk' \in [Path -> Item] /\ Tree' <=> IsTree(disk')
BY Parts DEF IsTree, Tree, Placed, Stored, There

\* What is in a directory that is a tree.
LEMMA TreeItems ==
  ASSUME NEW now, IsTree(now), NEW p \in Path
  PROVE  /\ now[p] \in Content \/ now[p] = Nothing \/ now[p] = Folder
         /\ now[Up(p)] = Nothing /\ ~IsFolder(p) => now[p] = Nothing
         /\ IsFolder(p) => now[p] \in {Nothing, Folder}
         /\ \A q \in Path : now[q] = Nothing /\ Covers(q, p) => now[p] = Nothing
<1>1. now[p] \in Content \/ now[p] = Nothing \/ now[p] = Folder BY DEF IsTree, Item
<1>2. now[Up(p)] = Nothing /\ ~IsFolder(p) => now[p] = Nothing BY <1>1, Distinct DEF IsTree
<1>3. IsFolder(p) => now[p] \in {Nothing, Folder} BY <1>1 DEF IsTree
<1>4. ASSUME NEW q \in Path, now[q] = Nothing, Covers(q, p) PROVE now[p] = Nothing
  BY <1>2, <1>4, Covering, Parts
<1> QED BY <1>1, <1>2, <1>3, <1>4

\* Making a folder makes a tree of a tree.
LEMMA FolderMade ==
  ASSUME NEW now, IsTree(now), NEW f \in Path, IsFolder(f)
  PROVE  IsTree([now EXCEPT ![f] = Folder])
<1> DEFINE after == [now EXCEPT ![f] = Folder]
<1>1. Folder \in Item BY DEF Item
<1>2. after \in [Path -> Item] /\ \A p \in Path : after[p] = IF p = f THEN Folder ELSE now[p]
  BY <1>1 DEF IsTree
<1> HIDE DEF after
<1>3. ASSUME NEW p \in Path
      PROVE  /\ after[p] = Folder => IsFolder(p)
             /\ after[p] \in Content => ~IsFolder(p) /\ after[Up(p)] = Folder
  BY <1>2, Distinct, Parts DEF IsTree
<1> QED BY <1>2, <1>3 DEF IsTree, after

\* So does writing a file in a folder.
LEMMA FileWritten ==
  ASSUME NEW now, IsTree(now), NEW f \in File, now[Up(f)] = Folder, NEW c \in Content
  PROVE  IsTree([now EXCEPT ![f] = c])
<1> DEFINE after == [now EXCEPT ![f] = c]
<1>0. f \in Path /\ ~IsFolder(f) BY FilesArePaths
<1>1. c \in Item /\ c # Folder BY Distinct DEF Item
<1>2. after \in [Path -> Item] /\ \A p \in Path : after[p] = IF p = f THEN c ELSE now[p]
  BY <1>0, <1>1 DEF IsTree
<1> HIDE DEF after
<1>3. ASSUME NEW p \in Path
      PROVE  /\ after[p] = Folder => IsFolder(p)
             /\ after[p] \in Content => ~IsFolder(p) /\ after[Up(p)] = Folder
  BY <1>0, <1>1, <1>2, Distinct, Parts DEF IsTree
<1> QED BY <1>2, <1>3 DEF IsTree, after

\* Removing files makes a tree of a tree.
LEMMA FilesRemoved ==
  ASSUME NEW now, IsTree(now), NEW F \in SUBSET File
  PROVE  IsTree([p \in Path |-> IF p \in F THEN Nothing ELSE now[p]])
<1> DEFINE after == [p \in Path |-> IF p \in F THEN Nothing ELSE now[p]]
<1>1. Nothing \in Item BY DEF Item
<1>2. after \in [Path -> Item] /\ \A p \in Path : after[p] = IF p \in F THEN Nothing ELSE now[p]
  BY <1>1 DEF IsTree
<1>3. \A p \in Path : Up(p) \in Path /\ Up(p) \notin F BY Parts, FilesArePaths
<1> HIDE DEF after
<1>4. ASSUME NEW p \in Path
      PROVE  /\ after[p] = Folder => IsFolder(p)
             /\ after[p] \in Content => ~IsFolder(p) /\ after[Up(p)] = Folder
  BY <1>2, <1>3, Distinct DEF IsTree
<1> QED BY <1>2, <1>4 DEF IsTree, after

\* So does removing a path with what it holds.
LEMMA BranchRemoved ==
  ASSUME NEW now, IsTree(now), NEW b \in Path
  PROVE  IsTree([p \in Path |-> IF Covers(b, p) THEN Nothing ELSE now[p]])
<1> DEFINE after == [p \in Path |-> IF Covers(b, p) THEN Nothing ELSE now[p]]
<1>1. Nothing \in Item BY DEF Item
<1>2. after \in [Path -> Item] /\ \A p \in Path : after[p] = IF Covers(b, p) THEN Nothing ELSE now[p]
  BY <1>1 DEF IsTree
<1>3. \A p \in Path : Up(p) \in Path /\ (Covers(b, Up(p)) => Covers(b, p))
  BY Parts, Covering, CoveringGoesOn
<1> HIDE DEF after
<1>4. ASSUME NEW p \in Path
      PROVE  /\ after[p] = Folder => IsFolder(p)
             /\ after[p] \in Content => ~IsFolder(p) /\ after[Up(p)] = Folder
  BY <1>2, <1>3, Distinct DEF IsTree
<1> QED BY <1>2, <1>4 DEF IsTree, after

\* And removing a folder that holds no file.
LEMMA FolderRemoved ==
  ASSUME NEW now, IsTree(now), NEW f \in Path, IsFolder(f), \A x \in Name : now[<<f[1], x>>] = Nothing
  PROVE  IsTree([now EXCEPT ![f] = Nothing])
<1> DEFINE after == [now EXCEPT ![f] = Nothing]
<1>1. Nothing \in Item BY DEF Item
<1>2. after \in [Path -> Item] /\ \A p \in Path : after[p] = IF p = f THEN Nothing ELSE now[p]
  BY <1>1 DEF IsTree
<1>3. \A p \in Path : p # f /\ Up(p) = f => now[p] = Nothing
  BY NameAssumption DEF Path, Up, IsFolder
<1> HIDE DEF after
<1>4. ASSUME NEW p \in Path
      PROVE  /\ after[p] = Folder => IsFolder(p)
             /\ after[p] \in Content => ~IsFolder(p) /\ after[Up(p)] = Folder
  <2>1. Up(p) \in Path BY Parts
  <2> QED BY <1>2, <1>3, <2>1, Distinct DEF IsTree
<1> QED BY <1>2, <1>4 DEF IsTree, after

\* Renaming an item to its own level makes a tree of a tree.
LEMMA ItemRenamed ==
  ASSUME disk \in [Path -> Item], Tree, NEW p \in Path, NEW q \in Path,
         IsFolder(p) <=> IsFolder(q), disk[p] # Nothing, There(q)
  PROVE  IsTree(Renamed(p, q))
<1> DEFINE from(r) == IF IsFolder(p) THEN <<p[1], r[2]>> ELSE p
           after == [r \in Path |-> IF Covers(p, r) THEN Nothing
                                    ELSE IF Covers(q, r) THEN disk[from(r)] ELSE disk[r]]
<1>0. IsTree(disk) BY DiskIsTree
<1>1. \A r \in Path : from(r) \in Path BY DEF Path
<1>2. Nothing \in Item BY DEF Item
<1>3. after \in [Path -> Item] BY <1>1, <1>2
<1>4. \A r \in Path : after[r] = IF Covers(p, r) THEN Nothing
                                 ELSE IF Covers(q, r) THEN disk[from(r)] ELSE disk[r]
  OBVIOUS
<1>5. Renamed(p, q) = after BY DEF Renamed
<1> HIDE DEF after
<1>6. ASSUME NEW r \in Path
      PROVE  /\ after[r] = Folder => IsFolder(r)
             /\ after[r] \in Content => ~IsFolder(r) /\ after[Up(r)] = Folder
  <2>0. Up(r) \in Path /\ (IsFolder(r) <=> r = Up(r)) BY Parts
  <2>1. CASE Covers(p, r) BY <1>4, <2>1, Distinct
  <2>2. CASE ~Covers(p, r) /\ ~Covers(q, r)
    <3>1. ~Covers(p, Up(r)) /\ ~Covers(q, Up(r)) BY <2>0, <2>2, Covering, CoveringGoesOn
    <3> QED BY <1>0, <1>4, <2>0, <2>2, <3>1 DEF IsTree
  <2>3. CASE ~Covers(p, r) /\ Covers(q, r) /\ ~IsFolder(q)
    <3>1. r = q /\ ~IsFolder(p) BY <2>3, Covering
    <3>2. after[r] = disk[p] BY <1>4, <2>3, <3>1
    <3>3. disk[p] # Folder BY <1>0, <3>1 DEF IsTree
    <3>4. disk[Up(r)] = Folder BY <2>3, <3>1 DEF There
    <3>5. ~Covers(p, Up(r)) /\ ~Covers(q, Up(r)) BY <2>0, <2>3, <3>1, Covering, Parts
    <3> QED BY <1>4, <2>0, <2>3, <3>1, <3>2, <3>3, <3>4, <3>5
  <2>4. CASE ~Covers(p, r) /\ Covers(q, r) /\ IsFolder(q)
    <3>1. after[r] = disk[<<p[1], r[2]>>] /\ <<p[1], r[2]>> \in Path BY <1>1, <1>4, <2>4
    <3>2. IsFolder(<<p[1], r[2]>>) <=> IsFolder(r) BY DEF IsFolder
    <3>3. after[r] = Folder => IsFolder(r) BY <1>0, <3>1, <3>2 DEF IsTree
    <3>4. ASSUME after[r] \in Content PROVE ~IsFolder(r) /\ after[Up(r)] = Folder
      <4>1. ~IsFolder(r) BY <1>0, <3>1, <3>2, <3>4 DEF IsTree
      <4>2. q = Up(r) /\ ~Covers(p, q) BY <2>0, <2>4, <4>1, Covering, CoveringGoesOn
      <4>3. q[2] = Here /\ p[2] = Here BY <2>4 DEF IsFolder
      <4>4. from(q) = p BY <4>3, Parts DEF IsFolder
      <4>5. after[q] = disk[p] BY <1>4, <4>2, <4>4, Covering
      <4>6. disk[p] \in {Nothing, Folder} BY <1>0, <2>4, TreeItems
      <4> QED BY <4>1, <4>2, <4>5, <4>6
    <3> QED BY <3>3, <3>4
  <2> QED BY <2>1, <2>2, <2>3, <2>4
<1> QED BY <1>3, <1>5, <1>6 DEF IsTree

\* What was under a renamed item is under its new path, if there was nothing.
LEMMA ContentsMove ==
  ASSUME disk \in [Path -> Item], Tree, NEW p \in Path, NEW q \in Path,
         IsFolder(p) <=> IsFolder(q), disk[p] # Nothing, disk[q] = Nothing,
         NEW r \in Path, Stored(r), Renamed(p, q)[r] # disk[r]
  PROVE  \E s \in Path : Renamed(p, q)[s] = disk[r] /\ Covers(q, s)
<1> DEFINE from(x) == IF IsFolder(p) THEN <<p[1], x[2]>> ELSE p
<1>0. IsTree(disk) BY DiskIsTree
<1>1. \A x \in Path : Renamed(p, q)[x] = IF Covers(p, x) THEN Nothing
                                         ELSE IF Covers(q, x) THEN disk[from(x)] ELSE disk[x]
  BY DEF Renamed
<1>2. disk[r] # Nothing BY Distinct DEF Stored
<1>3. ~Covers(q, r) BY <1>0, <1>2, TreeItems
<1>4. Covers(p, r) BY <1>1, <1>3
<1> DEFINE s == IF IsFolder(p) THEN <<q[1], r[2]>> ELSE q
<1>5. s \in Path /\ Covers(q, s)
  <2>1. CASE IsFolder(p) BY <2>1 DEF Path, Covers, IsFolder
  <2>2. CASE ~IsFolder(p) BY <2>2, Covering
  <2> QED BY <2>1, <2>2
<1>6. p # q BY DEF Stored
<1>7. ~Covers(p, s)
  <2>1. CASE IsFolder(p)
    <3>1. p[2] = Here /\ q[2] = Here BY <2>1 DEF IsFolder
    <3>2. p[1] # q[1] BY <1>6, <3>1, Parts
    <3> QED BY <2>1, <3>2 DEF Covers
  <2>2. CASE ~IsFolder(p) BY <1>6, <2>2, Covering
  <2> QED BY <2>1, <2>2
<1>8. from(s) = r
  <2>1. CASE IsFolder(p)
    <3>1. p[1] = r[1] /\ r = <<r[1], r[2]>> BY <1>4, Parts DEF Covers
    <3> QED BY <2>1, <3>1
  <2>2. CASE ~IsFolder(p) BY <1>4, <2>2, Covering
  <2> QED BY <2>1, <2>2
<1> QED BY <1>1, <1>5, <1>7, <1>8
-----------------------------------------------------------------------------
(* How requests go on *)

Sound == Stores /\ Tree /\ Tasks /\ Temps

\* A client without a request.
LEMMA Idling == NoTask \in TaskRecord /\ Shape(NoTask)
<1>1. NoTask \in TaskRecord
  <2>1. <<>> \in Seq(File) /\ 0 \in Nat /\ 0 \in 0 .. MaxRequests BY BoundAssumption
  <2> QED BY <2>1 DEF NoTask, TaskRecord, Steps
<1>2. Len(NoTask.files) = 0 /\ NoTask.files = <<>> /\ NoTask.i = 0 /\ NoTask.to = Nothing
      /\ NoTask.op = "none" /\ NoTask.step = "done" BY DEF NoTask
<1>3. "done" \in StepsOf("none") BY DEF StepsOf
<1> QED BY <1>1, <1>2, <1>3 DEF Shape

\* A request that is at a step is there, and the step tells its operation.
LEMMA Acting ==
  ASSUME Tasks, NEW t \in Client
  PROVE  /\ task[t] \in TaskRecord /\ Shape(task[t])
         /\ task[t].step # "done" => Active(t)
BY StepTells DEF Tasks, Active

\* A request ends.
LEMMA Ending ==
  ASSUME Tasks, NEW t \in Client, task' = End(t)
  PROVE  Moving(t) /\ Ended(t)
<1>1. task' = [task EXCEPT ![t] = NoTask] /\ task \in [Client -> TaskRecord] BY DEF End, Tasks
<1> QED BY <1>1, Idling DEF Moving, Ended, SameRequest

\* It goes to another step.
LEMMA Going ==
  ASSUME Tasks, NEW t \in Client, NEW step \in StepsOf(task[t].op), step \in Steps, step # "fill",
         step = "rename" => task[t].from # task[t].to,
         task' = Goto(t, step)
  PROVE  Moving(t) /\ Onward(t) /\ task'[t].step = step /\ task'[t].i = task[t].i
<1> DEFINE a == task[t]
           b == [a EXCEPT !.step = step]
<1>1. a \in TaskRecord /\ Shape(a) BY DEF Tasks
<1>2. b \in TaskRecord BY <1>1 DEF TaskRecord
<1>3. /\ b.op = a.op /\ b.from = a.from /\ b.to = a.to /\ b.files = a.files /\ b.i = a.i
      /\ b.n = a.n /\ b.late = a.late /\ b.step = step
  BY <1>1 DEF TaskRecord
<1>4. task' = [task EXCEPT ![t] = b] /\ task \in [Client -> TaskRecord] BY DEF Goto, Tasks
<1> HIDE DEF b
<1>5. task' \in [Client -> TaskRecord] /\ task'[t] = b /\ \A u \in Client : u # t => task'[u] = task[u]
  BY <1>2, <1>4
<1>6. Shape(b) BY <1>1, <1>3 DEF Shape
<1> QED BY <1>3, <1>5, <1>6 DEF Moving, Onward, SameRequest

\* A request ends with a change of the tree, which temporary files follow.
LEMMA Carrying ==
  ASSUME Tasks, NEW t \in Client, NEW p \in Path, NEW d \in Dir \cup {Nothing},
         task' = Carried(p, d, End(t))
  PROVE  Moving(t) /\ Ended(t)
<1> DEFINE next == End(t)
           moved(u) == [next[u] EXCEPT !.temp = d]
<1>1. next = [task EXCEPT ![t] = NoTask] /\ task \in [Client -> TaskRecord] BY DEF End, Tasks
<1>2. next \in [Client -> TaskRecord] /\ next[t] = NoTask /\ \A u \in Client : u # t => next[u] = task[u]
  BY <1>1, Idling
<1>3. task' = [u \in Client |-> IF p = <<next[u].temp, Here>> THEN moved(u) ELSE next[u]]
  BY DEF Carried
<1> HIDE DEF next
<1>4. ASSUME NEW u \in Client
      PROVE  /\ moved(u) \in TaskRecord
             /\ moved(u).op = next[u].op /\ moved(u).step = next[u].step
             /\ moved(u).from = next[u].from /\ moved(u).to = next[u].to
             /\ moved(u).files = next[u].files /\ moved(u).i = next[u].i
             /\ moved(u).n = next[u].n /\ moved(u).late = next[u].late
  <2>1. next[u] \in TaskRecord BY <1>2
  <2> QED BY <2>1 DEF TaskRecord
<1> HIDE DEF moved
<1>5. \A u \in Client : task'[u] = moved(u) \/ task'[u] = next[u] BY <1>3
<1>6. task' \in [Client -> TaskRecord] BY <1>2, <1>3, <1>4
<1>7. task'[t] = NoTask
  <2>1. NoTask.temp = Nothing BY DEF NoTask
  <2>2. p # <<Nothing, Here>> BY Parts, Distinct
  <2> QED BY <1>2, <1>3, <2>1, <2>2
<1>8. \A u \in Client : u # t => SameRequest(u) BY <1>2, <1>4, <1>5 DEF SameRequest
<1> QED BY <1>6, <1>7, <1>8 DEF Moving, Ended

\* Of a request that has ended nothing is left.
LEMMA AfterTheEnd ==
  ASSUME Tasks, NEW t \in Client, Moving(t), Ended(t)
  PROVE  /\ Growing(t) /\ Vacant(t)' /\ OwnPlaces(t)'
         /\ \A k \in 1 .. task'[t].i : FALSE
<1>1. Undoable(task'[t]) = {} BY MovingKeepsTargets
<1>2. task'[t].step = "done" /\ task'[t].i = 0 /\ task'[t].op = "none" BY DEF Ended, NoTask
<1> QED BY <1>1, <1>2 DEF Growing, Vacant, OwnPlaces

\* The places that a request would undo do not depend on its other steps.
LEMMA SameUndoable ==
  ASSUME NEW t \in Client, Onward(t), task'[t].i = task[t].i,
         task'[t].step \in {"copy", "fill"} <=> task[t].step \in {"copy", "fill"}
  PROVE  Undoable(task'[t]) = Undoable(task[t])
<1>1. task'[t].files = task[t].files /\ task'[t].to = task[t].to BY DEF Onward
<1>2. {task'[t].files[k] : k \in 1 .. task'[t].i} = {task[t].files[k] : k \in 1 .. task[t].i} BY <1>1
<1>3. Under(task'[t].to) = Under(task[t].to) BY <1>1
<1> QED BY <1>2, <1>3 DEF Undoable
-----------------------------------------------------------------------------
(* The steps that only look *)

\* The directory and what is known of it stay.
Looking == UNCHANGED <<disk, trash, up, requests, kept, edited, contested>>

\* A step that only looks has the effect of a step, if it found free what it is
\* going to write.
LEMMA LookingEffect ==
  ASSUME Sound, NEW t \in Client, Looking, Moving(t),
         Uncontested =>
           Ended(t) \/ (task'[t].i = task[t].i /\ Growing(t) /\ OwnPlaces(t)' /\ Vacant(t)')
  PROVE  Effect(t)
<1>1. /\ disk' = disk /\ trash' = trash /\ up' = up /\ requests' = requests
      /\ kept' = kept /\ edited' = edited /\ contested' = contested
  BY DEF Looking
<1>2. Stores' BY <1>1 DEF Sound, Stores
<1>3. Tree' BY <1>1 DEF Sound, Tree, Placed, Stored, There
<1>4. Writing(t) /\ Losing(t) /\ Steady BY <1>1 DEF Writing, Losing, Steady
<1>5. Uncontested => Growing(t) /\ Vacant(t)' /\ OwnPlaces(t)' BY AfterTheEnd DEF Sound
<1>6. Uncontested => Keeping(t)
  <2>0. task[t].i \in Nat BY Fields DEF Sound, Tasks
  <2>1. Uncontested => \A k \in 1 .. task'[t].i : k <= task[t].i BY <2>0, AfterTheEnd DEF Sound
  <2> QED BY <1>1, <1>4, <2>1 DEF Keeping
<1> QED BY <1>1, <1>2, <1>3, <1>4, <1>5, <1>6 DEF Effect

\* So has one that goes on to a step for which nothing needs to be free.
LEMMA LookingOn ==
  ASSUME Sound, NEW t \in Client, Looking,
         NEW step \in StepsOf(task[t].op) \cap Steps, step \notin {"copy", "fill", "rename", "replace"},
         task[t].step \notin {"copy", "fill"}, task' = Goto(t, step)
  PROVE  Effect(t)
<1>1. Moving(t) /\ Onward(t) /\ task'[t].step = step /\ task'[t].i = task[t].i BY Going DEF Sound
<1>2. Undoable(task'[t]) = Undoable(task[t]) BY <1>1, SameUndoable
<1>3. Uncontested => OwnPlaces(t) BY DEF Uncontested
<1>4. task'[t].op = task[t].op /\ task'[t].n = task[t].n /\ disk' = disk BY <1>1 DEF Onward, Looking
<1>5. Uncontested => OwnPlaces(t)' BY <1>2, <1>3, <1>4 DEF OwnPlaces
<1>6. Growing(t) /\ Vacant(t)' BY <1>1, <1>2 DEF Growing, Vacant
<1> QED BY <1>1, <1>5, <1>6, LookingEffect

\* The step after the guard is one of the operation's.
LEMMA FirstSteps ==
  ASSUME NEW op \in Operation
  PROVE  /\ First(op) \in StepsOf(op) \cap Steps
         /\ First(op) \notin {"copy", "fill", "rename", "replace", "guard"}
BY DEF Operation, First, StepsOf, Steps

\* The guard.
LEMMA GuardEffect ==
  ASSUME Sound, NEW t \in Client, Guard(t)
  PROVE  Active(t) /\ Effect(t)
<1>1. task[t].step = "guard" /\ Looking /\ task[t] \in TaskRecord /\ Shape(task[t])
  BY Acting DEF Guard, At, Looking, counters, history, Sound
<1>2. Active(t) BY <1>1, Acting DEF Sound
<1>3. task[t].op \in Operation BY <1>1, <1>2, Fields DEF Active
<1>4. task' = End(t) \/ task' = Goto(t, First(task[t].op)) BY DEF Guard
<1>5. CASE task' = End(t) BY <1>1, <1>2, <1>5, Ending, LookingEffect DEF Sound
<1>6. CASE task' = Goto(t, First(task[t].op)) BY <1>1, <1>2, <1>3, <1>6, FirstSteps, LookingOn
<1> QED BY <1>2, <1>4, <1>5, <1>6

\* The guard of the source of a move.
LEMMA GuardSourceEffect ==
  ASSUME Sound, NEW t \in Client, GuardSource(t)
  PROVE  Active(t) /\ Effect(t)
<1>1. task[t].step = "source" /\ Looking /\ task[t] \in TaskRecord /\ Shape(task[t])
  BY Acting DEF GuardSource, At, Looking, counters, history, Sound
<1>2. Active(t) /\ task[t].op = "move" BY <1>1, Acting, StepTells DEF Sound
<1>3. task' = End(t) \/ task' = Goto(t, "check") BY DEF GuardSource
<1>4. "check" \in StepsOf("move") \cap Steps BY DEF StepsOf, Steps
<1>5. CASE task' = End(t) BY <1>1, <1>2, <1>5, Ending, LookingEffect DEF Sound
<1>6. CASE task' = Goto(t, "check") BY <1>1, <1>2, <1>4, <1>6, LookingOn
<1> QED BY <1>2, <1>3, <1>5, <1>6

\* An edit that looks at its file.
LEMMA ReadEffect ==
  ASSUME Sound, NEW t \in Client, Read(t)
  PROVE  Active(t) /\ Effect(t)
<1>1. task[t].step = "read" /\ Looking /\ task[t] \in TaskRecord /\ Shape(task[t])
  BY Acting DEF Read, At, Looking, counters, history, Sound
<1>2. Active(t) /\ task[t].op = "edit" BY <1>1, Acting, StepTells DEF Sound
<1>3. task' = End(t) \/ task' = Goto(t, "write") BY DEF Read
<1>4. "write" \in StepsOf("edit") \cap Steps BY DEF StepsOf, Steps
<1>5. CASE task' = End(t) BY <1>1, <1>2, <1>5, Ending, LookingEffect DEF Sound
<1>6. CASE task' = Goto(t, "write") BY <1>1, <1>2, <1>4, <1>6, LookingOn
<1> QED BY <1>2, <1>3, <1>5, <1>6

\* An extraction that looks for what it would overwrite.
LEMMA PlanEffect ==
  ASSUME Sound, NEW t \in Client, Plan(t)
  PROVE  Active(t) /\ Effect(t)
<1>1. task[t].step = "plan" /\ Looking /\ task[t] \in TaskRecord /\ Shape(task[t])
  BY Acting DEF Plan, At, Looking, counters, history, Sound
<1>2. Active(t) /\ task[t].op = "extract" BY <1>1, Acting, StepTells DEF Sound
<1>3. task' = End(t) \/ task' = Goto(t, "unzip") BY DEF Plan
<1>4. "unzip" \in StepsOf("extract") \cap Steps BY DEF StepsOf, Steps
<1>5. CASE task' = End(t) BY <1>1, <1>2, <1>5, Ending, LookingEffect DEF Sound
<1>6. CASE task' = Goto(t, "unzip") BY <1>1, <1>2, <1>4, <1>6, LookingOn
<1> QED BY <1>2, <1>3, <1>5, <1>6

\* A move, a copy or a toggle that looks at its source and destination: it has
\* nothing to lose at the destination if it goes on.
LEMMA CheckEffect ==
  ASSUME Sound, NEW t \in Client, Check(t)
  PROVE  Active(t) /\ Effect(t)
<1> DEFINE next == IF task[t].op = "copy" THEN "copy" ELSE "rename"
<1>1. task[t].step = "check" /\ Looking /\ task[t] \in TaskRecord /\ Shape(task[t])
  BY Acting DEF Check, At, Looking, counters, history, Sound
<1>2. Active(t) /\ task[t].op \in {"move", "copy", "toggle"} BY <1>1, Acting, StepTells DEF Sound
<1>3. \/ task' = End(t)
      \/ task' = Goto(t, next) /\ disk[task[t].to] = Nothing /\ task[t].from # task[t].to
  BY DEF Check
<1>4. next \in StepsOf(task[t].op) /\ next \in Steps BY <1>2 DEF StepsOf, Steps
<1>5. CASE task' = End(t) BY <1>1, <1>2, <1>5, Ending, LookingEffect DEF Sound
<1>6. CASE task' = Goto(t, next) /\ disk[task[t].to] = Nothing /\ task[t].from # task[t].to
  <2>1. Moving(t) /\ Onward(t) /\ task'[t].step = next /\ task'[t].i = task[t].i
    BY <1>4, <1>6, Going DEF Sound
  <2>2. task'[t].to = task[t].to /\ task'[t].op = task[t].op /\ disk' = disk
    BY <1>1, <2>1 DEF Onward, Looking
  <2>3. Vacant(t)' BY <1>6, <2>1, <2>2 DEF Vacant
  <2>4. OwnPlaces(t)' BY <1>2, <2>2 DEF OwnPlaces
  <2>5. Growing(t)
    <3>1. CASE next = "copy"
      <4>1. Undoable(task'[t]) = Under(task[t].to) BY <2>1, <2>2, <3>1 DEF Undoable
      <4>2. task[t].to \in Path BY <1>1, <1>2 DEF Shape
      <4>3. IsTree(disk) BY DiskIsTree DEF Sound, Stores
      <4>4. \A p \in Under(task[t].to) : disk[p] = Nothing BY <1>6, <4>2, <4>3, TreeItems DEF Under
      <4> QED BY <4>1, <4>4, Distinct DEF Growing, Stored
    <3>2. CASE next = "rename"
      <4>1. Undoable(task'[t]) = Undoable(task[t]) BY <1>1, <2>1, <3>2, SameUndoable
      <4> QED BY <4>1 DEF Growing
    <3> QED BY <3>1, <3>2
  <2> QED BY <1>1, <1>2, <2>1, <2>3, <2>4, <2>5, LookingEffect
<1> QED BY <1>2, <1>3, <1>5, <1>6
-----------------------------------------------------------------------------
(* The steps that end a request *)

Unmoved == UNCHANGED <<up, requests, contested>>

\* A request that ends with a change of the directory, and keeps nothing new.
LEMMA EndingEffect ==
  ASSUME Sound, NEW t \in Client, Moving(t), Ended(t), IsTree(disk'), Unmoved, kept' = kept,
         trash \subseteq trash', trash' \subseteq Content, edited \subseteq edited', edited' \subseteq Item,
         Uncontested => Writing(t) /\ Losing(t)
  PROVE  Effect(t)
<1>1. up' = up /\ requests' = requests /\ contested' = contested BY DEF Unmoved
<1>2. disk' \in [Path -> Item] /\ Tree' BY DiskIsTreeAfter
<1>3. Stores' BY <1>1, <1>2 DEF Sound, Stores
<1>4. Growing(t) /\ Vacant(t)' /\ OwnPlaces(t)' /\ Keeping(t) BY AfterTheEnd DEF Sound, Keeping
<1> QED BY <1>1, <1>2, <1>3, <1>4 DEF Effect

\* The files stored so far are files, and what a request would undo.
LEMMA DoneFiles ==
  ASSUME NEW t \in Client, task[t] \in TaskRecord, Shape(task[t]), task[t].step \notin {"copy", "fill"}
  PROVE  /\ Done(t) \subseteq File /\ Done(t) = Undoable(task[t])
         /\ Undone(t) = [p \in Path |-> IF p \in Done(t) THEN Nothing ELSE disk[p]]
<1>1. Done(t) \subseteq File BY FilesListed DEF Done
<1>2. Done(t) = Undoable(task[t]) BY DEF Done, Undoable
<1> QED BY <1>1, <1>2 DEF Undone

\* Undoing loses nothing but what may be undone.
LEMMA UndoingEffect ==
  ASSUME Sound, NEW t \in Client, Moving(t), Ended(t), Unmoved, UNCHANGED <<trash, edited, kept>>,
         task[t].step \notin {"copy", "fill"}, disk' = Undone(t)
  PROVE  Effect(t)
<1>1. task[t] \in TaskRecord /\ Shape(task[t]) BY DEF Sound, Tasks
<1>2. /\ Done(t) \subseteq File /\ Done(t) = Undoable(task[t])
      /\ disk' = [p \in Path |-> IF p \in Done(t) THEN Nothing ELSE disk[p]]
  BY <1>1, DoneFiles
<1>3. IsTree(disk) BY DiskIsTree DEF Sound, Stores
<1>4. IsTree(disk') BY <1>2, <1>3, FilesRemoved
<1>5. Writing(t) /\ Losing(t) BY <1>2 DEF Writing, Losing
<1> QED BY <1>4, <1>5, EndingEffect DEF Sound, Stores

\* The error path of a copy.
LEMMA CopyFailsEffect ==
  ASSUME Sound, NEW t \in Client, CopyFails(t), Unmoved, UNCHANGED <<trash, edited, kept>>,
         task[t].step \in {"copy", "fill"}
  PROVE  Effect(t)
<1>1. task[t] \in TaskRecord /\ Shape(task[t]) BY DEF Sound, Tasks
<1>2. task[t].op = "copy" BY <1>1, StepTells
<1>3. task[t].to \in Path BY <1>1, <1>2 DEF Shape
<1>4. Moving(t) /\ Ended(t) BY <1>3, Carrying DEF CopyFails, Sound
<1>5. disk' = [r \in Path |-> IF Covers(task[t].to, r) THEN Nothing ELSE disk[r]]
  BY DEF CopyFails, Removed
<1>6. IsTree(disk) BY DiskIsTree DEF Sound, Stores
<1>7. IsTree(disk') BY <1>3, <1>5, <1>6, BranchRemoved
<1>8. Writing(t) /\ Losing(t) BY <1>5 DEF Writing, Losing, Undoable, Under
<1> QED BY <1>4, <1>7, <1>8, EndingEffect DEF Sound, Stores

\* A folder is made.
LEMMA MakeFolderEffect ==
  ASSUME Sound, NEW t \in Client, MakeFolder(t)
  PROVE  Active(t) /\ Effect(t)
<1>1. task[t].step = "mkdir" /\ task[t] \in TaskRecord /\ Shape(task[t])
  BY Acting DEF MakeFolder, At, Sound
<1>2. Active(t) /\ task[t].op = "mkdir" BY <1>1, Acting, StepTells DEF Sound
<1>3. task[t].to \in Path /\ IsFolder(task[t].to) BY <1>1, <1>2 DEF Shape
<1>4. task[t].to \in Targets(task[t]) BY <1>3, Distinct DEF Targets
<1>5. Moving(t) /\ Ended(t) BY Ending DEF MakeFolder, Sound
<1>6. IsTree(disk) BY DiskIsTree DEF Sound, Stores
<1>7. disk' = disk \/ (disk[task[t].to] = Nothing /\ disk' = [disk EXCEPT ![task[t].to] = Folder])
  BY DEF MakeFolder
<1>8. IsTree(disk') BY <1>3, <1>6, <1>7, FolderMade
<1>9. \A r \in Path : disk'[r] # disk[r] => r = task[t].to /\ disk[r] = Nothing
  BY <1>3, <1>7 DEF Sound, Stores
<1>10. Writing(t) BY <1>3, <1>4, <1>9, Covering DEF Writing, Comparable
<1>11. Losing(t) BY <1>9, Distinct DEF Losing, Stored
<1>12. Unmoved /\ UNCHANGED <<trash, edited, kept>> BY DEF MakeFolder, Unmoved, counters, history
<1> QED BY <1>2, <1>5, <1>8, <1>10, <1>11, <1>12, EndingEffect DEF Sound, Stores

\* A deletion moves what it removes into the trash.
LEMMA TrashEffect ==
  ASSUME Sound, NEW t \in Client, Trash(t)
  PROVE  Active(t) /\ Effect(t)
<1> DEFINE p == task[t].from
<1>1. task[t].step = "trash" /\ task[t] \in TaskRecord /\ Shape(task[t])
  BY Acting DEF Trash, At, Sound
<1>2. Active(t) /\ task[t].op = "delete" BY <1>1, Acting, StepTells DEF Sound
<1>3. p \in Path BY <1>1, <1>2 DEF Shape
<1>4. Moving(t) /\ Ended(t) BY <1>3, Carrying DEF Trash, Sound
<1>5. disk' = [r \in Path |-> IF Covers(p, r) THEN Nothing ELSE disk[r]] BY DEF Trash, Removed
<1>6. trash' = trash \cup ({disk[r] : r \in Under(p)} \cap Content) BY DEF Trash
<1>7. IsTree(disk) BY DiskIsTree DEF Sound, Stores
<1>8. IsTree(disk') BY <1>3, <1>5, <1>7, BranchRemoved
<1>9. Writing(t) BY <1>5 DEF Writing
<1>10. Losing(t)
  <2>1. ASSUME NEW r \in Path, Stored(r), disk'[r] # disk[r] PROVE disk[r] \in trash'
    <3>1. r \in Under(p) BY <1>5, <2>1 DEF Under
    <3> QED BY <1>6, <2>1, <3>1 DEF Stored
  <2> QED BY <2>1 DEF Losing
<1>11. Unmoved /\ UNCHANGED <<edited, kept>> BY DEF Trash, Unmoved, counters, history
<1>12. trash \subseteq trash' /\ trash' \subseteq Content BY <1>6 DEF Sound, Stores
<1> QED BY <1>2, <1>4, <1>8, <1>9, <1>10, <1>11, <1>12, EndingEffect DEF Sound, Stores

\* A move or a toggle carries everything to where there was nothing.
LEMMA RenameEffect ==
  ASSUME Sound, NEW t \in Client, Rename(t)
  PROVE  Active(t) /\ Effect(t)
<1> DEFINE p == task[t].from
           q == task[t].to
<1>1. task[t].step = "rename" /\ task[t] \in TaskRecord /\ Shape(task[t])
  BY Acting DEF Rename, At, Sound
<1>2. Active(t) /\ task[t].op \in {"move", "toggle"} BY <1>1, Acting, StepTells DEF Sound
<1>3. p \in Path /\ q \in Path /\ (IsFolder(p) <=> IsFolder(q)) BY <1>1, <1>2 DEF Shape
<1>4. q \in Targets(task[t]) BY <1>3, Distinct DEF Targets
<1>5. Unmoved /\ UNCHANGED <<trash, edited, kept>> BY DEF Rename, Unmoved, counters, history
<1>6. IsTree(disk) BY DiskIsTree DEF Sound, Stores
<1>7. CASE Replaceable(p, q)
  <2>1. disk' = Renamed(p, q) /\ task' = Carried(p, q[1], End(t)) BY <1>7 DEF Rename
  <2>2. q[1] \in Dir BY <1>3, Parts
  <2>3. Moving(t) /\ Ended(t) BY <1>3, <2>1, <2>2, Carrying DEF Sound
  <2>4. disk[p] # Nothing /\ There(q) BY <1>7 DEF Replaceable
  <2>5. IsTree(disk') BY <1>3, <2>1, <2>4, ItemRenamed DEF Sound, Stores
  <2>6. Writing(t)
    <3>1. \A r \in Path : disk'[r] # disk[r] /\ disk'[r] # Nothing => Covers(q, r)
      BY <2>1 DEF Renamed
    <3> QED BY <1>4, <3>1 DEF Writing, Comparable
  <2>7. Uncontested => Losing(t)
    <3>1. Uncontested => disk[q] = Nothing BY <1>1 DEF Uncontested, Vacant
    <3>2. ASSUME Uncontested, NEW r \in Path, Stored(r), disk'[r] # disk[r] PROVE Written(t, disk[r])
      <4>1. \E s \in Path : Renamed(p, q)[s] = disk[r] /\ Covers(q, s)
        BY <1>3, <2>1, <2>4, <3>1, <3>2, ContentsMove DEF Sound, Stores
      <4> QED BY <1>4, <2>1, <4>1 DEF Written
    <3> QED BY <2>3, <3>2 DEF Losing
  <2> QED BY <1>2, <1>5, <2>3, <2>5, <2>6, <2>7, EndingEffect DEF Sound, Stores
<1>8. CASE ~Replaceable(p, q)
  <2>1. disk' = disk /\ task' = End(t) BY <1>8 DEF Rename
  <2> QED BY <1>2, <1>5, <2>1, Ending, LookingEffect DEF Sound, Looking, Unmoved
<1> QED BY <1>7, <1>8
-----------------------------------------------------------------------------
(* Copies and edits *)

\* A request goes on with other fields than before.
LEMMA Updating ==
  ASSUME Tasks, NEW t \in Client, NEW b \in TaskRecord, Shape(b), task' = [task EXCEPT ![t] = b],
         b.op = task[t].op, b.from = task[t].from, b.to = task[t].to, b.files = task[t].files,
         b.n = task[t].n, b.late = task[t].late
  PROVE  Moving(t) /\ Onward(t) /\ task'[t] = b
<1>1. task \in [Client -> TaskRecord] BY DEF Tasks
<1>2. task' \in [Client -> TaskRecord] /\ task'[t] = b /\ \A u \in Client : u # t => task'[u] = task[u]
  BY <1>1
<1> QED BY <1>2 DEF Moving, Onward, SameRequest

\* A request that goes on with a change of the directory.
LEMMA OngoingEffect ==
  ASSUME Sound, NEW t \in Client, Moving(t), IsTree(disk'), Unmoved, UNCHANGED <<trash, edited, kept>>,
         Uncontested => /\ Writing(t) /\ Losing(t) /\ Growing(t) /\ Keeping(t)
                        /\ Vacant(t)' /\ OwnPlaces(t)'
  PROVE  Effect(t)
<1>1. up' = up /\ requests' = requests /\ contested' = contested BY DEF Unmoved
<1>2. disk' \in [Path -> Item] /\ Tree' BY DiskIsTreeAfter
<1>3. Stores' BY <1>1, <1>2 DEF Sound, Stores
<1> QED BY <1>1, <1>2, <1>3 DEF Effect

\* A copy has no files of its own.
LEMMA Copying ==
  ASSUME NEW a \in TaskRecord, Shape(a), a.step \in {"copy", "fill"}
  PROVE  /\ a.op = "copy" /\ a.from \in Path /\ a.to \in Path /\ (IsFolder(a.from) <=> IsFolder(a.to))
         /\ a.i = 0 /\ a.to \in Targets(a) /\ Undoable(a) = Under(a.to)
<1>1. a.op = "copy" BY StepTells
<1>2. a.from \in Path /\ a.to \in Path /\ (IsFolder(a.from) <=> IsFolder(a.to)) /\ a.files = <<>>
      /\ a.i <= Len(a.files)
  BY <1>1 DEF Shape
<1>3. a.i \in Nat BY Fields
<1>4. a.i = 0 BY <1>2, <1>3
<1>5. a.to \in Targets(a) BY <1>2, Distinct DEF Targets
<1> QED BY <1>1, <1>2, <1>4, <1>5 DEF Undoable

\* The destination of a copy is made, as a file or as a folder.
LEMMA CopyEffect ==
  ASSUME Sound, NEW t \in Client, Copy(t)
  PROVE  Active(t) /\ Effect(t)
<1> DEFINE p == task[t].from
           q == task[t].to
<1>1. task[t].step = "copy" /\ task[t] \in TaskRecord /\ Shape(task[t]) /\ Active(t)
  BY Acting DEF Copy, At, Sound
<1>2. task[t].op = "copy" /\ p \in Path /\ q \in Path /\ (IsFolder(p) <=> IsFolder(q))
      /\ task[t].i = 0 /\ q \in Targets(task[t]) /\ Undoable(task[t]) = Under(q)
  BY <1>1, Copying
<1>3. Unmoved /\ UNCHANGED <<trash, edited, kept>> BY DEF Copy, Unmoved, counters, history
<1>4. IsTree(disk) BY DiskIsTree DEF Sound, Stores
<1>5. Uncontested => disk[q] = Nothing BY <1>1 DEF Uncontested, Vacant
<1>6. CASE Stored(p) /\ There(q) /\ disk' = [disk EXCEPT ![q] = disk[p]] /\ task' = End(t)
  <2>1. ~IsFolder(q) BY <1>2, <1>6 DEF Sound, Tree, Placed
  <2>2. q \in File /\ disk[Up(q)] = Folder /\ disk[p] \in Content
    BY <1>2, <1>6, <2>1, Parts DEF There, Stored
  <2>3. IsTree(disk') BY <1>4, <1>6, <2>2, FileWritten
  <2>4. Moving(t) /\ Ended(t) BY <1>6, Ending DEF Sound
  <2>5. \A r \in Path : disk'[r] # disk[r] => r = q BY <1>2, <1>6 DEF Sound, Stores
  <2>6. Writing(t) BY <1>2, <2>5, Covering DEF Writing, Comparable
  <2>7. Uncontested => Losing(t) BY <1>5, <2>5, Distinct DEF Losing, Stored
  <2> QED BY <1>1, <1>3, <2>3, <2>4, <2>6, <2>7, EndingEffect DEF Sound, Stores
<1>7. CASE /\ disk[p] = Folder /\ disk[q] = Nothing
           /\ disk' = [disk EXCEPT ![q] = Folder]
           /\ task' = [task EXCEPT ![t].step = "fill",
                                   ![t].rest = {x \in Name : Stored(<<p[1], x>>)}]
  <2> DEFINE rest == {x \in Name : Stored(<<p[1], x>>)}
             b == [task[t] EXCEPT !.step = "fill", !.rest = rest]
  <2>1. IsFolder(q) BY <1>2, <1>7 DEF Sound, Tree, Placed
  <2>2. IsTree(disk') BY <1>2, <1>4, <1>7, <2>1, FolderMade
  <2>3. rest \in SUBSET Name OBVIOUS
  <2> HIDE DEF rest
  <2>4. "fill" \in Steps /\ "fill" \in StepsOf("copy") BY DEF Steps, StepsOf
  <2>5. b \in TaskRecord BY <1>1, <2>3, <2>4 DEF TaskRecord
  <2>6. /\ b.op = task[t].op /\ b.from = p /\ b.to = q /\ b.files = task[t].files
        /\ b.n = task[t].n /\ b.late = task[t].late /\ b.i = task[t].i /\ b.step = "fill"
    BY <1>1 DEF TaskRecord
  <2>7. task' = [task EXCEPT ![t] = b] BY <1>7 DEF rest
  <2> HIDE DEF b
  <2>8. Shape(b) BY <1>1, <1>2, <2>1, <2>4, <2>6 DEF Shape
  <2>9. Moving(t) /\ Onward(t) /\ task'[t] = b BY <2>5, <2>6, <2>7, <2>8, Updating DEF Sound
  <2>10. \A r \in Path : disk'[r] # disk[r] => r = q BY <1>2, <1>7 DEF Sound, Stores
  <2>11. Writing(t) BY <1>2, <2>10, Covering DEF Writing, Comparable
  <2>12. Losing(t) BY <1>7, <2>10, Distinct DEF Losing, Stored
  <2>13. Undoable(task'[t]) = Undoable(task[t]) BY <1>1, <2>6, <2>9, SameUndoable
  <2>14. Growing(t) BY <2>13 DEF Growing
  <2>15. Keeping(t) BY <1>2, <1>3, <2>6, <2>9 DEF Keeping
  <2>16. Vacant(t)' /\ OwnPlaces(t)' BY <1>2, <2>6, <2>9 DEF Vacant, OwnPlaces
  <2> QED BY <1>1, <1>3, <2>2, <2>9, <2>11, <2>12, <2>14, <2>15, <2>16, OngoingEffect
<1>8. CASE CopyFails(t) BY <1>1, <1>3, <1>8, CopyFailsEffect
<1> QED BY <1>6, <1>7, <1>8 DEF Copy

\* A file of a copied folder is made, under the destination.
LEMMA FilledEffect ==
  ASSUME Sound, NEW t \in Client, task[t].step = "fill", NEW x \in Name, NEW c \in Content,
         NEW failed \in BOOLEAN,
         \/ disk' = disk
         \/ disk[task[t].to] = Folder /\ disk' = [disk EXCEPT ![<<task[t].to[1], x>>] = c],
         task' = [task EXCEPT ![t].rest = @ \ {x}, ![t].failed = failed],
         Unmoved, UNCHANGED <<trash, edited, kept>>
  PROVE  Effect(t)
<1> DEFINE q == task[t].to
           f == <<q[1], x>>
           b == [task[t] EXCEPT !.rest = @ \ {x}, !.failed = failed]
<1>1. task[t] \in TaskRecord /\ Shape(task[t]) BY DEF Sound, Tasks
<1>2. task[t].op = "copy" /\ q \in Path /\ task[t].i = 0 /\ q \in Targets(task[t])
      /\ Undoable(task[t]) = Under(q)
  BY <1>1, Copying
<1>3. IsFolder(q) BY <1>1 DEF Shape
<1>4. f \in File /\ f \in Path /\ Up(f) = q /\ Covers(q, f)
  BY <1>2, <1>3, NameAssumption DEF Path, File, Up, IsFolder, Covers
<1>5. IsTree(disk) BY DiskIsTree DEF Sound, Stores
<1> HIDE DEF f
<1>6. IsTree(disk') BY <1>4, <1>5, FileWritten DEF f
<1>7. \A r \in Path : disk'[r] # disk[r] => r = f BY <1>4 DEF Sound, Stores, f
<1>8. b \in TaskRecord BY <1>1 DEF TaskRecord
<1>9. /\ b.op = task[t].op /\ b.from = task[t].from /\ b.to = q /\ b.files = task[t].files
      /\ b.n = task[t].n /\ b.late = task[t].late /\ b.i = task[t].i /\ b.step = task[t].step
  BY <1>1 DEF TaskRecord
<1>10. task' = [task EXCEPT ![t] = b] OBVIOUS
<1> HIDE DEF b
<1>11. Shape(b) BY <1>1, <1>9 DEF Shape
<1>12. Moving(t) /\ Onward(t) /\ task'[t] = b BY <1>8, <1>9, <1>10, <1>11, Updating DEF Sound
<1>13. Writing(t) BY <1>2, <1>4, <1>7 DEF Writing, Comparable
<1>14. Losing(t) BY <1>2, <1>4, <1>7 DEF Losing, Under
<1>15. Undoable(task'[t]) = Undoable(task[t]) BY <1>9, <1>12, SameUndoable
<1>16. Growing(t) BY <1>15 DEF Growing
<1>17. Keeping(t) BY <1>2, <1>9, <1>12 DEF Keeping
<1>18. Vacant(t)' /\ OwnPlaces(t)' BY <1>2, <1>9, <1>12 DEF Vacant, OwnPlaces
<1> QED BY <1>6, <1>12, <1>13, <1>14, <1>16, <1>17, <1>18, OngoingEffect

\* So are all of them, one by one, before the copy ends or fails.
LEMMA FillEffect ==
  ASSUME Sound, NEW t \in Client, Fill(t)
  PROVE  Active(t) /\ Effect(t)
<1>1. task[t].step = "fill" /\ task[t] \in TaskRecord /\ Shape(task[t]) /\ Active(t)
  BY Acting DEF Fill, At, Sound
<1>2. Unmoved /\ UNCHANGED <<trash, edited, kept>> BY DEF Fill, Unmoved, counters, history
<1>3. CASE task[t].rest = {} /\ ~task[t].failed /\ UNCHANGED disk /\ task' = End(t)
  BY <1>1, <1>2, <1>3, Ending, LookingEffect DEF Sound, Looking, Unmoved
<1>4. CASE task[t].rest = {} /\ task[t].failed /\ CopyFails(t)
  BY <1>1, <1>2, <1>4, CopyFailsEffect
<1>5. ASSUME NEW x \in task[t].rest,
             LET source == <<task[t].from[1], x>>
                 copied == Stored(source) /\ disk[task[t].to] = Folder
             IN /\ disk' = IF copied THEN [disk EXCEPT ![<<task[t].to[1], x>>] = disk[source]] ELSE disk
                /\ task' = [task EXCEPT ![t].rest = @ \ {x}, ![t].failed = @ \/ ~copied]
      PROVE  Effect(t)
  <2> DEFINE source == <<task[t].from[1], x>>
             copied == Stored(source) /\ disk[task[t].to] = Folder
             failed == task[t].failed \/ ~copied
  <2>1. x \in Name BY <1>1, Fields
  <2>2. task' = [task EXCEPT ![t].rest = @ \ {x}, ![t].failed = failed] BY <1>5
  <2>3. failed \in BOOLEAN OBVIOUS
  <2>4. disk' = IF copied THEN [disk EXCEPT ![<<task[t].to[1], x>>] = disk[source]] ELSE disk BY <1>5
  <2> HIDE DEF failed
  <2>5. CASE copied BY <1>1, <1>2, <2>1, <2>2, <2>3, <2>4, <2>5, FilledEffect DEF Stored
  <2>6. CASE ~copied
    <3>1. <<0, 0>> \in Content BY BoundAssumption DEF Content
    <3> QED BY <1>1, <1>2, <2>1, <2>2, <2>3, <2>4, <2>6, <3>1, FilledEffect
  <2> QED BY <2>5, <2>6
<1> QED BY <1>1, <1>3, <1>4, <1>5 DEF Fill

\* An edit replaces its file, or makes it again.
LEMMA WriteEffect ==
  ASSUME Sound, NEW t \in Client, Write(t)
  PROVE  Active(t) /\ Effect(t)
<1> DEFINE p == task[t].from
           new == <<task[t].n, 1>>
<1>1. task[t].step = "write" /\ task[t] \in TaskRecord /\ Shape(task[t]) /\ Active(t)
  BY Acting DEF Write, At, Sound
<1>2. task[t].op = "edit" BY <1>1, StepTells
<1>3. p \in File /\ task[t].to = p /\ p \in Path /\ ~IsFolder(p) BY <1>1, <1>2, FilesArePaths DEF Shape
<1>4. p \in Targets(task[t]) BY <1>3, Distinct DEF Targets
<1>5. Unmoved /\ trash' = trash /\ task' = End(t) BY DEF Write, Unmoved, counters
<1>6. Moving(t) /\ Ended(t) BY <1>5, Ending DEF Sound
<1>7. CASE ~There(p)
  <2>1. UNCHANGED <<disk, kept, edited>> BY <1>7 DEF Write
  <2> QED BY <1>1, <1>5, <1>6, <2>1, LookingEffect DEF Looking, Unmoved
<1>8. CASE There(p)
  <2>1. /\ disk' = [disk EXCEPT ![p] = new]
        /\ kept' = kept \cup {new} /\ edited' = edited \cup {disk[p]}
    BY <1>8 DEF Write
  <2>2. new \in Content BY <1>1, Fields DEF Content
  <2>3. IsTree(disk) /\ disk[Up(p)] = Folder BY <1>3, <1>8, DiskIsTree DEF Sound, Stores, There
  <2>4. IsTree(disk') BY <1>3, <2>1, <2>2, <2>3, FileWritten
  <2>5. disk' \in [Path -> Item] /\ Tree' BY <2>4, DiskIsTreeAfter
  <2>6. disk[p] \in Item BY <1>3 DEF Sound, Stores
  <2>7. up' = up /\ requests' = requests /\ contested' = contested BY <1>5 DEF Unmoved
  <2>8. Stores' BY <1>5, <2>1, <2>2, <2>5, <2>6, <2>7 DEF Sound, Stores
  <2>9. \A r \in Path : disk'[r] # disk[r] => r = p BY <2>1 DEF Sound, Stores
  <2>10. Writing(t) BY <1>3, <1>4, <2>9, Covering DEF Writing, Comparable
  <2>11. Losing(t) BY <2>1, <2>9 DEF Losing
  <2>12. disk'[p] = new BY <1>3, <2>1 DEF Sound, Stores
  <2>13. Written(t, new) BY <1>3, <1>4, <2>12, Covering DEF Written
  <2>14. new[1] = task[t].n OBVIOUS
  <2> HIDE DEF new
  <2>15. Growing(t) /\ Vacant(t)' /\ OwnPlaces(t)' /\ Keeping(t)
    BY <1>6, <2>1, <2>13, <2>14, AfterTheEnd DEF Sound, Keeping
  <2> QED BY <1>1, <1>5, <1>6, <2>1, <2>5, <2>7, <2>8, <2>10, <2>11, <2>14, <2>15 DEF Effect
<1> QED BY <1>7, <1>8
-----------------------------------------------------------------------------
(* Uploads and extraction *)

\* The next file of an upload or an extraction.
LEMMA NextFile ==
  ASSUME NEW a \in TaskRecord, Shape(a), a.op \in {"upload", "extract"}, a.i < Len(a.files)
  PROVE  /\ a.i \in Nat /\ a.i + 1 \in DOMAIN a.files /\ a.i + 1 <= Len(a.files)
         /\ a.files[a.i + 1] \in File /\ a.files[a.i + 1] \in Path /\ a.files[a.i + 1] \in Targets(a)
         /\ Up(a.files[a.i + 1]) \in Path /\ IsFolder(Up(a.files[a.i + 1]))
         /\ <<a.n, a.i + 1>> \in Content
         /\ a.step \notin {"copy", "fill"}
         /\ Undoable(a) = {a.files[k] : k \in 1 .. a.i}
<1>1. a.i \in Nat /\ a.files \in Seq(File) /\ a.n \in 0 .. MaxRequests BY Fields
<1>2. a.i + 1 \in DOMAIN a.files /\ a.i + 1 <= Len(a.files) BY <1>1
<1>3. a.files[a.i + 1] \in File /\ a.files[a.i + 1] \in Path /\ a.files[a.i + 1] \in Targets(a)
  BY <1>2, FilesListed
<1>4. a.step \notin {"copy", "fill"} BY StepTells
<1>5. <<a.n, a.i + 1>> \in Content BY <1>1 DEF Content
<1> QED BY <1>1, <1>2, <1>3, <1>4, <1>5, Parts DEF Undoable

\* An upload makes the folder of its next file, which it has found free.
LEMMA StoreEffect ==
  ASSUME Sound, NEW t \in Client, Store(t)
  PROVE  Active(t) /\ Effect(t)
<1> DEFINE a == task[t]
           p == a.files[a.i + 1]
<1>1. a.step = "store" /\ a \in TaskRecord /\ Shape(a) /\ Active(t)
  BY Acting DEF Store, At, Sound
<1>2. a.op = "upload" BY <1>1, StepTells
<1>3. a.i < Len(a.files) BY <1>1, <1>2 DEF Shape
<1>4. /\ p \in File /\ p \in Path /\ p \in Targets(a) /\ Up(p) \in Path /\ IsFolder(Up(p))
      /\ Undoable(a) = {a.files[k] : k \in 1 .. a.i}
  BY <1>1, <1>2, <1>3, NextFile
<1>5. Unmoved /\ UNCHANGED <<trash, edited, kept>> BY DEF Store, Unmoved, counters, history
<1>6. CASE disk[p] # Nothing
  <2>1. disk' = Undone(t) /\ task' = End(t) BY <1>6 DEF Store
  <2> QED BY <1>1, <1>5, <2>1, Ending, UndoingEffect DEF Sound
<1>7. CASE disk[p] = Nothing
  <2> DEFINE b == [a EXCEPT !.step = "replace", !.temp = p[1]]
  <2>1. /\ disk' = [disk EXCEPT ![Up(p)] = Folder]
        /\ task' = [task EXCEPT ![t].step = "replace", ![t].temp = p[1]]
    BY <1>7 DEF Store
  <2>2. IsTree(disk) BY DiskIsTree DEF Sound, Stores
  <2>3. IsTree(disk') BY <1>4, <2>1, <2>2, FolderMade
  <2>4. p[1] \in Dir BY <1>4, Parts
  <2>5. "replace" \in Steps /\ "replace" \in StepsOf("upload") BY DEF Steps, StepsOf
  <2>6. b \in TaskRecord BY <1>1, <2>4, <2>5 DEF TaskRecord
  <2>7. /\ b.op = a.op /\ b.from = a.from /\ b.to = a.to /\ b.files = a.files
        /\ b.n = a.n /\ b.late = a.late /\ b.i = a.i /\ b.step = "replace"
    BY <1>1 DEF TaskRecord
  <2>8. task' = [task EXCEPT ![t] = b] BY <2>1
  <2> HIDE DEF b
  <2>9. Shape(b) BY <1>1, <1>2, <2>5, <2>7 DEF Shape
  <2>10. Moving(t) /\ Onward(t) /\ task'[t] = b BY <2>6, <2>7, <2>8, <2>9, Updating DEF Sound
  <2>11. \A r \in Path : r # Up(p) => disk'[r] = disk[r] BY <2>1 DEF Sound, Stores
  <2>12. Writing(t) BY <1>4, <2>11, Covering DEF Writing, Comparable
  <2>13. ~Stored(Up(p)) BY <1>4, <2>2, TreeItems, Distinct DEF Stored
  <2>14. Steady /\ Losing(t) BY <2>11, <2>13 DEF Steady, Losing
  <2>15. Undoable(task'[t]) = Undoable(a) BY <1>1, <2>7, <2>10, SameUndoable
  <2>16. Keeping(t)
    <3>1. a.i \in Nat BY <1>1, Fields
    <3>2. \A k \in 1 .. task'[t].i : k <= a.i BY <2>7, <2>10, <3>1
    <3> QED BY <1>5, <2>14, <3>2 DEF Keeping
  <2>17. p # Up(p) BY <1>4, FilesArePaths
  <2>18. Vacant(t)'
    <3>1. disk'[p] = Nothing BY <1>4, <1>7, <2>11, <2>17
    <3> QED BY <2>7, <2>10, <3>1 DEF Vacant
  <2>19. Uncontested => OwnPlaces(t)'
    <3>1. \A r \in Undoable(a) : r \in Path /\ r # Up(p)
      BY <1>1, <1>4, FilesListed, FilesArePaths
    <3> QED BY <2>7, <2>10, <2>11, <2>15, <3>1, ZenonT(60) DEF Uncontested, OwnPlaces
  <2> QED BY <1>1, <1>5, <2>3, <2>10, <2>12, <2>14, <2>15, <2>16, <2>18, <2>19, OngoingEffect DEF Growing
<1> QED BY <1>6, <1>7

\* The next file is written where there was nothing.
LEMMA NextWritten ==
  ASSUME Sound, NEW t \in Client, task[t].op \in {"upload", "extract"}, task[t].i < Len(task[t].files),
         NEW p, p = task[t].files[task[t].i + 1], NEW c, disk[p] = Nothing, disk'[p] = c,
         \A r \in Path : r # p /\ r # Up(p) => disk'[r] = disk[r]
  PROVE  Writing(t) /\ Steady /\ Losing(t) /\ Written(t, c)
<1>1. task[t] \in TaskRecord /\ Shape(task[t]) BY DEF Sound, Tasks
<1>2. p \in Path /\ p \in Targets(task[t]) /\ Up(p) \in Path /\ IsFolder(Up(p)) BY <1>1, NextFile
<1>3. IsTree(disk) BY DiskIsTree DEF Sound, Stores
<1>4. ~Stored(p) /\ ~Stored(Up(p)) BY <1>2, <1>3, TreeItems, Distinct DEF Stored
<1>5. Steady /\ Losing(t) BY <1>4 DEF Steady, Losing
<1>6. Writing(t) BY <1>2, Covering DEF Writing, Comparable
<1>7. Written(t, c) BY <1>2, Covering DEF Written
<1> QED BY <1>5, <1>6, <1>7

\* The request goes on to the file after that.
LEMMA NextGoesOn ==
  ASSUME Sound, NEW t \in Client, task[t].op \in {"upload", "extract"}, task[t].i < Len(task[t].files),
         NEW p, p = task[t].files[task[t].i + 1], Uncontested => disk[p] = Nothing,
         disk'[p] = <<task[t].n, task[t].i + 1>>,
         \A r \in Path : r # p /\ r # Up(p) => disk'[r] = disk[r],
         Moving(t), Onward(t), task'[t].i = task[t].i + 1, task'[t].step \in {"guard", "unzip"},
         IsTree(disk'), Unmoved, UNCHANGED <<trash, edited, kept>>
  PROVE  Effect(t)
<1> DEFINE a == task[t]
           own == <<a.n, a.i + 1>>
<1>1. a \in TaskRecord /\ Shape(a) BY DEF Sound, Tasks
<1>2. /\ a.i \in Nat /\ p \in File /\ p \in Path /\ own \in Content /\ IsFolder(Up(p))
      /\ Undoable(a) = {a.files[k] : k \in 1 .. a.i}
  BY <1>1, NextFile
<1>3. own[1] = a.n OBVIOUS
<1> HIDE DEF own
<1>4. Uncontested => Writing(t) /\ Steady /\ Losing(t) /\ Written(t, own) BY NextWritten DEF own
<1>5. task'[t].files = a.files /\ task'[t].n = a.n /\ task'[t].op = a.op BY DEF Onward
<1>6. Undoable(task'[t]) = {a.files[k] : k \in 1 .. a.i + 1} BY <1>5 DEF Undoable
<1>7. \A k \in 1 .. a.i + 1 : k \in 1 .. a.i \/ k = a.i + 1 BY <1>2
<1>8. \A r \in Undoable(task'[t]) : r \in Undoable(a) \/ r = p BY <1>2, <1>6, <1>7
<1>9. Uncontested => Growing(t) BY <1>8, Distinct DEF Growing, Stored
<1>10. Uncontested => Keeping(t)
  <2>1. ASSUME Uncontested, NEW k \in 1 .. task'[t].i PROVE k <= a.i \/ Written(t, <<a.n, k>>)
    <3>1. k <= a.i \/ k = a.i + 1 BY <1>2
    <3> QED BY <1>4, <2>1, <3>1 DEF own
  <2> QED BY <1>4, <2>1 DEF Keeping
<1>11. Vacant(t)' BY DEF Vacant
<1>12. Uncontested => OwnPlaces(t)'
  <2>1. ASSUME Uncontested, a.op = "upload", NEW r \in Undoable(task'[t]), disk'[r] # Nothing
        PROVE  disk'[r] \in Content /\ disk'[r][1] = a.n
    <3>1. CASE r = p BY <1>2, <1>3, <3>1 DEF own
    <3>2. CASE r # p
      <4>1. r \in Undoable(a) /\ r \in Path BY <1>1, <1>8, <2>1, <3>2, UndoableTargets
      <4>2. r \in File BY <1>1, <1>2, <4>1, FilesListed
      <4>3. r # Up(p) BY <1>2, <4>2, FilesArePaths
      <4>4. disk'[r] = disk[r] BY <3>2, <4>1, <4>3
      <4> QED BY <2>1, <4>1, <4>4 DEF Uncontested, OwnPlaces
    <3> QED BY <3>1, <3>2
  <2> QED BY <1>5, <2>1 DEF OwnPlaces
<1> QED BY <1>4, <1>9, <1>10, <1>11, <1>12, OngoingEffect

\* An acknowledged request ends with its files.
LEMMA AcknowledgedEffect ==
  ASSUME Sound, NEW t \in Client, Moving(t), Ended(t), IsTree(disk'), Unmoved,
         UNCHANGED <<trash, edited>>, Acknowledge(t), Uncontested => Writing(t) /\ Losing(t) /\ Steady,
         \A k \in DOMAIN task[t].files :
           k \in 1 .. task[t].i \/ (Uncontested => Written(t, <<task[t].n, k>>))
  PROVE  Effect(t)
<1>0. task[t].n \in 0 .. MaxRequests /\ task[t].files \in Seq(File) BY Fields DEF Sound, Tasks
<1>1. kept' = kept \cup {<<task[t].n, k>> : k \in DOMAIN task[t].files} BY DEF Acknowledge
<1>2. \A k \in DOMAIN task[t].files : k \in Nat BY <1>0
<1>3. \A k \in DOMAIN task[t].files : <<task[t].n, k>> \in Content BY <1>0, <1>2 DEF Content
<1>4. kept \subseteq kept' /\ kept' \subseteq Content BY <1>1, <1>3 DEF Sound, Stores
<1>5. ASSUME NEW c \in kept' \ kept
      PROVE  /\ c[1] = task[t].n
             /\ Uncontested => Written(t, c) \/ (Steady /\ \E k \in 1 .. task[t].i : c = <<task[t].n, k>>)
  <2>1. PICK k \in DOMAIN task[t].files : c = <<task[t].n, k>> BY <1>1
  <2> QED BY <2>1
<1>6. up' = up /\ requests' = requests /\ contested' = contested BY DEF Unmoved
<1>7. disk' \in [Path -> Item] /\ Tree' BY DiskIsTreeAfter
<1>8. Stores' BY <1>4, <1>6, <1>7 DEF Sound, Stores
<1>9. Growing(t) /\ Vacant(t)' /\ OwnPlaces(t)' BY AfterTheEnd DEF Sound
<1>10. Uncontested => Keeping(t) BY <1>5, AfterTheEnd DEF Sound, Keeping
<1> QED BY <1>4, <1>5, <1>6, <1>7, <1>8, <1>9, <1>10 DEF Effect

\* The temporary file becomes the file, in the folder that it lies in.
LEMMA ReplaceEffect ==
  ASSUME Sound, NEW t \in Client, Replace(t)
  PROVE  Active(t) /\ Effect(t)
<1> DEFINE a == task[t]
           p == a.files[a.i + 1]
           own == <<a.n, a.i + 1>>
<1>1. a.step = "replace" /\ a \in TaskRecord /\ Shape(a) /\ Active(t)
  BY Acting DEF Replace, At, Sound
<1>2. a.op = "upload" BY <1>1, StepTells
<1>3. a.i < Len(a.files) /\ a.i \in Nat /\ a.files \in Seq(File) BY <1>1, <1>2, Fields DEF Shape
<1>4. p \in File /\ p \in Path /\ Up(p) \in Path /\ p[1] \in Dir /\ own \in Content
  BY <1>1, <1>2, <1>3, NextFile, Parts
<1>5. Unmoved /\ UNCHANGED <<trash, edited>> BY DEF Replace, Unmoved, counters
<1>6. CASE a.temp # p[1]
  <2>1. disk' = Undone(t) /\ task' = End(t) /\ kept' = kept BY <1>6 DEF Replace
  <2> QED BY <1>1, <1>5, <2>1, Ending, UndoingEffect DEF Sound
<1>7. CASE a.temp = p[1]
  <2>1. disk' = [disk EXCEPT ![p] = own] BY <1>7 DEF Replace
  <2>2. disk[Up(p)] = Folder BY <1>4, <1>7, Distinct DEF Sound, Temps, Up
  <2>3. IsTree(disk) BY DiskIsTree DEF Sound, Stores
  <2>4. IsTree(disk') BY <1>4, <2>1, <2>2, <2>3, FileWritten
  <2>5. disk'[p] = own /\ \A r \in Path : r # p /\ r # Up(p) => disk'[r] = disk[r]
    BY <1>4, <2>1 DEF Sound, Stores
  <2>6. Uncontested => disk[p] = Nothing BY <1>1 DEF Uncontested, Vacant
  <2>7. CASE a.i + 1 = Len(a.files)
    <3>1. task' = End(t) /\ Acknowledge(t) BY <1>7, <2>7 DEF Replace
    <3>2. Moving(t) /\ Ended(t) BY <3>1, Ending DEF Sound
    <3>3. Uncontested => Writing(t) /\ Losing(t) /\ Steady /\ Written(t, own)
      BY <1>2, <1>3, <2>5, <2>6, NextWritten, SMTT(30)
    <3>4. \A k \in DOMAIN a.files : k \in 1 .. a.i \/ k = a.i + 1 BY <1>3, <2>7
    <3> QED BY <1>1, <1>5, <2>4, <3>1, <3>2, <3>3, <3>4, AcknowledgedEffect
  <2>8. CASE a.i + 1 # Len(a.files)
    <3> DEFINE b == [a EXCEPT !.step = "guard", !.i = @ + 1, !.temp = Nothing]
    <3>1. /\ task' = [task EXCEPT ![t].step = "guard", ![t].i = @ + 1, ![t].temp = Nothing]
          /\ kept' = kept
      BY <1>7, <2>8 DEF Replace
    <3>2. "guard" \in Steps /\ "guard" \in StepsOf("upload") BY DEF Steps, StepsOf
    <3>11. a.i + 1 \in Nat BY <1>3
    <3>3. b \in TaskRecord BY <1>1, <3>2, <3>11 DEF TaskRecord
    <3>4. /\ b.op = a.op /\ b.from = a.from /\ b.to = a.to /\ b.files = a.files
          /\ b.n = a.n /\ b.late = a.late /\ b.i = a.i + 1 /\ b.step = "guard"
      BY <1>1 DEF TaskRecord
    <3>5. task' = [task EXCEPT ![t] = b] BY <3>1
    <3> HIDE DEF b
    <3>6. b.i < Len(b.files) /\ b.i <= Len(b.files) BY <1>3, <2>8, <3>4
    <3>12. a.to = Nothing BY <1>1, <1>2 DEF Shape
    <3>7. Shape(b) BY <1>2, <3>2, <3>4, <3>6, <3>12 DEF Shape
    <3>8. Moving(t) /\ Onward(t) /\ task'[t] = b BY <3>3, <3>4, <3>5, <3>7, Updating DEF Sound
    <3>9. task'[t].i = a.i + 1 /\ task'[t].step \in {"guard", "unzip"} BY <3>4, <3>8
    <3>10. UNCHANGED <<trash, edited, kept>> BY <1>5, <3>1
    <3> QED BY <1>1, <1>2, <1>3, <1>5, <2>4, <2>5, <2>6, <3>8, <3>9, <3>10, NextGoesOn
  <2> QED BY <2>7, <2>8
<1> QED BY <1>6, <1>7

\* The rollback of an extraction removes its files, and its folder if that is empty.
LEMMA RollingBack ==
  ASSUME Sound, NEW t \in Client, task[t].op = "extract"
  PROVE  /\ IsTree(RolledBack(t)) /\ IsTree(Undone(t))
         /\ \A r \in Path : \/ RolledBack(t)[r] = disk[r]
                            \/ RolledBack(t)[r] = Nothing /\ (r \in Undoable(task[t]) \/ ~Stored(r))
<1> DEFINE a == task[t]
           f == a.to
<1>1. a \in TaskRecord /\ Shape(a) BY DEF Sound, Tasks
<1>2. f \in Path /\ IsFolder(f) BY <1>1 DEF Shape
<1>3. a.step \notin {"copy", "fill"} BY <1>1, StepTells
<1>4. Done(t) \subseteq File /\ Done(t) = Undoable(a) /\
      Undone(t) = [r \in Path |-> IF r \in Done(t) THEN Nothing ELSE disk[r]]
  BY <1>1, <1>3, DoneFiles
<1>5. IsTree(disk) BY DiskIsTree DEF Sound, Stores
<1>6. IsTree(Undone(t)) BY <1>4, <1>5, FilesRemoved
<1>7. ~Stored(f) BY <1>2, <1>5, TreeItems, Distinct DEF Stored
<1>8. \A r \in Path : Undone(t)[r] = disk[r] \/ (Undone(t)[r] = Nothing /\ r \in Undoable(a)) BY <1>4
<1> HIDE DEF f
<1>9. CASE a.mine /\ Empty(Undone(t), f[1])
  <2>1. RolledBack(t) = [Undone(t) EXCEPT ![f] = Nothing] BY <1>9 DEF RolledBack, f
  <2>2. \A x \in Name : Undone(t)[<<f[1], x>>] = Nothing BY <1>9 DEF Empty
  <2>3. IsTree(RolledBack(t)) BY <1>2, <1>6, <2>1, <2>2, FolderRemoved
  <2>4. \A r \in Path : RolledBack(t)[r] = IF r = f THEN Nothing ELSE Undone(t)[r]
    BY <1>6, <2>1 DEF IsTree
  <2> QED BY <1>6, <1>7, <1>8, <2>3, <2>4
<1>10. CASE ~(a.mine /\ Empty(Undone(t), f[1]))
  <2>1. RolledBack(t) = Undone(t) BY <1>10 DEF RolledBack, f
  <2> QED BY <1>6, <1>8, <2>1
<1> QED BY <1>9, <1>10

\* An entry is extracted, or the request ends.
LEMMA UnzipEffect ==
  ASSUME Sound, NEW t \in Client, Unzip(t)
  PROVE  Active(t) /\ Effect(t)
<1> DEFINE a == task[t]
           p == a.files[a.i + 1]
           own == <<a.n, a.i + 1>>
<1>1. a.step = "unzip" /\ a \in TaskRecord /\ Shape(a) /\ Active(t)
  BY Acting DEF Unzip, At, Sound
<1>2. a.op = "extract" BY <1>1, StepTells
<1>3. a.i <= Len(a.files) /\ a.i \in Nat /\ a.files \in Seq(File) BY <1>1, Fields DEF Shape
<1>4. a.to \in Path /\ IsFolder(a.to) BY <1>1, <1>2 DEF Shape
<1>5. Unmoved /\ UNCHANGED <<trash, edited>> BY DEF Unzip, Unmoved, counters
<1>6. IsTree(disk) BY DiskIsTree DEF Sound, Stores
<1>7. CASE a.i = Len(a.files) /\ Acknowledge(t) /\ task' = End(t) /\ UNCHANGED disk
  <2>1. Moving(t) /\ Ended(t) BY <1>7, Ending DEF Sound
  <2>2. Writing(t) /\ Losing(t) /\ Steady BY <1>7 DEF Writing, Losing, Steady
  <2>3. \A k \in DOMAIN a.files : k \in 1 .. a.i BY <1>3, <1>7
  <2>4. IsTree(disk') BY <1>6, <1>7
  <2> QED BY <1>1, <1>5, <1>7, <2>1, <2>2, <2>3, <2>4, AcknowledgedEffect
<1>8. CASE /\ a.i < Len(a.files) /\ disk[p] = Nothing
           /\ disk' = [disk EXCEPT ![a.to] = Folder, ![p] = own]
           /\ task' = [task EXCEPT ![t].i = @ + 1, ![t].mine = @ \/ disk[a.to] = Nothing]
           /\ UNCHANGED kept
  <2> DEFINE mine == a.mine \/ disk[a.to] = Nothing
             b == [a EXCEPT !.i = @ + 1, !.mine = mine]
  <2>1. p \in File /\ p \in Path /\ own \in Content /\ a.i + 1 \in DOMAIN a.files /\ a.i + 1 <= Len(a.files)
    BY <1>1, <1>2, <1>8, NextFile
  <2>2. p[1] = a.to[1] BY <1>1, <1>2, <2>1 DEF Shape
  <2>3. Up(p) = a.to BY <1>4, <2>2, Parts DEF Up, IsFolder
  <2> HIDE DEF p, own
  <2>4. IsTree([disk EXCEPT ![a.to] = Folder]) BY <1>4, <1>6, FolderMade
  <2>5. [disk EXCEPT ![a.to] = Folder][Up(p)] = Folder BY <1>4, <2>3 DEF Sound, Stores
  <2>6. disk' = [[disk EXCEPT ![a.to] = Folder] EXCEPT ![p] = own] BY <1>8
  <2>7. IsTree(disk') BY <2>1, <2>4, <2>5, <2>6, FileWritten
  <2>8. disk'[p] = own /\ \A r \in Path : r # p /\ r # Up(p) => disk'[r] = disk[r]
    BY <1>4, <2>1, <2>3, <2>6 DEF Sound, Stores
  <2>9. mine \in BOOLEAN OBVIOUS
  <2>10. task' = [task EXCEPT ![t].i = @ + 1, ![t].mine = mine] BY <1>8
  <2> HIDE DEF mine
  <2>19. a.i + 1 \in Nat BY <1>3
  <2>11. b \in TaskRecord BY <1>1, <2>9, <2>19 DEF TaskRecord
  <2>12. /\ b.op = a.op /\ b.from = a.from /\ b.to = a.to /\ b.files = a.files
         /\ b.n = a.n /\ b.late = a.late /\ b.i = a.i + 1 /\ b.step = a.step
    BY <1>1 DEF TaskRecord
  <2>13. task' = [task EXCEPT ![t] = b] BY <2>10
  <2> HIDE DEF b
  <2>14. Shape(b) BY <1>1, <1>2, <2>1, <2>12 DEF Shape
  <2>15. Moving(t) /\ Onward(t) /\ task'[t] = b BY <2>11, <2>12, <2>13, <2>14, Updating DEF Sound
  <2>16. task'[t].i = a.i + 1 /\ task'[t].step \in {"guard", "unzip"} BY <1>1, <2>12, <2>15
  <2>17. UNCHANGED <<trash, edited, kept>> BY <1>5, <1>8
  <2>18. p = a.files[a.i + 1] /\ disk[p] = Nothing /\ disk'[p] = <<a.n, a.i + 1>>
         /\ a.i < Len(a.files)
    BY <1>8, <2>8 DEF p, own
  <2> QED BY <1>1, <1>2, <1>5, <2>7, <2>8, <2>15, <2>16, <2>17, <2>18, NextGoesOn
<1>9. CASE /\ a.i < Len(a.files) /\ disk[p] # Nothing
           /\ disk' = RolledBack(t) /\ task' = End(t) /\ UNCHANGED kept
  <2>1. Moving(t) /\ Ended(t) BY <1>9, Ending DEF Sound
  <2>2. IsTree(disk') BY <1>2, <1>9, RollingBack
  <2>3. \A r \in Path : \/ disk'[r] = disk[r]
                        \/ disk'[r] = Nothing /\ (r \in Undoable(a) \/ ~Stored(r))
    BY <1>2, <1>9, RollingBack
  <2>4. Writing(t) /\ Losing(t) BY <2>3 DEF Writing, Losing
  <2> QED BY <1>1, <1>5, <1>9, <2>1, <2>2, <2>4, EndingEffect DEF Sound, Stores
<1> QED BY <1>7, <1>8, <1>9 DEF Unzip

\* The disk fails in the middle of an entry of an archive.
LEMMA EntryFailsEffect ==
  ASSUME Sound, NEW t \in Client, task[t].step = "unzip", task[t].i < Len(task[t].files),
         NEW p, p = task[t].files[task[t].i + 1], disk[p] = Nothing,
         disk' = [Undone(t) EXCEPT ![task[t].to] = Folder, ![p] = <<task[t].n, 0>>],
         task' = End(t), Unmoved, UNCHANGED <<trash, edited, kept>>
  PROVE  Effect(t)
<1> DEFINE a == task[t]
           f == a.to
           part == <<a.n, 0>>
<1>1. a \in TaskRecord /\ Shape(a) BY DEF Sound, Tasks
<1>2. a.op = "extract" BY <1>1, StepTells
<1>3. f \in Path /\ IsFolder(f) BY <1>1, <1>2 DEF Shape
<1>4. p \in File /\ p \in Path /\ p \in Targets(a) /\ a.i + 1 \in DOMAIN a.files BY <1>1, <1>2, NextFile
<1>5. p[1] = f[1] BY <1>1, <1>2, <1>4 DEF Shape
<1>6. Up(p) = f BY <1>3, <1>5, Parts DEF Up, IsFolder
<1>7. part \in Content BY <1>1, Fields DEF Content
<1>8. IsTree(disk) BY DiskIsTree DEF Sound, Stores
<1>9. Done(t) \subseteq File /\ Done(t) = Undoable(a) /\
      Undone(t) = [r \in Path |-> IF r \in Done(t) THEN Nothing ELSE disk[r]]
  BY <1>1, DoneFiles
<1>10. IsTree(Undone(t))
  <2>1. IsTree([r \in Path |-> IF r \in Done(t) THEN Nothing ELSE disk[r]]) BY <1>8, <1>9, FilesRemoved
  <2> QED BY <1>9, <2>1
<1>11. disk' = [[Undone(t) EXCEPT ![f] = Folder] EXCEPT ![p] = part] OBVIOUS
<1> HIDE DEF f, part
<1> DEFINE made == [Undone(t) EXCEPT ![f] = Folder]
<1>12. IsTree(made) BY <1>3, <1>10, FolderMade
<1>13. Undone(t) \in [Path -> Item] BY <1>10 DEF IsTree
<1>14. made[f] = Folder /\ \A r \in Path : r # f => made[r] = Undone(t)[r] BY <1>3, <1>13
<1>15. disk' = [made EXCEPT ![p] = part] /\ made \in [Path -> Item] BY <1>11, <1>12 DEF IsTree
<1> HIDE DEF made
<1>16. IsTree(disk')
  <2>1. made[Up(p)] = Folder BY <1>6, <1>14
  <2>2. IsTree([made EXCEPT ![p] = part]) BY <1>4, <1>7, <1>12, <2>1, FileWritten
  <2> QED BY <1>15, <2>2
<1>17. \A r \in Path : r # p => disk'[r] = made[r] BY <1>15
<1>18. \A r \in Path : r # p /\ r # f => disk'[r] = disk[r] \/ (disk'[r] = Nothing /\ r \in Undoable(a))
  BY <1>9, <1>14, <1>17
<1>19. Writing(t)
  <2>1. \A r \in Path : disk'[r] # disk[r] /\ disk'[r] # Nothing => r = p \/ r = f BY <1>18
  <2>2. Comparable(p, p) /\ Comparable(p, f) BY <1>3, <1>4, <1>6, Covering DEF Comparable
  <2> QED BY <1>4, <2>1, <2>2 DEF Writing
<1>20. ~Stored(p) /\ ~Stored(f) BY <1>3, <1>8, TreeItems, Distinct DEF Stored
<1>21. Losing(t) BY <1>18, <1>20 DEF Losing
<1>22. Moving(t) /\ Ended(t) BY Ending DEF Sound
<1> QED BY <1>16, <1>19, <1>21, <1>22, EndingEffect DEF Sound, Stores

\* A failure of the disk ends the request that meets it, or is collected by a copy.
LEMMA DiskFailsEffect ==
  ASSUME Sound, NEW t \in Client, DiskFails(t)
  PROVE  Active(t) /\ Effect(t)
<1> DEFINE a == task[t]
           p == a.files[a.i + 1]
<1>1. a \in TaskRecord /\ Shape(a) /\ (a.step # "done" => Active(t)) BY Acting DEF Sound
<1>2. Unmoved /\ UNCHANGED <<trash, edited, kept>> BY DEF DiskFails, Unmoved, history
<1>3. CASE a.step = "replace" /\ disk' = Undone(t) /\ task' = End(t)
  BY <1>1, <1>2, <1>3, Ending, UndoingEffect DEF Sound
<1>4. CASE a.step = "write" /\ UNCHANGED disk /\ task' = End(t)
  BY <1>1, <1>2, <1>4, Ending, LookingEffect DEF Sound, Looking, Unmoved
<1>5. CASE a.step = "copy" /\ CopyFails(t) BY <1>1, <1>2, <1>5, CopyFailsEffect
<1>6. CASE /\ a.step = "fill"
           /\ \E x \in a.rest :
                /\ disk[a.to] = Folder
                /\ disk' = [disk EXCEPT ![<<a.to[1], x>>] = <<a.n, 0>>]
                /\ task' = [task EXCEPT ![t].rest = @ \ {x}, ![t].failed = TRUE]
  <2>1. PICK x \in a.rest :
                /\ disk[a.to] = Folder
                /\ disk' = [disk EXCEPT ![<<a.to[1], x>>] = <<a.n, 0>>]
                /\ task' = [task EXCEPT ![t].rest = @ \ {x}, ![t].failed = TRUE]
    BY <1>6
  <2>2. x \in Name /\ <<a.n, 0>> \in Content BY <1>1, Fields DEF Content
  <2>3. TRUE \in BOOLEAN OBVIOUS
  <2>4. Effect(t) BY <1>2, <1>6, <2>1, <2>2, <2>3, FilledEffect
  <2> QED BY <1>1, <1>6, <2>4
<1>7. CASE /\ a.step = "unzip" /\ a.i < Len(a.files) /\ disk[p] = Nothing
           /\ disk' = [Undone(t) EXCEPT ![a.to] = Folder, ![p] = <<a.n, 0>>]
           /\ task' = End(t)
  BY <1>1, <1>2, <1>7, EntryFailsEffect
<1> QED BY <1>3, <1>4, <1>5, <1>6, <1>7 DEF DiskFails, At
-----------------------------------------------------------------------------
(* Temporary files *)

FoldersStay == \A p \in Path : IsFolder(p) /\ disk[p] = Folder => disk'[p] = Folder
NoNewTemps == \A u \in Client : task'[u].temp \in {task[u].temp, Nothing}

\* A folder and the name Here are a path.
LEMMA FolderPaths ==
  /\ \A d \in Dir : <<d, Here>> \in Path /\ IsFolder(<<d, Here>>)
  /\ \A p \in Path : IsFolder(p) <=> p = <<p[1], Here>>
  /\ \A p \in Path : \A d \in Dir : Covers(p, <<d, Here>>) <=> p = <<d, Here>>
BY DEF Path, IsFolder, Covers

\* Where folders stay and no temporary file is made, each has its folder.
LEMMA TempsStay ==
  ASSUME Sound, FoldersStay, NoNewTemps
  PROVE  Temps'
<1>1. \A u \in Client : task[u].temp \in Dir \cup {Nothing} BY Fields DEF Sound, Tasks
<1> QED BY <1>1, FolderPaths DEF Sound, Temps, FoldersStay, NoNewTemps

\* An end or another step makes no temporary file.
LEMMA NoTemps ==
  ASSUME Sound, NEW t \in Client
  PROVE  /\ task' = End(t) => NoNewTemps
         /\ \A step : task' = Goto(t, step) => NoNewTemps
<1>1. task \in [Client -> TaskRecord] BY DEF Sound, Tasks
<1>2. ASSUME task' = End(t) PROVE NoNewTemps
  <2>1. NoTask.temp = Nothing BY DEF NoTask
  <2> QED BY <1>1, <1>2, <2>1 DEF End, NoNewTemps
<1>3. ASSUME NEW step, task' = Goto(t, step) PROVE NoNewTemps
  <2> DEFINE b == [task[t] EXCEPT !.step = step]
  <2>1. b.temp \in {task[t].temp, Nothing} BY <1>1 DEF TaskRecord
  <2>2. task' = [task EXCEPT ![t] = b] BY <1>3 DEF Goto
  <2> HIDE DEF b
  <2> QED BY <1>1, <2>1, <2>2 DEF NoNewTemps
<1> QED BY <1>2, <1>3

\* A file is written, or a folder is made.
LEMMA WritingKeepsFolders ==
  ASSUME Sound, NEW p \in Path, NEW c,
         disk' = [disk EXCEPT ![p] = c], ~IsFolder(p) \/ c = Folder \/ disk[p] = Nothing
  PROVE  FoldersStay
<1>1. disk \in [Path -> Item] BY DEF Sound, Stores
<1> QED BY <1>1, Distinct DEF FoldersStay

\* The rollback of an upload or an extraction unlinks files only.
LEMMA UndoingKeepsFolders ==
  ASSUME Sound, NEW t \in Client
  PROVE  \A p \in Path : IsFolder(p) => Undone(t)[p] = disk[p]
<1>1. task[t] \in TaskRecord /\ Shape(task[t]) BY DEF Sound, Tasks
<1>2. Done(t) \subseteq File BY <1>1, FilesListed DEF Done
<1> QED BY <1>2, FilesArePaths DEF Undone

\* Temporary files go with the folder that is removed.
LEMMA RemovingKeepsTemps ==
  ASSUME Sound, NEW t \in Client, NEW p \in Path,
         disk' = Removed(p), task' = Carried(p, Nothing, End(t))
  PROVE  Temps'
<1> DEFINE next == End(t)
<1>1. task \in [Client -> TaskRecord] BY DEF Sound, Tasks
<1>2. next \in [Client -> TaskRecord] /\ \A u \in Client : next[u].temp \in {task[u].temp, Nothing}
  <2>1. next = [task EXCEPT ![t] = NoTask] /\ NoTask.temp = Nothing BY DEF End, NoTask
  <2> QED BY <1>1, <2>1, Idling
<1>3. task' = [u \in Client |-> IF p = <<next[u].temp, Here>> THEN [next[u] EXCEPT !.temp = Nothing] ELSE next[u]]
  BY DEF Carried
<1> HIDE DEF next
<1>4. ASSUME NEW u \in Client, task'[u].temp # Nothing PROVE disk'[<<task'[u].temp, Here>>] = Folder
  <2>1. [next[u] EXCEPT !.temp = Nothing].temp = Nothing BY <1>2 DEF TaskRecord
  <2>2. p # <<next[u].temp, Here>> /\ task'[u] = next[u] BY <1>3, <1>4, <2>1
  <2>3. task'[u].temp = task[u].temp BY <1>2, <1>4, <2>2
  <2>4. task[u].temp \in Dir BY <1>1, <1>4, <2>3, Fields
  <2>5. disk[<<task[u].temp, Here>>] = Folder BY <1>4, <2>3 DEF Sound, Temps
  <2>6. ~Covers(p, <<task[u].temp, Here>>) BY <2>2, <2>3, <2>4, FolderPaths
  <2> QED BY <2>3, <2>4, <2>5, <2>6, FolderPaths DEF Removed
<1> QED BY <1>4 DEF Temps

\* They move with the folder that is renamed.
LEMMA RenamingKeepsTemps ==
  ASSUME Sound, NEW t \in Client, NEW p \in Path, NEW q \in Path, p # q,
         IsFolder(p) <=> IsFolder(q), Replaceable(p, q),
         disk' = Renamed(p, q), task' = Carried(p, q[1], End(t))
  PROVE  Temps'
<1> DEFINE next == End(t)
<1>1. task \in [Client -> TaskRecord] BY DEF Sound, Tasks
<1>2. /\ next \in [Client -> TaskRecord]
      /\ \A u \in Client : next[u].temp \in {task[u].temp, Nothing}
  <2>1. next = [task EXCEPT ![t] = NoTask] /\ NoTask.temp = Nothing BY DEF End, NoTask
  <2> QED BY <1>1, <2>1, Idling
<1>3. task' = [u \in Client |-> IF p = <<next[u].temp, Here>> THEN [next[u] EXCEPT !.temp = q[1]] ELSE next[u]]
  BY DEF Carried
<1> HIDE DEF next
<1>4. \A r \in Path : disk'[r] = IF Covers(p, r) THEN Nothing
                                 ELSE IF Covers(q, r) THEN disk[IF IsFolder(p) THEN <<p[1], r[2]>> ELSE p]
                                 ELSE disk[r]
  BY DEF Renamed
<1>5. IsTree(disk) BY DiskIsTree DEF Sound, Stores
<1>6. IsFolder(p) => disk[p] = Folder /\ Empty(disk, q[1]) BY <1>5, TreeItems DEF Replaceable
<1>7. ASSUME NEW u \in Client, task'[u].temp # Nothing PROVE disk'[<<task'[u].temp, Here>>] = Folder
  <2>1. CASE p = <<next[u].temp, Here>>
    <3>1. task'[u].temp = q[1] BY <1>2, <1>3, <2>1 DEF TaskRecord
    <3>2. IsFolder(p) /\ q = <<q[1], Here>> /\ p = <<p[1], Here>> BY <2>1, FolderPaths DEF IsFolder
    <3>3. ~Covers(p, q) /\ Covers(q, q) BY <3>2, Covering, Parts, FolderPaths
    <3>4. disk'[q] = disk[<<p[1], q[2]>>] BY <1>4, <3>2, <3>3
    <3>5. q[2] = Here BY <3>2
    <3> QED BY <1>6, <3>1, <3>2, <3>4, <3>5
  <2>2. CASE p # <<next[u].temp, Here>>
    <3>1. task'[u].temp = task[u].temp BY <1>2, <1>3, <1>7, <2>2
    <3>2. task[u].temp \in Dir BY <1>1, <1>7, <3>1, Fields
    <3>3. disk[<<task[u].temp, Here>>] = Folder BY <1>7, <3>1 DEF Sound, Temps
    <3>4. next[u].temp = task[u].temp BY <1>3, <2>2, <3>1
    <3>5. ~Covers(p, <<task[u].temp, Here>>) BY <2>2, <3>2, <3>4, FolderPaths
    <3>6. ~Covers(q, <<task[u].temp, Here>>)
      <4>1. ASSUME q = <<task[u].temp, Here>> PROVE FALSE
        <5>1. q[1] = task[u].temp /\ IsFolder(q) BY <4>1 DEF IsFolder
        <5> QED BY <1>6, <5>1 DEF Empty
      <4> QED BY <3>2, <4>1, FolderPaths
    <3> QED BY <1>4, <3>1, <3>2, <3>3, <3>5, <3>6, FolderPaths
  <2> QED BY <2>1, <2>2
<1> QED BY <1>7 DEF Temps

\* The folder of a temporary file is not empty, so that no extraction removes it.
LEMMA RollingBackKeepsTemps ==
  ASSUME Sound, NEW t \in Client, disk' = RolledBack(t), task' = End(t), task[t].op = "extract"
  PROVE  Temps'
<1> DEFINE f == task[t].to
<1>1. task \in [Client -> TaskRecord] /\ Shape(task[t]) BY DEF Sound, Tasks
<1>2. f \in Path /\ IsFolder(f) BY <1>1 DEF Shape
<1>3. NoNewTemps BY NoTemps
<1>4. Undone(t) \in [Path -> Item \cup {Nothing}] BY DEF Undone, Sound, Stores
<1> HIDE DEF f
<1>5. ASSUME NEW u \in Client, task'[u].temp # Nothing PROVE disk'[<<task'[u].temp, Here>>] = Folder
  <2>1. task'[u].temp = task[u].temp BY <1>3, <1>5 DEF NoNewTemps
  <2>2. task[u].temp \in Dir BY <1>1, <1>5, <2>1, Fields
  <2> DEFINE g == <<task[u].temp, Here>>
  <2>3. g \in Path /\ IsFolder(g) BY <2>2, FolderPaths
  <2>4. disk[g] = Folder BY <1>5, <2>1 DEF Sound, Temps
  <2>5. Undone(t)[g] = Folder BY <2>3, <2>4, UndoingKeepsFolders
  <2>6. g = f => ~Empty(Undone(t), f[1]) BY DEF Empty
  <2>7. disk'[g] = Folder BY <1>2, <1>4, <2>3, <2>5, <2>6 DEF RolledBack, f
  <2> QED BY <2>1, <2>7
<1> QED BY <1>5 DEF Temps

\* So it is with the steps that leave the directory as it is.
LEMMA LookingKeepsTemps ==
  ASSUME Sound, NEW t \in Client, disk' = disk, task' = End(t) \/ \E step : task' = Goto(t, step)
  PROVE  Temps'
<1>1. FoldersStay BY DEF FoldersStay
<1>2. NoNewTemps BY NoTemps
<1> QED BY <1>1, <1>2, TempsStay

\* A copy makes its destination, or removes it.
LEMMA CopyKeepsTemps ==
  ASSUME Sound, NEW t \in Client, Copy(t)
  PROVE  Temps'
<1> DEFINE p == task[t].from
           q == task[t].to
<1>1. task[t].step = "copy" /\ task[t] \in TaskRecord /\ Shape(task[t]) BY Acting DEF Copy, At, Sound
<1>2. q \in Path BY <1>1, Copying
<1>3. CASE Stored(p) /\ There(q) /\ disk' = [disk EXCEPT ![q] = disk[p]] /\ task' = End(t)
  <2>1. NoNewTemps BY <1>3, NoTemps
  <2>2. ~IsFolder(q) BY <1>1, <1>3, Copying DEF Sound, Tree, Placed
  <2>3. FoldersStay BY <1>2, <1>3, <2>2, WritingKeepsFolders
  <2> QED BY <2>1, <2>3, TempsStay
<1>4. CASE /\ disk[p] = Folder /\ disk[q] = Nothing
           /\ disk' = [disk EXCEPT ![q] = Folder]
           /\ task' = [task EXCEPT ![t].step = "fill",
                                   ![t].rest = {x \in Name : Stored(<<p[1], x>>)}]
  <2> DEFINE b == [task[t] EXCEPT !.step = "fill", !.rest = {x \in Name : Stored(<<p[1], x>>)}]
  <2>1. b.temp \in {task[t].temp, Nothing} BY <1>1 DEF TaskRecord
  <2>2. task' = [task EXCEPT ![t] = b] BY <1>4
  <2> HIDE DEF b
  <2>3. NoNewTemps BY <2>1, <2>2 DEF NoNewTemps, Sound, Tasks
  <2>4. FoldersStay BY <1>2, <1>4, WritingKeepsFolders
  <2> QED BY <2>3, <2>4, TempsStay
<1>5. CASE CopyFails(t) BY <1>2, <1>5, RemovingKeepsTemps DEF CopyFails
<1> QED BY <1>3, <1>4, <1>5 DEF Copy

\* A file of a copied folder is written, or not.
LEMMA FilledKeepsTemps ==
  ASSUME Sound, NEW t \in Client, task[t].step = "fill", NEW x \in task[t].rest, NEW c, NEW failed,
         disk' = disk \/ disk' = [disk EXCEPT ![<<task[t].to[1], x>>] = c],
         task' = [task EXCEPT ![t].rest = @ \ {x}, ![t].failed = failed]
  PROVE  Temps'
<1>1. task[t] \in TaskRecord /\ Shape(task[t]) BY DEF Sound, Tasks
<1>2. task[t].to \in Path /\ x \in Name BY <1>1, Copying, Fields
<1> DEFINE f == <<task[t].to[1], x>>
           b == [task[t] EXCEPT !.rest = @ \ {x}, !.failed = failed]
<1>3. f \in Path /\ ~IsFolder(f) BY <1>2, NameAssumption DEF Path, IsFolder
<1> HIDE DEF f
<1>5. FoldersStay
  <2>1. CASE disk' = disk BY <2>1 DEF FoldersStay
  <2>2. CASE disk' = [disk EXCEPT ![f] = c] BY <1>3, <2>2, WritingKeepsFolders
  <2> QED BY <2>1, <2>2 DEF f
<1>6. b.temp \in {task[t].temp, Nothing} BY <1>1 DEF TaskRecord
<1>7. task' = [task EXCEPT ![t] = b] OBVIOUS
<1> HIDE DEF b
<1>8. NoNewTemps BY <1>6, <1>7 DEF NoNewTemps, Sound, Tasks
<1> QED BY <1>5, <1>8, TempsStay

\* The rest of a copied folder.
LEMMA FillKeepsTemps ==
  ASSUME Sound, NEW t \in Client, Fill(t)
  PROVE  Temps'
<1>1. task[t].step = "fill" /\ task[t] \in TaskRecord /\ Shape(task[t]) BY Acting DEF Fill, At, Sound
<1>2. CASE task[t].rest = {} /\ ~task[t].failed /\ UNCHANGED disk /\ task' = End(t)
  BY <1>2, LookingKeepsTemps
<1>3. CASE CopyFails(t) BY <1>1, <1>3, Copying, RemovingKeepsTemps DEF CopyFails
<1>4. ASSUME NEW x \in task[t].rest,
             LET source == <<task[t].from[1], x>>
                 copied == Stored(source) /\ disk[task[t].to] = Folder
             IN /\ disk' = IF copied THEN [disk EXCEPT ![<<task[t].to[1], x>>] = disk[source]] ELSE disk
                /\ task' = [task EXCEPT ![t].rest = @ \ {x}, ![t].failed = @ \/ ~copied]
      PROVE  Temps'
  <2> DEFINE source == <<task[t].from[1], x>>
             copied == Stored(source) /\ disk[task[t].to] = Folder
             failed == task[t].failed \/ ~copied
  <2>1. task' = [task EXCEPT ![t].rest = @ \ {x}, ![t].failed = failed] BY <1>4
  <2>2. disk' = disk \/ disk' = [disk EXCEPT ![<<task[t].to[1], x>>] = disk[source]] BY <1>4
  <2> HIDE DEF failed, source
  <2> QED BY <1>1, <2>1, <2>2, FilledKeepsTemps
<1> QED BY <1>2, <1>3, <1>4 DEF Fill

\* An upload makes its temporary file with the folder of it.
LEMMA StoreKeepsTemps ==
  ASSUME Sound, NEW t \in Client, Store(t)
  PROVE  Temps'
<1> DEFINE a == task[t]
           p == a.files[a.i + 1]
<1>1. a.step = "store" /\ a \in TaskRecord /\ Shape(a) BY Acting DEF Store, At, Sound
<1>2. a.op = "upload" BY <1>1, StepTells
<1>3. a.i < Len(a.files) BY <1>1, <1>2 DEF Shape
<1>4. p \in Path /\ Up(p) \in Path /\ IsFolder(Up(p)) /\ Up(p) = <<p[1], Here>> /\ p[1] \in Dir
  BY <1>1, <1>2, <1>3, NextFile, Parts DEF Up
<1>5. CASE disk' = Undone(t) /\ task' = End(t)
  <2>1. FoldersStay BY <1>5, UndoingKeepsFolders DEF FoldersStay
  <2>2. NoNewTemps BY <1>5, NoTemps
  <2> QED BY <2>1, <2>2, TempsStay
<1>6. CASE /\ disk' = [disk EXCEPT ![Up(p)] = Folder]
           /\ task' = [task EXCEPT ![t].step = "replace", ![t].temp = p[1]]
  <2>1. FoldersStay BY <1>4, <1>6, WritingKeepsFolders
  <2>2. disk'[<<p[1], Here>>] = Folder BY <1>4, <1>6 DEF Sound, Stores
  <2> DEFINE b == [a EXCEPT !.step = "replace", !.temp = p[1]]
  <2>3. b.temp = p[1] BY <1>1 DEF TaskRecord
  <2>4. task' = [task EXCEPT ![t] = b] BY <1>6
  <2> HIDE DEF b, p
  <2>5. task \in [Client -> TaskRecord] BY DEF Sound, Tasks
  <2>6. ASSUME NEW u \in Client, task'[u].temp # Nothing PROVE disk'[<<task'[u].temp, Here>>] = Folder
    <3>1. CASE u = t BY <2>2, <2>3, <2>4, <2>5, <3>1
    <3>2. CASE u # t
      <4>1. task'[u] = task[u] BY <2>4, <2>5, <3>2
      <4>2. task[u].temp \in Dir BY <2>5, <2>6, <4>1, Fields
      <4>3. disk[<<task[u].temp, Here>>] = Folder BY <2>6, <4>1 DEF Sound, Temps
      <4> QED BY <2>1, <4>1, <4>2, <4>3, FolderPaths DEF FoldersStay
    <3> QED BY <3>1, <3>2
  <2> QED BY <2>6 DEF Temps
<1> QED BY <1>5, <1>6 DEF Store

\* ... which then becomes the file.
LEMMA ReplaceKeepsTemps ==
  ASSUME Sound, NEW t \in Client, Replace(t)
  PROVE  Temps'
<1> DEFINE a == task[t]
           p == a.files[a.i + 1]
           own == <<a.n, a.i + 1>>
<1>1. a.step = "replace" /\ a \in TaskRecord /\ Shape(a) BY Acting DEF Replace, At, Sound
<1>2. a.op = "upload" BY <1>1, StepTells
<1>3. a.i < Len(a.files) BY <1>1, <1>2 DEF Shape
<1>4. p \in Path /\ ~IsFolder(p) BY <1>1, <1>2, <1>3, NextFile, FilesArePaths
<1>5. CASE disk' = Undone(t) /\ task' = End(t)
  <2>1. FoldersStay BY <1>5, UndoingKeepsFolders DEF FoldersStay
  <2>2. NoNewTemps BY <1>5, NoTemps
  <2> QED BY <2>1, <2>2, TempsStay
<1>6. CASE /\ disk' = [disk EXCEPT ![p] = own]
           /\ \/ task' = End(t)
              \/ task' = [task EXCEPT ![t].step = "guard", ![t].i = @ + 1, ![t].temp = Nothing]
  <2> DEFINE b == [a EXCEPT !.step = "guard", !.i = @ + 1, !.temp = Nothing]
  <2>1. b.temp = Nothing BY <1>1 DEF TaskRecord
  <2>2. task' = End(t) \/ task' = [task EXCEPT ![t] = b] BY <1>6
  <2> HIDE DEF b, own, p
  <2>3. NoNewTemps BY <2>1, <2>2, NoTemps DEF NoNewTemps, Sound, Tasks
  <2>4. FoldersStay BY <1>4, <1>6, WritingKeepsFolders
  <2> QED BY <2>3, <2>4, TempsStay
<1> QED BY <1>5, <1>6 DEF Replace

\* An entry is extracted, or what was extracted is removed.
LEMMA UnzipKeepsTemps ==
  ASSUME Sound, NEW t \in Client, Unzip(t)
  PROVE  Temps'
<1> DEFINE a == task[t]
           p == a.files[a.i + 1]
           f == a.to
<1>1. a.step = "unzip" /\ a \in TaskRecord /\ Shape(a) BY Acting DEF Unzip, At, Sound
<1>2. a.op = "extract" BY <1>1, StepTells
<1>3. f \in Path /\ IsFolder(f) BY <1>1, <1>2 DEF Shape
<1>4. CASE UNCHANGED disk /\ task' = End(t) BY <1>4, LookingKeepsTemps
<1>5. CASE disk' = RolledBack(t) /\ task' = End(t) BY <1>2, <1>5, RollingBackKeepsTemps
<1>6. CASE /\ a.i < Len(a.files)
           /\ disk' = [disk EXCEPT ![f] = Folder, ![p] = <<a.n, a.i + 1>>]
           /\ task' = [task EXCEPT ![t].i = @ + 1, ![t].mine = @ \/ disk[f] = Nothing]
  <2>1. p \in Path /\ ~IsFolder(p) BY <1>1, <1>2, <1>6, NextFile, FilesArePaths
  <2>2. FoldersStay BY <1>3, <1>6, <2>1 DEF FoldersStay, Sound, Stores
  <2> DEFINE b == [a EXCEPT !.i = @ + 1, !.mine = @ \/ disk[f] = Nothing]
  <2>3. b.temp \in {task[t].temp, Nothing} BY <1>1 DEF TaskRecord
  <2>4. task' = [task EXCEPT ![t] = b] BY <1>6
  <2> HIDE DEF b
  <2>5. NoNewTemps BY <2>3, <2>4 DEF NoNewTemps, Sound, Tasks
  <2> QED BY <2>2, <2>5, TempsStay
<1> QED BY <1>4, <1>5, <1>6 DEF Unzip

\* The failures of the disk.
LEMMA DiskFailsKeepsTemps ==
  ASSUME Sound, NEW t \in Client, DiskFails(t)
  PROVE  Temps'
<1> DEFINE a == task[t]
           p == a.files[a.i + 1]
<1>1. a \in TaskRecord /\ Shape(a) BY DEF Sound, Tasks
<1>2. CASE disk' = Undone(t) /\ task' = End(t)
  <2>1. FoldersStay BY <1>2, UndoingKeepsFolders DEF FoldersStay
  <2>2. NoNewTemps BY <1>2, NoTemps
  <2> QED BY <2>1, <2>2, TempsStay
<1>3. CASE UNCHANGED disk /\ task' = End(t) BY <1>3, LookingKeepsTemps
<1>4. CASE a.step = "copy" /\ CopyFails(t) BY <1>1, <1>4, Copying, RemovingKeepsTemps DEF CopyFails
<1>5. CASE /\ a.step = "fill"
           /\ \E x \in a.rest :
                /\ disk' = [disk EXCEPT ![<<a.to[1], x>>] = <<a.n, 0>>]
                /\ task' = [task EXCEPT ![t].rest = @ \ {x}, ![t].failed = TRUE]
  <2>1. PICK x \in a.rest :
                /\ disk' = [disk EXCEPT ![<<a.to[1], x>>] = <<a.n, 0>>]
                /\ task' = [task EXCEPT ![t].rest = @ \ {x}, ![t].failed = TRUE]
    BY <1>5
  <2> QED BY <1>5, <2>1, FilledKeepsTemps
<1>6. CASE /\ a.step = "unzip" /\ a.i < Len(a.files)
           /\ disk' = [Undone(t) EXCEPT ![a.to] = Folder, ![p] = <<a.n, 0>>]
           /\ task' = End(t)
  <2>1. a.op = "extract" BY <1>1, <1>6, StepTells
  <2>2. a.to \in Path BY <1>1, <2>1 DEF Shape
  <2>3. p \in Path /\ ~IsFolder(p) BY <1>1, <1>6, <2>1, NextFile, FilesArePaths
  <2>4. DOMAIN Undone(t) = Path BY DEF Undone
  <2>5. \A r \in Path : IsFolder(r) => disk'[r] = Folder \/ disk'[r] = Undone(t)[r]
    BY <1>6, <2>2, <2>3, <2>4
  <2>6. FoldersStay BY <2>5, UndoingKeepsFolders DEF FoldersStay
  <2>7. NoNewTemps BY <1>6, NoTemps
  <2> QED BY <2>6, <2>7, TempsStay
<1> QED BY <1>2, <1>3, <1>4, <1>5, <1>6 DEF DiskFails, At

\* Every step of a request keeps the folders of temporary files.
LEMMA StepKeepsTemps ==
  ASSUME Sound, NEW t \in Client, Step(t)
  PROVE  Temps'
<1>1. task[t] \in TaskRecord /\ Shape(task[t]) BY DEF Sound, Tasks
<1>2. CASE Guard(t) BY <1>2, LookingKeepsTemps DEF Guard
<1>3. CASE GuardSource(t) BY <1>3, LookingKeepsTemps DEF GuardSource
<1>4. CASE Check(t) BY <1>4, LookingKeepsTemps DEF Check
<1>5. CASE Read(t) BY <1>5, LookingKeepsTemps DEF Read
<1>6. CASE Plan(t) BY <1>6, LookingKeepsTemps DEF Plan
<1>7. CASE Rename(t)
  <2>1. task[t].step = "rename" BY <1>7 DEF Rename, At
  <2>2. task[t].op \in {"move", "toggle"} BY <1>1, <2>1, StepTells
  <2>3. /\ task[t].from \in Path /\ task[t].to \in Path /\ task[t].from # task[t].to
        /\ IsFolder(task[t].from) <=> IsFolder(task[t].to)
    BY <1>1, <2>1, <2>2 DEF Shape
  <2> QED BY <1>7, <2>3, LookingKeepsTemps, RenamingKeepsTemps DEF Rename
<1>8. CASE Copy(t) BY <1>8, CopyKeepsTemps
<1>9. CASE Fill(t) BY <1>9, FillKeepsTemps
<1>10. CASE MakeFolder(t)
  <2>1. task[t].step = "mkdir" BY <1>10 DEF MakeFolder, At
  <2>2. task[t].to \in Path BY <1>1, <2>1, StepTells DEF Shape
  <2>3. disk' = disk \/ disk' = [disk EXCEPT ![task[t].to] = Folder] BY <1>10 DEF MakeFolder
  <2>4. CASE disk' = disk BY <1>10, <2>4, LookingKeepsTemps DEF MakeFolder
  <2>5. CASE disk' = [disk EXCEPT ![task[t].to] = Folder]
    <3>1. FoldersStay BY <2>2, <2>5, WritingKeepsFolders
    <3> QED BY <1>10, <3>1, NoTemps, TempsStay DEF MakeFolder
  <2> QED BY <2>3, <2>4, <2>5
<1>11. CASE Trash(t)
  <2>1. task[t].step = "trash" BY <1>11 DEF Trash, At
  <2>2. task[t].from \in Path BY <1>1, <2>1, StepTells DEF Shape
  <2> QED BY <1>11, <2>2, RemovingKeepsTemps DEF Trash
<1>12. CASE Write(t)
  <2>1. task[t].step = "write" BY <1>12 DEF Write, At
  <2>2. task[t].from \in Path /\ ~IsFolder(task[t].from) BY <1>1, <2>1, StepTells, FilesArePaths DEF Shape
  <2>3. NoNewTemps BY <1>12, NoTemps DEF Write
  <2>4. disk' = disk \/ disk' = [disk EXCEPT ![task[t].from] = <<task[t].n, 1>>] BY <1>12 DEF Write
  <2>5. FoldersStay
    <3>1. CASE disk' = disk BY <3>1 DEF FoldersStay
    <3>2. CASE disk' = [disk EXCEPT ![task[t].from] = <<task[t].n, 1>>] BY <2>2, <3>2, WritingKeepsFolders
    <3> QED BY <2>4, <3>1, <3>2
  <2> QED BY <2>3, <2>5, TempsStay
<1>13. CASE Store(t) BY <1>13, StoreKeepsTemps
<1>14. CASE Replace(t) BY <1>14, ReplaceKeepsTemps
<1>15. CASE Unzip(t) BY <1>15, UnzipKeepsTemps
<1>16. CASE DiskFails(t) BY <1>16, DiskFailsKeepsTemps
<1> QED BY <1>2, <1>3, <1>4, <1>5, <1>6, <1>7, <1>8, <1>9, <1>10, <1>11, <1>12, <1>13, <1>14, <1>15, <1>16
    DEF Step

\* Every step of a request has its effect.
LEMMA StepEffect ==
  ASSUME Sound, NEW t \in Client, Step(t)
  PROVE  Active(t) /\ Effect(t)
BY GuardEffect, GuardSourceEffect, CheckEffect, RenameEffect, CopyEffect, FillEffect, MakeFolderEffect,
   TrashEffect, ReadEffect, WriteEffect, StoreEffect, ReplaceEffect, PlanEffect, UnzipEffect,
   DiskFailsEffect DEF Step
-----------------------------------------------------------------------------
(* What a running server protects *)

\* A judgement that a server need not stop is one about the path that is touched.
LEMMA Judgement ==
  ASSUME NEW p \in Path, NEW op, op # "upload", ~RequiresStop(p, op)
  PROVE  ~MustStop(p, op)
BY DEF RequiresStop, MustStop

\* The requests of others keep their judgements.
LEMMA OthersAllowed ==
  ASSUME NEW t \in Client, Effect(t), NEW u \in Client, u # t, Allowed(u)
  PROVE  Allowed(u)'
<1>1. SameRequest(u) /\ up' = up BY DEF Effect, Moving
<1> QED BY <1>1 DEF SameRequest, Allowed, Active

\* A request that has passed its guards keeps its judgement.
LEMMA JudgementStays ==
  ASSUME Sound, NEW t \in Client, Effect(t), task[t].step \notin {"guard", "source"},
         Active(t), Allowed(t)
  PROVE  Allowed(t)'
<1>1. up' = up /\ (Ended(t) \/ Onward(t)) BY DEF Effect, Moving
<1>2. CASE Ended(t)
  <2>1. ~Active(t)' BY <1>2 DEF Ended, NoTask, Active
  <2> QED BY <2>1 DEF Allowed
<1>3. CASE Onward(t) BY <1>1, <1>3 DEF Onward, Allowed, Active
<1> QED BY <1>1, <1>2, <1>3

\* The guards judge the path that the request is going to touch.
LEMMA GuardAllows ==
  ASSUME Sound, NEW t \in Client, Guard(t) \/ GuardSource(t)
  PROVE  Allowed(t)'
<1> DEFINE a == task[t]
<1>1. a \in TaskRecord /\ Shape(a) /\ a.step \in {"guard", "source"} BY DEF Sound, Tasks, Guard, GuardSource, At
<1>2. a.op \in Operation
  <2>1. a.step # "done" BY <1>1
  <2> QED BY <1>1, <2>1, StepTells, Fields
<1>3. up' = up BY DEF Guard, GuardSource
<1>4. CASE task' = End(t)
  <2>1. Ended(t) BY <1>4, Ending DEF Sound
  <2>2. ~Active(t)' BY <2>1 DEF Ended, NoTask, Active
  <2> QED BY <2>2 DEF Allowed
<1>5. CASE a.step = "guard" /\ task' # End(t)
  <2>1. Guard(t) BY <1>5 DEF GuardSource, At
  <2>2. task' = Goto(t, First(a.op)) /\ ~(up /\ (a.op = "extract" \/ RequiresStop(Judged(a), a.op)))
    BY <1>5, <2>1 DEF Guard
  <2>3. First(a.op) \in StepsOf(a.op) \cap Steps /\ First(a.op) \notin {"copy", "fill", "rename"}
    BY <1>2, FirstSteps
  <2>4. Onward(t) /\ task'[t].step = First(a.op) BY <2>2, <2>3, Going DEF Sound
  <2>5. ASSUME up, a.op \in {"edit", "delete", "toggle"} PROVE ~MustStop(a.from, a.op)
    <3>1. a.from \in Path BY <1>1, <2>5, FilesArePaths DEF Shape
    <3>2. Judged(a) = a.from BY <2>5 DEF Judged
    <3> QED BY <2>2, <2>5, <3>1, <3>2, Judgement
  <2>6. a.op = "move" => First(a.op) = "source" BY DEF First
  <2> QED BY <1>3, <2>2, <2>4, <2>5, <2>6 DEF Onward, Allowed
<1>6. CASE a.step = "source" /\ task' # End(t)
  <2>1. GuardSource(t) BY <1>6 DEF Guard, At
  <2>2. task' = Goto(t, "check") /\ ~(up /\ RequiresStop(Judged(a), "move")) BY <1>6, <2>1 DEF GuardSource
  <2>3. a.op = "move" BY <1>1, <1>6, StepTells
  <2>4. a.from \in Path BY <1>1, <2>3 DEF Shape
  <2>5. Judged(a) = a.from BY <1>6, <2>3 DEF Judged
  <2>6. "check" \in StepsOf("move") /\ "check" \in Steps BY DEF StepsOf, Steps
  <2>7. Onward(t) /\ task'[t].step = "check" BY <2>2, <2>3, <2>6, Going DEF Sound
  <2>8. up => ~MustStop(a.from, "move") BY <2>2, <2>4, <2>5, Judgement
  <2> QED BY <1>3, <2>3, <2>7, <2>8 DEF Onward, Allowed
<1> QED BY <1>1, <1>4, <1>5, <1>6

\* Every step of a request keeps what has been judged.
LEMMA StepAllows ==
  ASSUME Sound, NEW t \in Client, Step(t), \A u \in Client : Allowed(u)
  PROVE  \A u \in Client : Allowed(u)'
<1>1. Active(t) /\ Effect(t) BY StepEffect
<1>2. Allowed(t)'
  <2>1. CASE Guard(t) \/ GuardSource(t) BY <2>1, GuardAllows
  <2>2. CASE ~Guard(t) /\ ~GuardSource(t)
    <3>1. task[t].step \notin {"guard", "source"}
      BY <2>2 DEF Step, Check, Rename, Copy, Fill, MakeFolder, Trash, Read, Write, Store, Replace, Plan,
                  Unzip, DiskFails, At
    <3> QED BY <1>1, <3>1, JudgementStays
  <2> QED BY <2>1, <2>2
<1> QED BY <1>1, <1>2, OthersAllowed
-----------------------------------------------------------------------------
(* New requests *)

\* What a handler is asked for.
AskedFor(op, p, q, files) ==
  /\ op \in Operation /\ p \in Path \cup {Nothing} /\ q \in Path \cup {Nothing} /\ files \in Seq(File)
  /\ op \notin {"upload", "extract"} => files = <<>>
  /\ op \in {"upload", "delete"} => q = Nothing
  /\ op \in {"move", "copy", "toggle"} => p \in Path /\ q \in Path /\ (IsFolder(p) <=> IsFolder(q))
  /\ op \in {"mkdir", "extract"} => q \in Path /\ IsFolder(q)
  /\ op = "edit" => p \in File /\ q = p
  /\ op = "delete" => p \in Path
  /\ op = "upload" => 0 < Len(files)
  /\ op = "extract" => \A k \in DOMAIN files : files[k][1] = q[1]

\* Every request is one of these.
LEMMA EveryRequest ==
  ASSUME NEW a \in Request
  PROVE  \E op, p, q, files : a = Ask(op, p, q, files) /\ AskedFor(op, p, q, files)
<1>0. <<>> \in Seq(File) OBVIOUS
<1>1. CASE a \in Uploads
  <2>1. PICK f \in UNION {[1 .. k -> File] : k \in {1, 2}} : a = Ask("upload", Nothing, Nothing, f)
    BY <1>1 DEF Uploads
  <2>2. f \in Seq(File) /\ 0 < Len(f)
    <3>1. PICK k \in {1, 2} : f \in [1 .. k -> File] OBVIOUS
    <3> QED BY <3>1
  <2>3. AskedFor("upload", Nothing, Nothing, f) BY <2>2 DEF AskedFor, Operation
  <2> QED BY <2>1, <2>3
<1>2. CASE a \in Folders
  <2>1. PICK d \in Dir : a = Ask("mkdir", Nothing, <<d, Here>>, <<>>) BY <1>2 DEF Folders
  <2>2. <<d, Here>> \in Path /\ IsFolder(<<d, Here>>) BY FolderPaths
  <2>3. AskedFor("mkdir", Nothing, <<d, Here>>, <<>>) BY <1>0, <2>2 DEF AskedFor, Operation
  <2> QED BY <2>1, <2>3
<1>3. CASE a \in Moves
  <2>1. PICK op \in {"move", "copy"}, p \in Path, q \in Path :
          a = Ask(op, p, q, <<>>) /\ IsFolder(a.from) = IsFolder(a.to)
    BY <1>3 DEF Moves
  <2>2. op \in Operation /\ 0 \in 0 .. MaxRequests BY BoundAssumption DEF Operation
  <2>3. a.from = p /\ a.to = q BY <2>1 DEF Ask, NoTask
  <2>4. AskedFor(op, p, q, <<>>) BY <1>0, <2>1, <2>2, <2>3 DEF AskedFor
  <2> QED BY <2>1, <2>4
<1>4. CASE a \in Archives
  <2>1. PICK d \in Dir : a = Ask("extract", Nothing, <<d, Here>>, [k \in DOMAIN Zipped |-> <<d, Zipped[k]>>])
    BY <1>4 DEF Archives
  <2> DEFINE f == [k \in DOMAIN Zipped |-> <<d, Zipped[k]>>]
  <2>2. <<d, Here>> \in Path /\ IsFolder(<<d, Here>>) BY FolderPaths
  <2>3. Len(Zipped) \in Nat /\ DOMAIN Zipped = 1 .. Len(Zipped) /\ \A k \in DOMAIN Zipped : Zipped[k] \in Name
    BY ZippedAssumption
  <2>4. \A k \in DOMAIN Zipped : <<d, Zipped[k]>> \in File BY <2>3 DEF File
  <2>5. f \in [1 .. Len(Zipped) -> File] BY <2>3, <2>4
  <2>6. f \in Seq(File) BY <2>3, <2>5
  <2>7. \A k \in DOMAIN f : f[k][1] = d OBVIOUS
  <2> HIDE DEF f
  <2>8. AskedFor("extract", Nothing, <<d, Here>>, f) BY <2>2, <2>6, <2>7 DEF AskedFor, Operation
  <2> QED BY <2>1, <2>8 DEF f
<1>5. CASE a \in Edits
  <2>1. PICK p \in Dir \X (Name \cap Text) : a = Ask("edit", p, p, <<>>) BY <1>5 DEF Edits
  <2>2. p \in File /\ p \in Path BY FilesArePaths DEF File
  <2>3. AskedFor("edit", p, p, <<>>) BY <1>0, <2>2 DEF AskedFor, Operation
  <2> QED BY <2>1, <2>3
<1>6. CASE a \in Deletions
  <2>1. PICK p \in Path : a = Ask("delete", p, Nothing, <<>>) BY <1>6 DEF Deletions
  <2>2. AskedFor("delete", p, Nothing, <<>>) BY <1>0 DEF AskedFor, Operation
  <2> QED BY <2>1, <2>2
<1>7. CASE a \in Toggles
  <2> DEFINE ask(j, k) == Ask("toggle", <<Plugins, j>>, <<Plugins, k>>, <<>>)
             asked == {ask(j, k) : j \in Jar, k \in Jar}
  <2>5. Toggles = {x \in asked : {x.from, x.to} \subseteq File /\ x.from # x.to} BY DEF Toggles
  <2> HIDE DEF asked
  <2>0. a \in asked /\ {a.from, a.to} \subseteq File BY <1>7, <2>5
  <2> HIDE DEF ask
  <2>1. PICK j \in Jar, k \in Jar : a = ask(j, k) BY <2>0 DEF asked
  <2> DEFINE p == <<Plugins, j>>
             q == <<Plugins, k>>
  <2>2. a.from = p /\ a.to = q BY <2>1 DEF ask, Ask, NoTask
  <2> HIDE DEF p, q
  <2>3. p \in File /\ q \in File BY <2>0, <2>2
  <2>4. p \in Path /\ q \in Path /\ ~IsFolder(p) /\ ~IsFolder(q) BY <2>3, FilesArePaths
  <2>6. AskedFor("toggle", p, q, <<>>) BY <1>0, <2>4 DEF AskedFor, Operation
  <2> QED BY <2>1, <2>6 DEF ask, p, q
<1> QED BY <1>1, <1>2, <1>3, <1>4, <1>5, <1>6, <1>7 DEF Request

\* A request begins with nothing done.
LEMMA Beginning ==
  ASSUME NEW a \in Request, NEW n \in 0 .. MaxRequests
  PROVE  LET b == [a EXCEPT !.step = "guard", !.n = n]
         IN /\ b \in TaskRecord /\ Shape(b) /\ b.step = "guard" /\ b.i = 0 /\ b.n = n
            /\ b.temp = Nothing /\ b.op # "none" /\ b.to = a.to /\ b.files = a.files
            /\ Undoable(b) = {} /\ Targets(b) = Targets(a)
<1> DEFINE b == [a EXCEPT !.step = "guard", !.n = n]
<1>1. PICK op, p, q, files : a = Ask(op, p, q, files) /\ AskedFor(op, p, q, files) BY EveryRequest
<1>2. op \in Operation /\ p \in Path \cup {Nothing} /\ q \in Path \cup {Nothing} /\ files \in Seq(File)
  BY <1>1 DEF AskedFor
<1>3. /\ a.to = q /\ a.files = files
      /\ b \in TaskRecord
      /\ b.op = op /\ b.step = "guard" /\ b.from = p /\ b.to = q /\ b.files = files
      /\ b.i = 0 /\ b.n = n /\ b.temp = Nothing
  <2>1. NoTask \in TaskRecord /\ NoTask.i = 0 /\ NoTask.temp = Nothing BY Idling DEF NoTask
  <2>2. "guard" \in Steps BY DEF Steps
  <2>3. a = [NoTask EXCEPT !.op = op, !.from = p, !.to = q, !.files = files] BY <1>1 DEF Ask
  <2> QED BY <1>2, <2>1, <2>2, <2>3, ZenonT(60) DEF TaskRecord
<1> HIDE DEF b
<1>4. op # "none" /\ "guard" \in StepsOf(op) BY <1>2 DEF Operation, StepsOf
<1>5. Len(files) \in Nat BY <1>2
<1>6. Shape(b) BY <1>1, <1>3, <1>4, <1>5 DEF Shape, AskedFor
<1>7. Undoable(b) = {} BY <1>3 DEF Undoable
<1>8. Targets(b) = Targets(a) BY <1>3 DEF Targets, Listed
<1> QED BY <1>3, <1>4, <1>6, <1>7, <1>8 DEF b
-----------------------------------------------------------------------------
(* The invariant *)

\* A request begins.
LEMMA BeginKeeps ==
  ASSUME IInv, NEW t \in Client, NEW a \in Request, Begin(t, a)
  PROVE  IInv'
<1> DEFINE b == [a EXCEPT !.step = "guard", !.n = requests + 1]
<1>1. /\ Stores /\ Tree /\ Tasks /\ Temps /\ Numbers
      /\ \A u \in Client : Allowed(u)
      /\ ~contested => Uncontested
  BY DEF IInv
<1>2. /\ ~Active(t) /\ requests < MaxRequests /\ requests' = requests + 1
      /\ task' = [task EXCEPT ![t] = b]
      /\ contested' = (contested \/ \E u \in Client : Active(u) /\ Clash(a, task[u]))
      /\ disk' = disk /\ trash' = trash /\ up' = up /\ kept' = kept /\ edited' = edited
  BY DEF Begin
<1>3. requests + 1 \in 0 .. MaxRequests /\ requests \in Nat BY <1>1, <1>2, BoundAssumption DEF Stores
<1>4. /\ b \in TaskRecord /\ Shape(b) /\ b.step = "guard" /\ b.i = 0 /\ b.n = requests + 1
      /\ b.temp = Nothing /\ b.op # "none"
      /\ Undoable(b) = {} /\ Targets(b) = Targets(a)
  BY <1>3, Beginning
<1> HIDE DEF b
<1>5. task \in [Client -> TaskRecord] BY <1>1 DEF Tasks
<1>6. task'[t] = b /\ \A u \in Client : u # t => task'[u] = task[u] BY <1>2, <1>5
<1>7. Tasks'
  <2>1. task' \in [Client -> TaskRecord] BY <1>2, <1>4, <1>5
  <2>2. \A u \in Client : Shape(task'[u]) BY <1>1, <1>4, <1>6 DEF Tasks
  <2> QED BY <2>1, <2>2 DEF Tasks
<1>8. contested' \in BOOLEAN BY <1>1, <1>2 DEF Stores
<1>9. Stores' BY <1>1, <1>2, <1>3, <1>8 DEF Stores
<1>10. Tree' BY <1>1, <1>2 DEF Tree, Placed, Stored, There
<1>11. Temps' BY <1>1, <1>2, <1>4, <1>6 DEF Temps
<1>12. \A u \in Client : u # t => (Active(u)' <=> Active(u)) BY <1>6 DEF Active
<1>13. Numbers'
  <2>1. \A u \in Client : Active(u)' => task'[u].n \in 1 .. requests'
    BY <1>1, <1>2, <1>3, <1>4, <1>6, <1>12 DEF Numbers
  <2>2. \A u \in Client : u # t /\ Active(u)' => task'[u].n # b.n
    BY <1>1, <1>3, <1>4, <1>6, <1>12 DEF Numbers
  <2>3. \A u, v \in Client : Active(u)' /\ Active(v)' /\ task'[u].n = task'[v].n => u = v
    BY <1>1, <1>6, <1>12, <2>2 DEF Numbers
  <2>4. ASSUME NEW c \in kept'
        PROVE  c[1] <= requests' /\ \A u \in Client : Active(u)' => c[1] # task'[u].n
    <3>1. c \in kept /\ c[1] <= requests BY <1>1, <1>2, <2>4 DEF Numbers
    <3>2. c[1] \in Int BY <1>1, <3>1 DEF Stores, Content
    <3> QED BY <1>1, <1>2, <1>3, <1>4, <1>6, <1>12, <3>1, <3>2 DEF Numbers
  <2> QED BY <2>1, <2>3, <2>4 DEF Numbers
<1>14. \A u \in Client : Allowed(u)'
  <2>1. Allowed(t)' BY <1>4, <1>6 DEF Allowed
  <2>2. ASSUME NEW u \in Client, u # t PROVE Allowed(u)'
    BY <1>1, <1>2, <1>6, <2>2 DEF Allowed, Active
  <2> QED BY <2>1, <2>2
<1>15. ASSUME ~contested' PROVE Uncontested'
  <2>1. Uncontested /\ \A u \in Client : Active(u) => ~Clash(a, task[u]) BY <1>1, <1>2, <1>15
  <2>2. ASSUME NEW u \in Client, u # t PROVE ~Clash(b, task[u]) /\ ~Clash(task[u], b)
    <3>1. ~Active(u) => Targets(task[u]) = {} BY <1>1, UndoableTargets DEF Tasks, Active
    <3>2. ~Clash(b, task[u]) BY <1>4, <2>1, <3>1 DEF Clash
    <3> QED BY <3>2, NoClash
  <2>3. Apart' BY <1>6, <2>1, <2>2 DEF Uncontested, Apart
  <2>4. \A u \in Client : Undoable(task'[u]) \subseteq Undoable(task[u]) BY <1>4, <1>6
  <2>5. \A c, S : S \subseteq Client /\ Safe(c, S) => Safe(c, S)' BY <1>2, <2>4 DEF Safe
  <2>6. KeptSafe' BY <1>2, <2>1, <2>5 DEF Uncontested, KeptSafe
  <2>7. Vacant(t)' /\ OwnPlaces(t)' BY <1>4, <1>6 DEF Vacant, OwnPlaces
  <2>8. OwnSafe(t)'
    <3>1. 1 .. task'[t].i = {} BY <1>4, <1>6
    <3> QED BY <3>1 DEF OwnSafe
  <2>9. ASSUME NEW u \in Client, u # t PROVE Vacant(u)' /\ OwnPlaces(u)' /\ OwnSafe(u)'
    <3>1. Vacant(u) /\ OwnPlaces(u) /\ OwnSafe(u) BY <2>1 DEF Uncontested
    <3>2. task'[u] = task[u] BY <1>6, <2>9
    <3>3. Vacant(u)' /\ OwnPlaces(u)' BY <1>2, <3>1, <3>2 DEF Vacant, OwnPlaces
    <3>4. OwnSafe(u)' BY <2>5, <3>1, <3>2 DEF OwnSafe
    <3> QED BY <3>3, <3>4
  <2> QED BY <2>3, <2>6, <2>7, <2>8, <2>9 DEF Uncontested
<1> QED BY <1>7, <1>9, <1>10, <1>11, <1>13, <1>14, <1>15 DEF IInv

\* A request makes a step.
LEMMA StepKeeps ==
  ASSUME IInv, NEW t \in Client, Step(t)
  PROVE  IInv'
<1>1. /\ Stores /\ Tree /\ Tasks /\ Temps /\ Numbers /\ Sound
      /\ \A u \in Client : Allowed(u)
      /\ ~contested => Uncontested
  BY DEF IInv, Sound
<1>2. Active(t) /\ Effect(t) BY <1>1, StepEffect
<1>3. Stores' /\ Tree' /\ Moving(t) /\ contested' = contested BY <1>2 DEF Effect
<1>4. Tasks' BY <1>1, <1>3, MovingKeepsTasks
<1>5. Temps' BY <1>1, StepKeepsTemps
<1>6. Numbers' BY <1>1, <1>2, EffectKeepsNumbers
<1>7. \A u \in Client : Allowed(u)' BY <1>1, StepAllows
<1>8. ~contested' => Uncontested' BY <1>1, <1>2, <1>3, EffectKeepsUncontested
<1> QED BY <1>3, <1>4, <1>5, <1>6, <1>7, <1>8 DEF IInv

\* The panel stops, and forgets its requests.
LEMMA PanelStopsKeeps ==
  ASSUME IInv, PanelStops
  PROVE  IInv'
<1>1. /\ Stores /\ Tree /\ Tasks /\ Temps /\ Numbers
      /\ ~contested => Uncontested
  BY DEF IInv
<1>2. /\ \A u \in Client : task'[u] = NoTask
      /\ task' = [u \in Client |-> NoTask]
      /\ disk' = disk /\ trash' = trash /\ up' = up /\ kept' = kept /\ edited' = edited
      /\ requests' = requests /\ contested' = contested
  BY DEF PanelStops, history
<1>3. /\ NoTask \in TaskRecord /\ Shape(NoTask) /\ NoTask.op = "none" /\ NoTask.step = "done"
      /\ NoTask.temp = Nothing /\ NoTask.i = 0
  BY Idling DEF NoTask
<1>4. Undoable(NoTask) = {} /\ Targets(NoTask) = {} BY <1>3, UndoableTargets
<1>5. Tasks' BY <1>2, <1>3 DEF Tasks
<1>6. Stores' BY <1>1, <1>2 DEF Stores
<1>7. Tree' BY <1>1, <1>2 DEF Tree, Placed, Stored, There
<1>8. Temps' BY <1>2, <1>3 DEF Temps
<1>9. \A u \in Client : ~Active(u)' BY <1>2, <1>3 DEF Active
<1>10. Numbers' BY <1>1, <1>2, <1>9 DEF Numbers
<1>11. \A u \in Client : Allowed(u)' BY <1>9 DEF Allowed
<1>12. ASSUME ~contested' PROVE Uncontested'
  <2>1. Apart' BY <1>2, <1>4 DEF Apart, Clash
  <2>2. \A c : Safe(c, Client) => Safe(c, Client)' BY <1>2, <1>4 DEF Safe
  <2>3. KeptSafe' BY <1>1, <1>2, <1>12, <2>2 DEF Uncontested, KeptSafe
  <2>4. \A u \in Client : Vacant(u)' /\ OwnPlaces(u)' BY <1>2, <1>3 DEF Vacant, OwnPlaces
  <2>5. \A u \in Client : 1 .. task'[u].i = {} BY <1>2, <1>3
  <2>6. \A u \in Client : OwnSafe(u)' BY <2>5 DEF OwnSafe
  <2> QED BY <2>1, <2>3, <2>4, <2>6 DEF Uncontested
<1> QED BY <1>5, <1>6, <1>7, <1>8, <1>10, <1>11, <1>12 DEF IInv

\* Requests that differ only in whether they are late.
LEMMA OnlyLate ==
  ASSUME IInv, task' \in [Client -> TaskRecord],
         \A u \in Client : /\ task'[u].op = task[u].op /\ task'[u].step = task[u].step
                           /\ task'[u].from = task[u].from /\ task'[u].to = task[u].to
                           /\ task'[u].files = task[u].files /\ task'[u].i = task[u].i
                           /\ task'[u].n = task[u].n /\ task'[u].temp = task[u].temp,
         UNCHANGED <<disk, trash, kept, edited, requests, contested>>, up' \in BOOLEAN,
         \A u \in Client : Allowed(u)'
  PROVE  IInv'
<1>1. /\ Stores /\ Tree /\ Tasks /\ Temps /\ Numbers
      /\ ~contested => Uncontested
  BY DEF IInv
<1>2. Stores' BY <1>1 DEF Stores
<1>3. Tree' BY <1>1 DEF Tree, Placed, Stored, There
<1>4. Tasks'
  <2>1. ASSUME NEW u \in Client PROVE Shape(task'[u])
    <3>1. Shape(task[u]) BY <1>1 DEF Tasks
    <3> QED BY <3>1 DEF Shape
  <2> QED BY <2>1 DEF Tasks
<1>5. Temps' BY <1>1 DEF Temps
<1>6. \A u \in Client : Active(u)' <=> Active(u) BY DEF Active
<1>7. Numbers' BY <1>1, <1>6 DEF Numbers
<1>8. \A u \in Client : Targets(task'[u]) = Targets(task[u]) BY DEF Targets, Listed
<1>9. ASSUME NEW u \in Client PROVE Undoable(task'[u]) = Undoable(task[u])
  <2>1. {task'[u].files[k] : k \in 1 .. task'[u].i} = {task[u].files[k] : k \in 1 .. task[u].i} OBVIOUS
  <2>2. Under(task'[u].to) = Under(task[u].to) OBVIOUS
  <2> QED BY <2>1, <2>2 DEF Undoable
<1>10. ASSUME ~contested' PROVE Uncontested'
  <2>1. Uncontested BY <1>1, <1>10
  <2>2. Apart' BY <1>8, <2>1 DEF Uncontested, Apart, Clash
  <2>3. \A c, S : S \subseteq Client /\ Safe(c, S) => Safe(c, S)' BY <1>9 DEF Safe
  <2>4. KeptSafe' BY <2>1, <2>3 DEF Uncontested, KeptSafe
  <2>5. ASSUME NEW u \in Client PROVE Vacant(u)' /\ OwnPlaces(u)' /\ OwnSafe(u)'
    <3>1. Vacant(u) /\ OwnPlaces(u) /\ OwnSafe(u) BY <2>1 DEF Uncontested
    <3>2. Vacant(u)' BY <3>1 DEF Vacant
    <3>3. OwnPlaces(u)' BY <1>9, <3>1 DEF OwnPlaces
    <3>4. OwnSafe(u)' BY <2>3, <3>1 DEF OwnSafe
    <3> QED BY <3>2, <3>3, <3>4
  <2> QED BY <2>2, <2>4, <2>5 DEF Uncontested
<1> QED BY <1>2, <1>3, <1>4, <1>5, <1>7, <1>10 DEF IInv

\* The server starts: a request that is past its guard is late.
LEMMA ServerStartsKeeps ==
  ASSUME IInv, ServerStarts
  PROVE  IInv'
<1> DEFINE next(u) == [task[u] EXCEPT !.late = Active(u) /\ (@ \/ ~At(u, "guard") \/ task[u].i > 0)]
<1>1. Stores /\ Tasks BY DEF IInv
<1>2. /\ up' = TRUE /\ task' = [u \in Client |-> next(u)]
      /\ UNCHANGED <<disk, trash, kept, edited, requests, contested>>
  BY DEF ServerStarts, history
<1>3. ASSUME NEW u \in Client
      PROVE  /\ next(u) \in TaskRecord
             /\ next(u).op = task[u].op /\ next(u).step = task[u].step
             /\ next(u).from = task[u].from /\ next(u).to = task[u].to
             /\ next(u).files = task[u].files /\ next(u).i = task[u].i
             /\ next(u).n = task[u].n /\ next(u).temp = task[u].temp
             /\ Active(u) /\ ~At(u, "guard") => next(u).late
  <2>1. task[u] \in TaskRecord BY <1>1 DEF Tasks
  <2> DEFINE late == Active(u) /\ (task[u].late \/ ~At(u, "guard") \/ task[u].i > 0)
  <2>2. late \in BOOLEAN BY DEF Active
  <2>3. next(u) = [task[u] EXCEPT !.late = late] OBVIOUS
  <2>4. Active(u) /\ ~At(u, "guard") => late OBVIOUS
  <2> HIDE DEF late
  <2>5. [task[u] EXCEPT !.late = late].late = late BY <2>1 DEF TaskRecord
  <2> QED BY <2>1, <2>2, <2>3, <2>4, <2>5 DEF TaskRecord
<1> HIDE DEF next
<1>4. task' \in [Client -> TaskRecord] /\ \A u \in Client : task'[u] = next(u) BY <1>2, <1>3
<1>5. ASSUME NEW u \in Client PROVE Allowed(u)'
  BY <1>3, <1>4 DEF Allowed, Active, At
<1> QED BY <1>2, <1>3, <1>4, <1>5, OnlyLate

\* The server stops.
LEMMA ServerStopsKeeps ==
  ASSUME IInv, ServerStops
  PROVE  IInv'
<1>1. up' = FALSE /\ UNCHANGED <<disk, trash, task, requests, kept, edited, contested>>
  BY DEF ServerStops, counters, history
<1>2. task \in [Client -> TaskRecord] BY DEF IInv, Tasks
<1>3. \A u \in Client : Allowed(u)' BY <1>1 DEF Allowed
<1> QED BY <1>1, <1>2, <1>3, OnlyLate

\* At first nothing is asked for, and what is kept is where it is.
LEMMA InitKeeps == Init => IInv
<1> SUFFICES ASSUME Init PROVE IInv OBVIOUS
<1>1. /\ disk = Initial /\ trash = {} /\ up \in BOOLEAN /\ task = [c \in Client |-> NoTask]
      /\ requests = 0 /\ kept = Contents(Initial) /\ edited = {} /\ contested = FALSE
  BY DEF Init
<1>2. /\ NoTask \in TaskRecord /\ Shape(NoTask) /\ NoTask.op = "none" /\ NoTask.step = "done"
      /\ NoTask.temp = Nothing /\ NoTask.i = 0
  BY Idling DEF NoTask
<1>3. Undoable(NoTask) = {} /\ Targets(NoTask) = {} BY <1>2, UndoableTargets
<1>4. \A u \in Client : task[u] = NoTask BY <1>1
<1>5. Tasks BY <1>1, <1>2 DEF Tasks
<1>6. 0 \in 0 .. MaxRequests BY BoundAssumption
<1>7. {0} \X Nat \subseteq Content BY <1>6 DEF Content
<1>8. Initial \in [Path -> Item] BY <1>7, InitialAssumption DEF Item
<1>9. Stores BY <1>1, <1>6, <1>8 DEF Stores, Contents
<1>10. Tree
  <2>1. ASSUME NEW p \in Path PROVE Placed(p)
    BY <1>1, InitialAssumption, FilesArePaths DEF Placed, Stored, There
  <2> QED BY <2>1 DEF Tree
<1>11. Temps BY <1>2, <1>4 DEF Temps
<1>12. \A u \in Client : ~Active(u) BY <1>2, <1>4 DEF Active
<1>13. Numbers
  <2>1. ASSUME NEW c \in kept PROVE c[1] = 0
    <3>1. PICK p \in Path : c = Initial[p] BY <1>1, <2>1 DEF Contents
    <3>2. c \in Content BY <1>1, <2>1 DEF Contents
    <3>3. c \in {0} \X Nat BY <3>1, <3>2, InitialAssumption, Distinct
    <3> QED BY <3>3
  <2> QED BY <1>1, <1>12, <2>1 DEF Numbers
<1>14. \A u \in Client : Allowed(u) BY <1>12 DEF Allowed
<1>15. Uncontested
  <2>1. Apart BY <1>3, <1>4 DEF Apart, Clash
  <2>2. ASSUME NEW c \in kept PROVE Safe(c, Client)
    <3>1. PICK p \in Path : c = disk[p] BY <1>1, <2>2 DEF Contents
    <3> QED BY <1>3, <1>4, <3>1 DEF Safe
  <2>3. \A u \in Client : Vacant(u) /\ OwnPlaces(u) BY <1>2, <1>4 DEF Vacant, OwnPlaces
  <2>4. \A u \in Client : task[u].i = 0 BY <1>2, <1>4
  <2>5. \A u \in Client : OwnSafe(u) BY <2>4 DEF OwnSafe
  <2> QED BY <2>1, <2>2, <2>3, <2>5 DEF Uncontested, KeptSafe
<1> QED BY <1>5, <1>9, <1>10, <1>11, <1>13, <1>14, <1>15 DEF IInv

\* Every step of the system keeps the invariant.
LEMMA NextKeeps == IInv /\ [Next]_vars => IInv'
<1> SUFFICES ASSUME IInv, [Next]_vars PROVE IInv' OBVIOUS
<1>1. ASSUME NEW t \in Client, NEW a \in Request, Begin(t, a) PROVE IInv' BY <1>1, BeginKeeps
<1>2. ASSUME NEW t \in Client, Step(t) PROVE IInv' BY <1>2, StepKeeps
<1>3. CASE PanelStops BY <1>3, PanelStopsKeeps
<1>4. CASE ServerStarts BY <1>4, ServerStartsKeeps
<1>5. CASE ServerStops BY <1>5, ServerStopsKeeps
<1>6. CASE UNCHANGED vars
  <2>1. UNCHANGED <<disk, trash, up, task, requests, kept, edited, contested>>
    BY <1>6 DEF vars, counters, history
  <2>2. task \in [Client -> TaskRecord] /\ up \in BOOLEAN BY DEF IInv, Tasks, Stores
  <2>3. \A u \in Client : Allowed(u)' BY <2>1 DEF IInv, Allowed, Active
  <2> QED BY <2>1, <2>2, <2>3, OnlyLate
<1> QED BY <1>1, <1>2, <1>3, <1>4, <1>5, <1>6 DEF Next

\* The invariant of the file manager holds in every state.
THEOREM Invariant == Spec => []IInv
BY InitKeeps, NextKeeps, PTL DEF Spec

\* The directory is a tree in every state, whatever happens to it: the types
\* of all that is stored, folders above files, and no file without its folder.
THEOREM TypeCorrect == Spec => []TypeOK
<1>1. IInv => TypeOK
  <2> SUFFICES ASSUME IInv PROVE TypeOK OBVIOUS
  <2>1. Stores /\ Tree /\ Tasks BY DEF IInv
  <2>2. \A t \in Client : task[t].op \in Operation \cup {"none"} /\ task[t].i <= Len(task[t].files)
    BY <2>1, Fields DEF Tasks, Shape
  <2> QED BY <2>1, <2>2 DEF TypeOK, Stores, Tree, Placed
<1> QED BY <1>1, Invariant, PTL

\* What a user was told is stored stays in the directory or in its trash, as
\* long as no two requests write to the same place at once: through the
\* rollback of every upload and extraction, the error path of every copy, and
\* crashes at any step.
THEOREM StoredFilesStay == Spec => []NothingLost
<1>1. IInv => NothingLost
  <2> SUFFICES ASSUME IInv, ~contested, NEW c \in kept \ edited PROVE c \in Contents(disk) \cup trash
    BY DEF NothingLost
  <2>1. c \in Content /\ Safe(c, Client) BY DEF IInv, Stores, Uncontested, KeptSafe
  <2> QED BY <2>1 DEF Safe, Contents
<1> QED BY <1>1, Invariant, PTL
-----------------------------------------------------------------------------
(* The files of a running server *)

\* What an upload undoes is its own, and no user was told that it is stored.
LEMMA OwnUndone ==
  ASSUME Sound, Uncontested, Numbers, NEW t \in Client, Active(t), task[t].op = "upload",
         NEW p \in Path, disk[p] \in kept
  PROVE  Undone(t)[p] = disk[p]
<1>1. task[t] \in TaskRecord /\ Shape(task[t]) BY DEF Sound, Tasks
<1>2. task[t].step \notin {"copy", "fill"} BY <1>1, StepTells
<1>3. Done(t) = Undoable(task[t]) BY <1>1, <1>2, DoneFiles
<1>4. disk[p] # Nothing BY Distinct DEF Sound, Stores
<1>5. disk[p][1] # task[t].n BY DEF Numbers
<1>6. p \notin Done(t) BY <1>3, <1>4, <1>5 DEF Uncontested, OwnPlaces
<1> QED BY <1>6 DEF Undone

\* Under a place that is free there is nothing.
LEMMA NothingUnder ==
  ASSUME Sound, NEW q \in Path, disk[q] = Nothing, NEW p \in Path, Stored(p)
  PROVE  ~Covers(q, p) /\ p # q
<1>1. IsTree(disk) BY DiskIsTree DEF Sound, Stores
<1>2. disk[p] # Nothing BY Distinct DEF Stored
<1> QED BY <1>1, <1>2, TreeItems

\* A path in use is one for which a server must stop, whatever the operation.
LEMMA InUseMustStop ==
  ASSUME NEW p, InUse(p), NEW op
  PROVE  MustStop(p, op)
BY DEF InUse, MustStop

\* A request that is not late, and was not asked for the folder of a file,
\* changes no file that a running server uses.
LEMMA InUseStays ==
  ASSUME Sound, Uncontested, Numbers, up, NEW t \in Client, Allowed(t), ~task[t].late, Step(t),
         NEW p \in Path, InUse(p), Up(p) \notin {task[t].from, task[t].to}
  PROVE  disk'[p] = disk[p]
<1> DEFINE a == task[t]
<1>1. Active(t) /\ a \in TaskRecord /\ Shape(a) BY StepEffect DEF Sound, Tasks
<1>2. disk[p] \in kept /\ Stored(p) /\ ~IsFolder(p) /\ p # Up(p) /\ disk[p] # Nothing
  <2>1. disk[p] \in kept /\ Stored(p) BY DEF InUse, Sound, Stores, Stored
  <2>2. ~IsFolder(p) BY <2>1 DEF Sound, Tree, Placed
  <2> QED BY <2>1, <2>2, Parts, Distinct DEF Stored
<1>3. a.from \in Path /\ MustStop(a.from, a.op) = FALSE => ~Covers(a.from, p)
  <2>1. ASSUME a.from \in Path, ~MustStop(a.from, a.op), Covers(a.from, p) PROVE FALSE
    <3>1. a.from = p \/ a.from = Up(p) BY <2>1, Covering
    <3> QED BY <2>1, <3>1, InUseMustStop
  <2> QED BY <2>1
<1>4. disk \in [Path -> Item] BY DEF Sound, Stores
<1>5. CASE UNCHANGED disk BY <1>5
<1>6. CASE Rename(t)
  <2>1. a.step = "rename" BY <1>6 DEF Rename, At
  <2>2. a.op \in {"move", "toggle"} BY <1>1, <2>1, StepTells
  <2>3. a.from \in Path /\ a.to \in Path BY <1>1, <2>2 DEF Shape
  <2>4. ~MustStop(a.from, a.op) BY <1>1, <2>1, <2>2 DEF Allowed
  <2>5. ~Covers(a.from, p) BY <1>3, <2>3, <2>4
  <2>6. disk[a.to] = Nothing BY <2>1 DEF Uncontested, Vacant
  <2>7. ~Covers(a.to, p) BY <1>2, <2>3, <2>6, NothingUnder
  <2> QED BY <1>6, <2>5, <2>7 DEF Rename, Renamed
<1>7. CASE Copy(t) \/ (a.step = "copy" /\ CopyFails(t))
  <2>1. a.step = "copy" BY <1>7 DEF Copy, At
  <2>2. a.to \in Path BY <1>1, <2>1, Copying
  <2>3. disk[a.to] = Nothing BY <2>1 DEF Uncontested, Vacant
  <2>4. ~Covers(a.to, p) /\ p # a.to BY <1>2, <2>2, <2>3, NothingUnder
  <2> QED BY <1>4, <1>7, <2>4 DEF Copy, CopyFails, Removed
<1>8. CASE a.step = "fill" /\ (CopyFails(t) \/ \E c : \E x \in a.rest : disk' = [disk EXCEPT ![<<a.to[1], x>>] = c])
  <2>1. a.to \in Path /\ IsFolder(a.to) BY <1>1, <1>8, Copying DEF Shape
  <2>2. p[1] # a.to[1] BY <2>1 DEF Up, IsFolder, Path
  <2>3. CASE CopyFails(t) BY <2>2, <2>3 DEF CopyFails, Removed, Covers
  <2>4. ASSUME NEW x \in a.rest, NEW c, disk' = [disk EXCEPT ![<<a.to[1], x>>] = c] PROVE disk'[p] = disk[p]
    <3>1. p # <<a.to[1], x>> BY <2>2
    <3> QED BY <1>4, <2>4, <3>1
  <2> QED BY <1>8, <2>3, <2>4
<1>9. CASE MakeFolder(t) BY <1>2, <1>4, <1>9 DEF MakeFolder
<1>10. CASE Trash(t)
  <2>1. a.step = "trash" BY <1>10 DEF Trash, At
  <2>2. a.op = "delete" BY <1>1, <2>1, StepTells
  <2>3. a.from \in Path BY <1>1, <2>2 DEF Shape
  <2>4. ~MustStop(a.from, a.op) BY <1>1, <2>1, <2>2 DEF Allowed
  <2>5. ~Covers(a.from, p) BY <1>3, <2>3, <2>4
  <2> QED BY <1>10, <2>5 DEF Trash, Removed
<1>11. CASE Write(t)
  <2>1. a.step = "write" BY <1>11 DEF Write, At
  <2>2. a.op = "edit" BY <1>1, <2>1, StepTells
  <2>3. a.from \in Path BY <1>1, <2>2, FilesArePaths DEF Shape
  <2>4. ~MustStop(a.from, a.op) BY <1>1, <2>1, <2>2 DEF Allowed
  <2>5. p # a.from BY <1>3, <2>3, <2>4, Covering
  <2>6. disk' = disk \/ disk' = [disk EXCEPT ![a.from] = <<a.n, 1>>] BY <1>11 DEF Write
  <2> QED BY <1>4, <2>5, <2>6
<1>12. CASE a.step \in {"store", "replace"} /\ disk' = Undone(t)
  <2>1. a.op = "upload" BY <1>1, <1>12, StepTells
  <2> QED BY <1>1, <1>2, <1>12, <2>1, OwnUndone
<1>13. CASE a.step = "store" /\ disk' = [disk EXCEPT ![Up(a.files[a.i + 1])] = Folder]
  <2>1. a.op = "upload" BY <1>1, <1>13, StepTells
  <2>2. a.i < Len(a.files) BY <1>1, <2>1 DEF Shape
  <2>3. IsFolder(Up(a.files[a.i + 1])) BY <1>1, <2>1, <2>2, NextFile
  <2>4. p # Up(a.files[a.i + 1]) BY <1>2, <2>3
  <2> QED BY <1>4, <1>13, <2>4
<1>14. CASE a.step = "replace" /\ disk' = [disk EXCEPT ![a.files[a.i + 1]] = <<a.n, a.i + 1>>]
  <2>1. disk[a.files[a.i + 1]] = Nothing BY <1>14 DEF Uncontested, Vacant
  <2>2. p # a.files[a.i + 1] BY <1>2, <2>1
  <2> QED BY <1>4, <1>14, <2>2
<1>15. CASE a.step = "unzip"
  <2>1. a.op = "extract" BY <1>1, <1>15, StepTells
  <2> QED BY <1>1, <1>15, <2>1 DEF Allowed
<1>16. CASE Guard(t) \/ GuardSource(t) \/ Check(t) \/ Read(t) \/ Plan(t)
  BY <1>16 DEF Guard, GuardSource, Check, Read, Plan
<1>17. CASE Fill(t)
  <2>1. a.step = "fill" BY <1>17 DEF Fill, At
  <2>2. CASE \E x \in a.rest :
               disk' = IF Stored(<<a.from[1], x>>) /\ disk[a.to] = Folder
                       THEN [disk EXCEPT ![<<a.to[1], x>>] = disk[<<a.from[1], x>>]] ELSE disk
    BY <1>5, <1>8, <2>1, <2>2
  <2>3. CASE UNCHANGED disk \/ CopyFails(t) BY <1>5, <1>8, <2>1, <2>3
  <2> QED BY <1>17, <2>2, <2>3 DEF Fill
<1>18. CASE Store(t) BY <1>12, <1>13, <1>18 DEF Store, At
<1>19. CASE Replace(t) BY <1>12, <1>14, <1>19 DEF Replace, At
<1>20. CASE Unzip(t) BY <1>15, <1>20 DEF Unzip, At
<1>21. CASE DiskFails(t)
  <2>1. \/ a.step = "replace" /\ disk' = Undone(t)
        \/ UNCHANGED disk
        \/ a.step = "copy" /\ CopyFails(t)
        \/ a.step = "fill" /\ \E x \in a.rest : disk' = [disk EXCEPT ![<<a.to[1], x>>] = <<a.n, 0>>]
        \/ a.step = "unzip"
    BY <1>21 DEF DiskFails, At
  <2> QED BY <1>5, <1>7, <1>8, <1>12, <1>15, <2>1
<1> QED BY <1>6, <1>7, <1>9, <1>10, <1>11, <1>16, <1>17, <1>18, <1>19, <1>20, <1>21 DEF Step

\* A file that a running server uses changes only by a request that judged a
\* stopped server, or that was asked for the folder above the file, as long as
\* no two requests write to the same place at once.
THEOREM RunningServerProtected == Spec => LiveFilesKept
<1> DEFINE Kept == \A p \in Path : ~contested' /\ up /\ InUse(p) /\ disk'[p] # disk[p] =>
                     \E t \in Client : Active(t) /\ (task[t].late \/ Up(p) \in {task[t].from, task[t].to})
<1>1. IInv /\ [Next]_vars => [Kept]_vars
  <2> SUFFICES ASSUME IInv, Next, NEW p \in Path, ~contested', up, InUse(p), disk'[p] # disk[p]
               PROVE  \E t \in Client : Active(t) /\ (task[t].late \/ Up(p) \in {task[t].from, task[t].to})
    OBVIOUS
  <2>1. PICK t \in Client : Step(t)
    BY DEF Next, Begin, PanelStops, ServerStarts, ServerStops
  <2>2. Sound /\ Numbers /\ Allowed(t) BY DEF IInv, Sound
  <2>3. Active(t) /\ Effect(t) BY <2>1, <2>2, StepEffect
  <2>4. Uncontested BY <2>3 DEF IInv, Effect
  <2>5. task[t].late \/ Up(p) \in {task[t].from, task[t].to} BY <2>1, <2>2, <2>4, InUseStays
  <2> QED BY <2>3, <2>5
<1> QED BY <1>1, Invariant, PTL DEF Spec, LiveFilesKept
=============================================================================
