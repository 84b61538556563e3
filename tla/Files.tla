-------------------------------- MODULE Files --------------------------------
(***************************************************************************)
(* The file manager: file_service.py and its handlers in web.py, on the    *)
(* directory of one server.  Uploads run on the event loop and await each  *)
(* chunk; the other operations run in threads of their own, so that every  *)
(* system call of one may come between two of another.                     *)
(*                                                                         *)
(* The directory has two levels: folders, and files in folders.  Symbolic  *)
(* links, names that _validate_name refuses and ownership are left out.    *)
(***************************************************************************)
EXTENDS Integers, Sequences

CONSTANTS
  Client,
  Dir,         \* names of folders
  Name,        \* names of files
  Initial,     \* the content of the directory at first
  Zipped,      \* the names in the archive that is extracted
  MaxRequests, \* bound: requests
  MaxFaults,   \* bound: failures of the disk, and crashes of the panel
  MaxStarts,   \* bound: starts of the server during requests
  Nothing,     \* no such file or directory
  Folder

Plugins == "plugins"
World == "world"             \* level-name
Jar == {"a.jar", "a.jar.disabled"}
Live == {"level.dat"}        \* LIVE_PROTECTED_NAMES and LIVE_PROTECTED_SUFFIXES
Text == {"notes.txt"}        \* TEXT_SUFFIXES

\* A folder and a name in it, or the folder itself: "." is no name of a file.
Here == "."
Path == Dir \X (Name \cup {Here})
File == Dir \X Name
Content == (0 .. MaxRequests) \X Nat
Item == Content \cup {Nothing, Folder}

IsFolder(p) == p[2] = Here
Up(p) == <<p[1], Here>>
Covers(p, q) == p[1] = q[1] /\ p[2] \in {Here, q[2]}
Comparable(p, q) == Covers(p, q) \/ Covers(q, p)

ASSUME NameAssumption == Here \notin Name /\ Nothing \notin Dir
ASSUME ItemAssumption == Nothing # Folder /\ {Nothing, Folder} \cap (Content \cup Path) = {}
ASSUME InitialAssumption ==
  /\ Initial \in [Path -> {0} \X Nat \cup {Nothing, Folder}]
  /\ \A p \in Path : Initial[p] = Folder => IsFolder(p)
  /\ \A p \in Path : Initial[p] \in Content => p \in File /\ Initial[Up(p)] = Folder
ASSUME ZippedAssumption ==
  Zipped \in Seq(Name) /\ \A j, k \in DOMAIN Zipped : Zipped[j] = Zipped[k] => j = k
ASSUME BoundAssumption == {MaxRequests, MaxFaults, MaxStarts} \subseteq Nat

VARIABLES
  disk,       \* what each path of the directory is
  trash,      \* the contents of .trash/files
  up,         \* is the server running?
  task,       \* the request of each client
  requests, faults, starts,
  kept,       \* contents that the users were told are stored
  edited,     \* contents that an edit replaced
  contested   \* have two requests written to the same place at once?

counters == <<requests, faults, starts>>
history == <<kept, edited, contested>>
vars == <<disk, trash, up, task, counters, history>>

Operation == {"upload", "mkdir", "move", "copy", "extract", "edit", "delete", "toggle"}
NoTask == [op |-> "none", step |-> "done", from |-> Nothing, to |-> Nothing, files |-> <<>>,
           i |-> 0, n |-> 0, temp |-> Nothing, mine |-> FALSE, late |-> FALSE,
           rest |-> {}, failed |-> FALSE]

Stored(p) == disk[p] \in Content
Under(p) == {q \in Path : Covers(p, q)}
Contents(d) == {d[p] : p \in Path} \cap Content
There(p) == IsFolder(p) \/ disk[Up(p)] = Folder   \* the parent of p exists

\* Nothing is in folder d of a directory: no file, and no temporary one.
Empty(now, d) == (\A x \in Name : now[<<d, x>>] = Nothing) /\ \A u \in Client : task[u].temp # d

Init ==
  /\ disk = Initial /\ trash = {} /\ up \in BOOLEAN
  /\ task = [c \in Client |-> NoTask]
  /\ requests = 0 /\ faults = 0 /\ starts = 0
  /\ kept = Contents(Initial) /\ edited = {} /\ contested = FALSE
-----------------------------------------------------------------------------
(* Requests *)

Ask(op, p, q, files) == [NoTask EXCEPT !.op = op, !.from = p, !.to = q, !.files = files]

\* What each handler accepts; an upload brings one or two files, and an item is
\* moved or copied to its own level.
Uploads == {Ask("upload", Nothing, Nothing, f) : f \in UNION {[1 .. k -> File] : k \in {1, 2}}}
Folders == {Ask("mkdir", Nothing, <<d, Here>>, <<>>) : d \in Dir}
Moves == {a \in {Ask(op, p, q, <<>>) : op \in {"move", "copy"}, p \in Path, q \in Path} :
            IsFolder(a.from) = IsFolder(a.to)}
Archives ==
  {Ask("extract", Nothing, <<d, Here>>, [k \in DOMAIN Zipped |-> <<d, Zipped[k]>>]) : d \in Dir}
Edits == {Ask("edit", p, p, <<>>) : p \in Dir \X (Name \cap Text)}
Deletions == {Ask("delete", p, Nothing, <<>>) : p \in Path}
Toggles == {a \in {Ask("toggle", <<Plugins, j>>, <<Plugins, k>>, <<>>) : j \in Jar, k \in Jar} :
              {a.from, a.to} \subseteq File /\ a.from # a.to}
Request == Uploads \cup Folders \cup Moves \cup Archives \cup Edits \cup Deletions \cup Toggles

Active(t) == task[t].op # "none"
Listed(a) == {a.files[k] : k \in DOMAIN a.files}
Targets(a) == ({a.to} \cup Listed(a)) \ {Nothing}
Clash(a, b) == \E p \in Targets(a), q \in Targets(b) : Comparable(p, q)

Begin(t, a) ==
  /\ ~Active(t) /\ requests < MaxRequests
  /\ requests' = requests + 1
  /\ task' = [task EXCEPT ![t] = [a EXCEPT !.step = "guard", !.n = requests']]
  /\ contested' = (contested \/ \E u \in Client : Active(u) /\ Clash(a, task[u]))
  /\ UNCHANGED <<disk, trash, up, faults, starts, kept, edited>>

\* mutation_requires_stopped_server
RequiresStop(p, op) ==
  \/ op = "toggle"
  \/ p[2] \in Live
  \/ IF p[1] = Plugins /\ p[2] \in Jar THEN op # "upload" \/ disk[p] # Nothing
     ELSE p[1] = World

\* Mutant: a move is judged by its destination only.
JudgedTo(a) == IF a.op = "upload" THEN a.files[a.i + 1] ELSE IF a.to = Nothing THEN a.from ELSE a.to

\* The path that a handler passes to _require_safe_file_mutation; a move passes
\* its destination, and its source in a second call.
Judged(a) ==
  CASE a.op = "upload" -> a.files[a.i + 1]
    [] a.op \in {"copy", "mkdir"} \/ (a.op = "move" /\ a.step = "guard") -> a.to
    [] OTHER -> a.from

First(op) ==
  [upload |-> "store", mkdir |-> "mkdir", move |-> "source", copy |-> "check", extract |-> "plan",
   edit |-> "read", delete |-> "trash", toggle |-> "check"][op]

At(t, step) == task[t].step = step
Goto(t, step) == [task EXCEPT ![t].step = step]
End(t) == [task EXCEPT ![t] = NoTask]

\* _require_safe_file_mutation; an extraction needs a stopped server.  A
\* refusal ends the request with what it has done so far.
Guard(t) ==
  /\ At(t, "guard")
  /\ LET a == task[t]
         refused == up /\ (a.op = "extract" \/ RequiresStop(Judged(a), a.op))
     IN task' = IF refused THEN End(t) ELSE Goto(t, First(a.op))
  /\ UNCHANGED <<disk, trash, up, counters, history>>

GuardSource(t) ==
  /\ At(t, "source")
  /\ LET refused == up /\ RequiresStop(Judged(task[t]), "move")
     IN task' = IF refused THEN End(t) ELSE Goto(t, "check")
  /\ UNCHANGED <<disk, trash, up, counters, history>>

\* What a folder holds moves with it, the temporary files of uploads included.
Carried(from, to, next) ==
  [u \in Client |-> IF from = <<next[u].temp, Here>> THEN [next[u] EXCEPT !.temp = to] ELSE next[u]]
-----------------------------------------------------------------------------
(* Moves, copies and the toggling of plugins *)

\* Mutant: what a folder holds stays behind.
RenamedAlone(p, q) == [disk EXCEPT ![q] = disk[p], ![p] = Nothing]

Renamed(p, q) ==
  [r \in Path |-> IF Covers(p, r) THEN Nothing
                  ELSE IF Covers(q, r) THEN disk[IF IsFolder(p) THEN <<p[1], r[2]>> ELSE p]
                  ELSE disk[r]]

Removed(p) == [r \in Path |-> IF Covers(p, r) THEN Nothing ELSE disk[r]]

\* Mutant: the destination is not looked at.
CheckSource(t) ==
  /\ At(t, "check")
  /\ LET a == task[t]
     IN task' = IF disk[a.from] = Nothing THEN End(t)
                ELSE Goto(t, IF a.op = "copy" THEN "copy" ELSE "rename")
  /\ UNCHANGED <<disk, trash, up, counters, history>>

Check(t) ==
  /\ At(t, "check")
  /\ LET a == task[t]
         bad == \/ disk[a.from] = Nothing \/ disk[a.to] # Nothing
                \/ a.op = "toggle" /\ ~Stored(a.from)
     IN task' = IF bad THEN End(t) ELSE Goto(t, IF a.op = "copy" THEN "copy" ELSE "rename")
  /\ UNCHANGED <<disk, trash, up, counters, history>>

\* os.replace puts a file over a file and a folder over an empty folder.
Replaceable(p, q) ==
  /\ disk[p] # Nothing /\ There(q)
  /\ disk[p] = Folder => Empty(disk, q[1])

Rename(t) ==
  /\ At(t, "rename")
  /\ LET p == task[t].from  q == task[t].to
     IN IF Replaceable(p, q)
        THEN disk' = Renamed(p, q) /\ task' = Carried(p, q[1], End(t))
        ELSE UNCHANGED disk /\ task' = End(t)
  /\ UNCHANGED <<trash, up, counters, history>>

\* The error path of copy_path removes the destination, whoever made it.
CopyFails(t) ==
  /\ disk' = Removed(task[t].to)
  /\ task' = Carried(task[t].to, Nothing, End(t))

\* copy2 overwrites a file; copytree lists the source and makes the destination.
Copy(t) ==
  /\ At(t, "copy")
  /\ LET p == task[t].from  q == task[t].to
     IN \/ /\ Stored(p) /\ There(q)
           /\ disk' = [disk EXCEPT ![q] = disk[p]] /\ task' = End(t)
        \/ /\ disk[p] = Folder /\ disk[q] = Nothing
           /\ disk' = [disk EXCEPT ![q] = Folder]
           /\ task' = [task EXCEPT ![t].step = "fill",
                                   ![t].rest = {x \in Name : Stored(<<p[1], x>>)}]
        \/ /\ disk[p] = Nothing \/ ~There(q) \/ (disk[p] = Folder /\ disk[q] # Nothing)
           /\ CopyFails(t)
  /\ UNCHANGED <<trash, up, counters, history>>

\* One file of a copied folder.  copytree goes on after an error, and raises at
\* the end what it has collected.
Fill(t) ==
  /\ At(t, "fill")
  /\ \/ \E x \in task[t].rest :
          LET source == <<task[t].from[1], x>>  copied == Stored(source) /\ disk[task[t].to] = Folder
          IN /\ disk' = IF copied THEN [disk EXCEPT ![<<task[t].to[1], x>>] = disk[source]] ELSE disk
             /\ task' = [task EXCEPT ![t].rest = @ \ {x}, ![t].failed = @ \/ ~copied]
     \/ task[t].rest = {} /\ ~task[t].failed /\ UNCHANGED disk /\ task' = End(t)
     \/ task[t].rest = {} /\ task[t].failed /\ CopyFails(t)
  /\ UNCHANGED <<trash, up, counters, history>>
-----------------------------------------------------------------------------
(* Folders, edits and deletions *)

MakeFolder(t) ==
  /\ At(t, "mkdir")
  /\ disk' = IF disk[task[t].to] = Nothing THEN [disk EXCEPT ![task[t].to] = Folder] ELSE disk
  /\ task' = End(t)
  /\ UNCHANGED <<trash, up, counters, history>>

\* archive_path: one rename into the trash, under a name of its own.
Trash(t) ==
  /\ At(t, "trash")
  /\ LET p == task[t].from
     IN /\ trash' = trash \cup ({disk[r] : r \in Under(p)} \cap Content)
        /\ disk' = Removed(p)
        /\ task' = Carried(p, Nothing, End(t))
  /\ UNCHANGED <<up, counters, history>>

Read(t) ==
  /\ At(t, "read")
  /\ task' = IF Stored(task[t].from) THEN Goto(t, "write") ELSE End(t)
  /\ UNCHANGED <<disk, trash, up, counters, history>>

\* _atomic_write replaces the file, and makes it again if it is gone.
Write(t) ==
  /\ At(t, "write")
  /\ LET p == task[t].from  new == <<task[t].n, 1>>
     IN IF There(p) THEN /\ disk' = [disk EXCEPT ![p] = new]
                         /\ kept' = kept \cup {new} /\ edited' = edited \cup {disk[p]}
        ELSE UNCHANGED <<disk, kept, edited>>
  /\ task' = End(t)
  /\ UNCHANGED <<trash, up, counters, contested>>
-----------------------------------------------------------------------------
(* Uploads and extraction *)

\* The files that a request has made so far are unlinked by their names.
Done(t) == {task[t].files[k] : k \in 1 .. task[t].i}
Undone(t) == [p \in Path |-> IF p \in Done(t) THEN Nothing ELSE disk[p]]

Acknowledge(t) == kept' = kept \cup {<<task[t].n, k>> : k \in DOMAIN task[t].files}

\* store_upload up to its first await: the folder and a temporary file in it.
Store(t) ==
  /\ At(t, "store")
  /\ LET a == task[t]
         p == a.files[a.i + 1]
     IN IF disk[p] # Nothing THEN disk' = Undone(t) /\ task' = End(t)
        ELSE /\ disk' = [disk EXCEPT ![Up(p)] = Folder]
             /\ task' = [task EXCEPT ![t].step = "replace", ![t].temp = p[1]]
  /\ UNCHANGED <<trash, up, counters, history>>

\* ... and from there: the temporary file becomes the file, or is missing.
Replace(t) ==
  /\ At(t, "replace")
  /\ LET a == task[t]
         p == a.files[a.i + 1]
         last == a.i + 1 = Len(a.files)
     IN IF a.temp # p[1] THEN disk' = Undone(t) /\ task' = End(t) /\ UNCHANGED kept
        ELSE /\ disk' = [disk EXCEPT ![p] = <<a.n, a.i + 1>>]
             /\ task' = IF last THEN End(t)
                        ELSE [task EXCEPT ![t].step = "guard", ![t].i = @ + 1, ![t].temp = Nothing]
             /\ IF last THEN Acknowledge(t) ELSE UNCHANGED kept
  /\ UNCHANGED <<trash, up, counters, edited, contested>>

\* extract_zip refuses an archive that would overwrite something.
Plan(t) ==
  /\ At(t, "plan")
  /\ task' = IF \E p \in Listed(task[t]) : disk[p] # Nothing THEN End(t) ELSE Goto(t, "unzip")
  /\ UNCHANGED <<disk, trash, up, counters, history>>

\* The finally clause: the files recorded, then the folder if it was made here
\* and is empty.
RolledBack(t) ==
  LET folder == task[t].to
  IN IF task[t].mine /\ Empty(Undone(t), folder[1]) THEN [Undone(t) EXCEPT ![folder] = Nothing] ELSE Undone(t)

\* One entry: its folder is made when it is missing, the file exclusively.
Unzip(t) ==
  /\ At(t, "unzip")
  /\ LET a == task[t]
         p == a.files[a.i + 1]
     IN \/ /\ a.i = Len(a.files)
           /\ Acknowledge(t) /\ task' = End(t) /\ UNCHANGED disk
        \/ /\ a.i < Len(a.files) /\ disk[p] = Nothing
           /\ disk' = [disk EXCEPT ![a.to] = Folder, ![p] = <<a.n, a.i + 1>>]
           /\ task' = [task EXCEPT ![t].i = @ + 1, ![t].mine = @ \/ disk[a.to] = Nothing]
           /\ UNCHANGED kept
        \/ /\ a.i < Len(a.files) /\ disk[p] # Nothing
           /\ disk' = RolledBack(t) /\ task' = End(t) /\ UNCHANGED kept
  /\ UNCHANGED <<trash, up, counters, edited, contested>>
-----------------------------------------------------------------------------
(* Failures, and the server *)

\* The disk is full, an upload too large, or an entry of an archive damaged: the
\* part of the entry that was written is not among the files recorded.
DiskFails(t) ==
  /\ faults < MaxFaults /\ faults' = faults + 1
  /\ \/ At(t, "replace") /\ disk' = Undone(t) /\ task' = End(t)
     \/ At(t, "write") /\ UNCHANGED disk /\ task' = End(t)
     \/ At(t, "copy") /\ CopyFails(t)
     \/ /\ At(t, "fill")
        /\ \E x \in task[t].rest :
             /\ disk[task[t].to] = Folder
             /\ disk' = [disk EXCEPT ![<<task[t].to[1], x>>] = <<task[t].n, 0>>]
             /\ task' = [task EXCEPT ![t].rest = @ \ {x}, ![t].failed = TRUE]
     \/ /\ At(t, "unzip") /\ task[t].i < Len(task[t].files)
        /\ LET p == task[t].files[task[t].i + 1]
           IN disk[p] = Nothing /\ disk' = [Undone(t) EXCEPT ![task[t].to] = Folder, ![p] = <<task[t].n, 0>>]
        /\ task' = End(t)
  /\ UNCHANGED <<trash, up, requests, starts, history>>

PanelStops ==
  /\ faults < MaxFaults /\ faults' = faults + 1
  /\ \E t \in Client : Active(t)
  /\ task' = [t \in Client |-> NoTask]
  /\ UNCHANGED <<disk, trash, up, requests, starts, history>>

\* A request that judged a stopped server is late once the server starts.
ServerStarts ==
  /\ ~up /\ up' = TRUE
  /\ IF \E t \in Client : Active(t) THEN starts < MaxStarts /\ starts' = starts + 1 ELSE UNCHANGED starts
  /\ task' = [t \in Client |->
               [task[t] EXCEPT !.late = Active(t) /\ (@ \/ ~At(t, "guard") \/ task[t].i > 0)]]
  /\ UNCHANGED <<disk, trash, requests, faults, history>>

ServerStops == up /\ up' = FALSE /\ UNCHANGED <<disk, trash, task, counters, history>>

Step(t) ==
  \/ Guard(t) \/ GuardSource(t) \/ Check(t) \/ Rename(t) \/ Copy(t) \/ Fill(t)
  \/ MakeFolder(t) \/ Trash(t) \/ Read(t) \/ Write(t)
  \/ Store(t) \/ Replace(t) \/ Plan(t) \/ Unzip(t) \/ DiskFails(t)

Next ==
  \/ \E t \in Client : (\E a \in Request : Begin(t, a)) \/ Step(t)
  \/ PanelStops \/ ServerStarts \/ ServerStops

Spec == Init /\ [][Next]_vars
-----------------------------------------------------------------------------
(* Properties *)

\* The directory is a tree: folders above, and no file without its folder.
TypeOK ==
  /\ disk \in [Path -> Item] /\ trash \subseteq Content /\ kept \subseteq Content /\ edited \subseteq Item
  /\ \A p \in Path : (disk[p] = Folder => IsFolder(p)) /\ (Stored(p) => ~IsFolder(p) /\ There(p))
  /\ \A t \in Client : task[t].op \in Operation \cup {"none"} /\ task[t].i <= Len(task[t].files)

\* What a user was told is stored stays in the directory or in its trash,
\* through every failure and crash of other requests, as long as no two
\* requests write to the same place at once.
NothingLost == contested \/ kept \ edited \subseteq Contents(disk) \cup trash

\* file_service.py:221 and 346 ("already exists"): no request replaces or
\* removes what another has stored.
NothingOverwritten == kept \ edited \subseteq Contents(disk) \cup trash

InUse(p) ==
  disk[p] \in kept /\ (p[2] \in Live \/ p[1] = World \/ (p[1] = Plugins /\ p[2] \in Jar))

\* A file that a running server uses is changed only by a request that judged
\* a stopped server, or that was asked for the folder above the file, as long
\* as no two requests write to the same place at once.
LiveFilesKept ==
  [][\A p \in Path : ~contested' /\ up /\ InUse(p) /\ disk'[p] # disk[p] =>
       \E t \in Client : Active(t) /\ (task[t].late \/ Up(p) \in {task[t].from, task[t].to})]_vars

\* file_service.py:36-38: "Live world data, databases, logs and loaded plugin
\* JARs are kept immutable until the server stops."
LiveFilesImmutable ==
  [][up /\ (\A t \in Client : ~task[t].late) => \A p \in Path : InUse(p) => disk'[p] = disk[p]]_vars

\* file_service.py:319: incomplete extraction is rolled back; what is left of
\* it would be a file with part of its content.
ExtractionRolledBack == \A p \in Path : Stored(p) => disk[p][2] # 0 \/ disk[p][1] = 0
=============================================================================
