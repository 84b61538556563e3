----------------------------- MODULE BackupStore -----------------------------
(***************************************************************************)
(* The archives of one server and its data directory (backup_service.py),  *)
(* and the Minecraft process that writes to that directory.                *)
(*                                                                         *)
(* A task is a handler or the maintenance pass at work.  It carries the    *)
(* steps that it still has to take, "todo", and the actions below take the *)
(* first of them.  A backup is numbered by the transaction that inserts    *)
(* it, which orders backups as created_at does; its number stands for the  *)
(* row's id and for the name of the file.                                  *)
(***************************************************************************)
EXTENDS Naturals, Sequences, FiniteSets

CONSTANTS
  Version,      \* the versions of Minecraft
  First,        \* the version that the server was installed with
  Client, Pass, \* the handlers at work and the maintenance pass
  Missing,      \* no file, no directory
  MaxBackups    \* bound: backups ever begun

ASSUME VersionAssumption == Version \subseteq Nat \ {0} /\ First \in Version
ASSUME BackupAssumption == MaxBackups \in Nat
ASSUME TaskAssumption == Pass \notin Client
Task == Client \cup {Pass}
Backup == 1 .. MaxBackups

VARIABLES
  root,    \* the data directory: who wrote the world last, and is it whole?
  file,    \* the archives
  server,  \* the container of the Minecraft process: is it up, does it save the
           \* world, and which version and Java was the container made with?
  task
storeVars == <<root, file, server, task>>

Content == [version : Version, whole : BOOLEAN]

ASSUME MissingAssumption == Missing \notin Content

\* name and target number the backup a task makes and the one it works on,
\* data is the content it reads, aside the directory it moved away, row the
\* versions it loaded, wanted those it will write, and doomed the backups it
\* expires.
NoVersions == [installed |-> 0, game |-> 0]
NewTask(op, steps, name, target, row, wanted) ==
  [op |-> op, todo |-> steps, name |-> name, target |-> target, data |-> Missing,
   aside |-> Missing, row |-> row, wanted |-> wanted, doomed |-> {}]
NoTask == NewTask("none", <<>>, 0, 0, NoVersions, NoVersions)

Active(t) == task[t].todo # <<>>
At(t, step) == Active(t) /\ Head(task[t].todo) = step
Goes(t, steps) == [task EXCEPT ![t] = IF steps = <<>> THEN NoTask ELSE [@ EXCEPT !.todo = steps]]
Advance(t) == Goes(t, Tail(task[t].todo))

\* What a task does after an error: a handler ends, the pass resumes saves if
\* it paused them and has no artifact to record.
Resumes(t) == \E i \in DOMAIN task[t].todo : task[t].todo[i] = "saveOn"
AfterError(t) ==
  IF t # Pass THEN [task EXCEPT ![t] = NoTask]
  ELSE [task EXCEPT ![Pass].name = 0,
          ![Pass].todo = IF Resumes(Pass) THEN <<"saveOn", "commit">> ELSE <<"commit">>]

\* A write to the directory tears the archives that are being made of it.
Tear(tasks) ==
  [t \in Task |-> IF At(t, "archived") THEN [tasks[t] EXCEPT !.data.whole = FALSE] ELSE tasks[t]]

StoreInit ==
  /\ root = [version |-> First, whole |-> TRUE]
  /\ server = [up |-> FALSE, saves |-> TRUE, container |-> [game |-> First, java |-> First]]
  /\ file = [b \in Backup |-> Missing]
  /\ task = [t \in Task |-> NoTask]
-----------------------------------------------------------------------------
(* The Minecraft process *)

\* _start_sync keeps a container whose labels fit the row, the version among
\* them, and makes another one otherwise.
Fitting(game, java) ==
  IF server.container # Missing /\ server.container.game = game
  THEN server.container ELSE [game |-> game, java |-> java]

\* start() creates a directory that is missing; the server opens the world
\* with game_version, which is what the image is told to run.
ServerStarts(game, java) ==
  /\ ~server.up
  /\ server' = [up |-> TRUE, saves |-> TRUE, container |-> Fitting(game, java)]
  /\ root' = [version |-> game, whole |-> root = Missing \/ root.whole]
  /\ task' = Tear(task)
  /\ UNCHANGED file

ServerSaves ==
  /\ server.up /\ server.saves
  /\ task' = Tear(task)
  /\ UNCHANGED <<root, file, server>>

\* A server saves the world when it stops, save-off or not.
ServerStops ==
  /\ server.up
  /\ server' = [server EXCEPT !.up = FALSE]
  /\ task' = Tear(task)
  /\ UNCHANGED <<root, file>>
-----------------------------------------------------------------------------
(* create_backup *)

ArchiveBegins(t) ==
  /\ At(t, "archive")
  /\ task' = IF root = Missing THEN AfterError(t) ELSE [Advance(t) EXCEPT ![t].data = root]
  /\ UNCHANGED <<root, file, server>>

\* os.replace gives the finished temporary file its name.
ArchiveEnds(t) ==
  /\ At(t, "archived")
  /\ file' = [file EXCEPT ![task[t].name] = task[t].data]
  /\ task' = [Advance(t) EXCEPT ![t].data = Missing]
  /\ UNCHANGED <<root, server>>

ArchiveFails(t) ==
  /\ At(t, "archived")
  /\ task' = AfterError(t)
  /\ UNCHANGED <<root, file, server>>
-----------------------------------------------------------------------------
(* restore_backup: unpack into a staging directory, move the old directory *)
(* aside, move the staging directory to its place                          *)

Unpack(t) ==
  /\ At(t, "unpack")
  /\ \/ /\ file[task[t].target] # Missing
        /\ task' = [Advance(t) EXCEPT ![t].data = file[task[t].target]]
     \/ task' = AfterError(t)   \* no file, not whole, or no space
  /\ UNCHANGED <<root, file, server>>

SwapOut(t) ==
  /\ At(t, "swapOut")
  /\ \/ /\ root' = Missing
        /\ task' = Tear([Advance(t) EXCEPT ![t].aside = root])
     \/ task' = AfterError(t) /\ UNCHANGED root
  /\ UNCHANGED <<file, server>>

\* Mutant: the old directory stays aside when the new one cannot take its place.
SwapInKeepsAside(t) ==
  /\ At(t, "swapIn")
  /\ \/ root = Missing /\ root' = task[t].data /\ task' = Advance(t)
     \/ task' = AfterError(t) /\ UNCHANGED root
  /\ UNCHANGED <<file, server>>

\* A directory that came into being meanwhile is not replaced, and not moved
\* out of the way of the old one.
SwapIn(t) ==
  /\ At(t, "swapIn")
  /\ \/ root = Missing /\ root' = task[t].data /\ task' = Advance(t)
     \/ /\ task' = AfterError(t)
        /\ root' = IF root = Missing THEN task[t].aside ELSE root
  /\ UNCHANGED <<file, server>>
-----------------------------------------------------------------------------
(* delete_backup *)

Unlink(t) ==
  /\ At(t, "unlink")
  /\ LET b == task[t].target IN
       IF file[b] = Missing
         THEN task' = AfterError(t) /\ UNCHANGED file
         ELSE task' = Advance(t) /\ file' = [file EXCEPT ![b] = Missing]
  /\ UNCHANGED <<root, server>>

StoreStep(t) ==
  \/ ArchiveBegins(t) \/ ArchiveEnds(t) \/ ArchiveFails(t)
  \/ Unpack(t) \/ SwapOut(t) \/ SwapIn(t) \/ Unlink(t)
-----------------------------------------------------------------------------
Step == {"check", "archive", "archived", "record", "fetch", "remove", "finish", "unpack",
         "swapOut", "swapIn", "unlink", "look", "note", "status", "saveOff", "flush", "saveOn",
         "retain", "commit"}
Op == {"none", "create", "update", "restore", "rollback", "delete", "page", "scheduled"}
Versions == [installed : Version \cup {0}, game : Version \cup {0}]

StoreTypeOK ==
  /\ root \in Content \cup {Missing}
  /\ file \in [Backup -> Content \cup {Missing}]
  /\ server \in [up : BOOLEAN, saves : BOOLEAN,
                 container : [game : Version, java : Version] \cup {Missing}]
  /\ task \in [Task -> [op : Op, todo : Seq(Step), name : Backup \cup {0}, target : Backup \cup {0},
                        data : Content \cup {Missing}, aside : Content \cup {Missing},
                        row : Versions, wanted : Versions,
                        doomed : SUBSET Backup]]
=============================================================================
