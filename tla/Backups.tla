------------------------------- MODULE Backups -------------------------------
(***************************************************************************)
(* The backup, restore, update and rollback handlers of web.py, the page   *)
(* that records the version it finds, and the scheduled backups of the     *)
(* maintenance pass (operations_service.py), on one server and the         *)
(* archives of BackupStore.                                                *)
(*                                                                         *)
(* java_version is written wherever installed_version is, and for that     *)
(* version, so that the latter stands for both; the versions of an         *)
(* instance are versions that need different ones.                         *)
(*                                                                         *)
(* An update keeps its recovery point, and nothing else of it matters      *)
(* here, so the state of an update is kept with that backup.               *)
(***************************************************************************)
EXTENDS BackupStore

CONSTANTS
  Retention,   \* backup_retention
  MaxFaults    \* bound: crashes of the panel and failures of its commits
ASSUME RetentionAssumption == Retention \in Nat \ {0}
ASSUME FaultAssumption == MaxFaults \in Nat

VARIABLES
  backup,     \* the rows of backups, with the state of their update
  installed,  \* installed_version of the server's row
  game,       \* its game_version
  schedule,   \* backup_enabled and next_backup_at: off, waiting or due
  made,       \* the backups begun so far
  faults,
  disturbed   \* was the directory touched under a task that relies on it?

rowVars == <<backup, installed, game, schedule, made>>
vars == <<storeVars, rowVars, faults, disturbed>>

NoRow == [installed |-> 0, game |-> 0, update |-> "none"]
Rows == {b \in Backup : backup[b] # NoRow}

Init ==
  /\ StoreInit
  /\ backup = [b \in Backup |-> NoRow]
  /\ installed = root.version /\ game = root.version
  /\ schedule = "off"
  /\ made = 0 /\ faults = 0 /\ disturbed = FALSE
-----------------------------------------------------------------------------
(* The handlers *)

CreateSteps == <<"check", "archive", "archived", "record">>
UpdateSteps == <<"check", "archive", "archived", "record", "fetch", "remove", "finish">>
RestoreSteps ==
  <<"check", "archive", "archived", "record", "unpack", "swapOut", "swapIn", "finish">>
RollbackSteps == <<"check", "unpack", "swapOut", "swapIn", "remove", "finish">>
DeleteSteps == <<"unlink", "finish">>
PageSteps == <<"look", "note">>
Steps == [create |-> CreateSteps, update |-> UpdateSteps, restore |-> RestoreSteps,
          rollback |-> RollbackSteps, delete |-> DeleteSteps, page |-> PageSteps]

\* Restores and rollbacks rely on having the directory to themselves.
Disturbs(op) ==
  \E t \in Task :
    /\ Active(t) /\ {"delete", "page"} \cap {op, task[t].op} = {}
    /\ {op, task[t].op} \cap {"restore", "rollback"} # {}

\* The versions that a task leaves in the row: a backup has those of the row
\* it was made of, an update those it came from.
Wanted(op, b, v) ==
  CASE op = "update" -> [installed |-> v, game |-> v]
    [] op = "rollback" -> [installed |-> backup[b].installed, game |-> backup[b].installed]
    [] op = "restore" -> [installed |-> backup[b].installed, game |-> backup[b].game]
    [] OTHER -> NoVersions

\* A server has opened its world with a newer version, and no page has noted it.
Unnoted == root # Missing /\ root.version > installed

\* A handler loads the server and the backup or update it is asked for.  An
\* update to an older version is accepted, and one whose recovery point names
\* an older version than its world has; they are beyond our promises.
Begin(c, op, b, v) ==
  /\ ~Active(c)
  /\ IF op \in {"restore", "rollback", "delete"} THEN b \in Rows ELSE b = 0
  /\ op = "rollback" => backup[b].update # "none"
  /\ IF op = "update" THEN v \in Version ELSE v = 0
  /\ made' = IF op \in {"create", "update", "restore"} THEN made + 1 ELSE made
  /\ made' <= MaxBackups
  /\ task' = [task EXCEPT ![c] =
                NewTask(op, Steps[op], IF made' = made THEN 0 ELSE made', b,
                        [installed |-> installed, game |-> game], Wanted(op, b, v))]
  /\ disturbed' = (disturbed \/ Disturbs(op) \/ (op = "update" /\ (v < game \/ Unnoted)))
  /\ UNCHANGED <<root, file, server, backup, installed, game, schedule, faults>>

\* _require_stopped; a rollback looks up its recovery point afterwards.
Check(t) ==
  /\ At(t, "check")
  /\ task' = IF server.up \/ (task[t].op = "rollback" /\ task[t].target \notin Rows)
             THEN AfterError(t) ELSE Advance(t)
  /\ UNCHANGED <<root, file, server, rowVars>>

\* The row of a new backup, with the update it is the recovery point of.
RowOf(t) ==
  [installed |-> task[t].row.installed, game |-> task[t].row.game,
   update |-> IF task[t].op = "update" THEN "downloading" ELSE "none"]

Record(t) ==
  /\ At(t, "record")
  /\ backup' = [backup EXCEPT ![task[t].name] = RowOf(t)]
  /\ task' = Advance(t)
  /\ UNCHANGED <<root, file, server, installed, game, schedule, made>>

\* create_server_backup removes the archive that it cannot record.
RecordRefused(t) ==
  /\ At(t, "record") /\ task[t].op = "create"
  /\ file' = [file EXCEPT ![task[t].name] = Missing]
  /\ task' = AfterError(t)
  /\ UNCHANGED <<root, server, rowVars>>

\* The state of the update of backup b; the recovery point may be gone.
Settle(b, state) ==
  backup' = IF b \in Rows THEN [backup EXCEPT ![b].update = state] ELSE backup

\* The version to install is offered, or the update fails.
Fetch(t) ==
  /\ At(t, "fetch")
  /\ \/ task' = Advance(t) /\ UNCHANGED backup
     \/ task' = AfterError(t) /\ Settle(task[t].name, "failed")
  /\ UNCHANGED <<root, file, server, installed, game, schedule, made>>

\* runtime.remove stops a server that runs, and removes the container.
Remove(t) ==
  /\ At(t, "remove")
  /\ server' = [server EXCEPT !.up = FALSE, !.container = Missing]
  /\ task' = IF server.up THEN Tear(Advance(t)) ELSE Advance(t)
  /\ UNCHANGED <<root, file, rowVars>>

\* A commit writes the columns that differ from what the task loaded.
Column(t, name, stored) ==
  LET new == task[t].wanted[name] IN IF new \in {0, task[t].row[name]} THEN stored ELSE new

\* Mutant: the versions are written whatever was asked for.
FinishWritesAlways(t) ==
  /\ At(t, "finish")
  /\ installed' = task[t].wanted.installed /\ game' = task[t].wanted.game
  /\ backup' = IF task[t].op = "delete" THEN [backup EXCEPT ![task[t].target] = NoRow] ELSE backup
  /\ task' = [task EXCEPT ![t] = NoTask]
  /\ UNCHANGED <<root, file, server, schedule, made>>

\* The last commit of a handler.
Finish(t) ==
  /\ At(t, "finish")
  /\ installed' = Column(t, "installed", installed) /\ game' = Column(t, "game", game)
  /\ CASE task[t].op = "update" -> Settle(task[t].name, "completed")
       [] task[t].op = "rollback" -> Settle(task[t].target, "rolled_back")
       [] task[t].op = "restore" -> UNCHANGED backup
       [] task[t].op = "delete" -> backup' = [backup EXCEPT ![task[t].target] = NoRow]
  /\ task' = [task EXCEPT ![t] = NoTask]
  /\ UNCHANGED <<root, file, server, schedule, made>>

\* installed_version_from_data: the version that the image noted in the
\* directory when it last started.
Look(t) ==
  /\ At(t, "look")
  /\ task' = IF root = Missing THEN AfterError(t)
             ELSE [Advance(t) EXCEPT ![t].wanted.installed = root.version]
  /\ UNCHANGED <<root, file, server, rowVars>>

\* record_reported_version takes it for installed_version.
Note(t) ==
  /\ At(t, "note")
  /\ installed' = Column(t, "installed", installed)
  /\ task' = [task EXCEPT ![t] = NoTask]
  /\ UNCHANGED <<root, file, server, backup, game, schedule, made>>

\* update_backup_policy
SetPolicy ==
  /\ schedule' \in {"off", "waiting"}
  /\ UNCHANGED <<storeVars, backup, installed, game, made, faults, disturbed>>

TimePasses ==
  /\ schedule = "waiting" /\ schedule' = "due"
  /\ UNCHANGED <<storeVars, backup, installed, game, made, faults, disturbed>>
-----------------------------------------------------------------------------
(* _scheduled_backup *)

\* The pass has loaded the server, and a backup is due.
PassBegins ==
  /\ ~Active(Pass) /\ schedule = "due" /\ made < MaxBackups
  /\ made' = made + 1
  /\ task' = [task EXCEPT ![Pass] =
                NewTask("scheduled", <<"status">>, made + 1, 0,
                        [installed |-> installed, game |-> game], NoVersions)]
  /\ disturbed' = (disturbed \/ Disturbs("scheduled"))
  /\ UNCHANGED <<root, file, server, backup, installed, game, schedule, faults>>

\* Saves are paused while a server that runs is archived.
PausingSteps == <<"saveOff", "flush", "archive", "archived", "saveOn", "retain", "commit">>
StoppedSteps == <<"archive", "archived", "retain", "commit">>

\* Mutant: the archive is made before the saves are paused.
StatusArchivesFirst ==
  /\ At(Pass, "status")
  /\ task' = Goes(Pass, IF server.up
                        THEN <<"archive", "archived", "saveOff", "flush", "saveOn", "retain", "commit">>
                        ELSE StoppedSteps)
  /\ UNCHANGED <<root, file, server, rowVars>>

Status ==
  /\ At(Pass, "status")
  /\ task' = Goes(Pass, IF server.up THEN PausingSteps ELSE StoppedSteps)
  /\ UNCHANGED <<root, file, server, rowVars>>

\* send_command refuses a server that is not running: saves are not paused then.
SaveOff ==
  /\ At(Pass, "saveOff")
  /\ IF server.up
       THEN server' = [server EXCEPT !.saves = FALSE] /\ task' = Advance(Pass)
       ELSE UNCHANGED server /\ task' = [Goes(Pass, <<"commit">>) EXCEPT ![Pass].name = 0]
  /\ UNCHANGED <<root, file, rowVars>>

Flush ==
  /\ At(Pass, "flush")
  /\ task' = IF server.up THEN Tear(Advance(Pass)) ELSE AfterError(Pass)
  /\ UNCHANGED <<root, file, server, rowVars>>

\* Mutant: saves are resumed only after a successful archive.
SaveOnAfterSuccess ==
  /\ At(Pass, "saveOn")
  /\ server' = [server EXCEPT !.saves = @ \/ (server.up /\ task[Pass].name # 0)]
  /\ task' = Advance(Pass)
  /\ UNCHANGED <<root, file, rowVars>>

SaveOn ==
  /\ At(Pass, "saveOn")
  /\ server' = [server EXCEPT !.saves = @ \/ server.up]
  /\ task' = Advance(Pass)
  /\ UNCHANGED <<root, file, rowVars>>

\* Mutant: one backup less is kept.
ExpiredOneMore == {b \in Rows \cup {task[Pass].name} :
                     Cardinality({d \in Rows \cup {task[Pass].name} : d > b}) >= Retention - 1}

\* The backups that the newest Retention ones leave over, the new one included.
Expired == {b \in Rows \cup {task[Pass].name} :
              Cardinality({d \in Rows \cup {task[Pass].name} : d > b}) >= Retention}

\* Mutant: the rows of all expired backups go, the files of none.
RetainRowsOnly ==
  /\ At(Pass, "retain")
  /\ task' = [Advance(Pass) EXCEPT ![Pass].doomed = Expired]
  /\ UNCHANGED <<root, file, server, rowVars>>

\* Expired archives are removed; the row of one that cannot be removed stays.
Retain ==
  /\ At(Pass, "retain")
  /\ LET doomed == {b \in Expired : file[b] # Missing} IN
       /\ file' = [b \in Backup |-> IF b \in doomed THEN Missing ELSE file[b]]
       /\ task' = [Advance(Pass) EXCEPT ![Pass].doomed = doomed]
  /\ UNCHANGED <<root, server, rowVars>>

\* The one commit of the pass, after a backup or a failed attempt.
PassCommit ==
  /\ At(Pass, "commit")
  /\ backup' = [b \in Backup |->
                  IF b \in task[Pass].doomed THEN NoRow
                  ELSE IF b = task[Pass].name THEN RowOf(Pass) ELSE backup[b]]
  /\ schedule' = IF schedule = "off" THEN "off" ELSE "waiting"
  /\ task' = [task EXCEPT ![Pass] = NoTask]
  /\ UNCHANGED <<root, file, server, installed, game, made>>
-----------------------------------------------------------------------------
(* Faults that the code has no answer to *)

\* A commit or a call of Docker fails and the task ends where it is: the
\* database rolls back, the disk does not.
TaskDies(t) ==
  /\ \/ At(t, "record") /\ task[t].op # "create"
     \/ \E step \in {"remove", "finish", "note", "saveOn", "commit"} : At(t, step)
  /\ task' = [task EXCEPT ![t] = NoTask]

PanelCrashes == task' = [t \in Task |-> NoTask]

Fault ==
  /\ faults < MaxFaults
  /\ PanelCrashes \/ \E t \in Task : TaskDies(t)
  /\ faults' = faults + 1
  /\ UNCHANGED <<root, file, server, rowVars, disturbed>>
-----------------------------------------------------------------------------
HandlerStep(c) ==
  /\ \/ StoreStep(c) /\ UNCHANGED rowVars
     \/ Check(c) \/ Record(c) \/ RecordRefused(c) \/ Fetch(c) \/ Remove(c) \/ Finish(c)
     \/ Look(c) \/ Note(c)
  /\ UNCHANGED <<faults, disturbed>>
PassStep ==
  /\ \/ StoreStep(Pass) /\ UNCHANGED rowVars
     \/ Status \/ SaveOff \/ Flush \/ SaveOn \/ Retain \/ PassCommit
  /\ UNCHANGED <<faults, disturbed>>

\* Starts and stops of the server disturb every task but a deletion.
Power ==
  /\ ServerStarts(game, installed) \/ ServerStops
  /\ disturbed' = (disturbed \/ \E t \in Task : Active(t) /\ task[t].op # "delete")
  /\ UNCHANGED <<rowVars, faults>>
Save == ServerSaves /\ UNCHANGED <<rowVars, faults, disturbed>>

Next ==
  \/ \E c \in Client, op \in Op \ {"none", "scheduled"}, b \in Backup \cup {0}, v \in Version \cup {0} :
       Begin(c, op, b, v)
  \/ \E c \in Client : HandlerStep(c)
  \/ SetPolicy \/ TimePasses \/ PassBegins \/ PassStep
  \/ Power \/ Save \/ Fault

Spec == Init /\ [][Next]_vars
-----------------------------------------------------------------------------
\* Every variable has its type.
TypeOK ==
  /\ StoreTypeOK
  /\ backup \in [Backup -> [installed : Version \cup {0}, game : Version \cup {0},
                            update : {"none", "downloading", "completed", "failed", "rolled_back"}]]
  /\ installed \in Version /\ game \in Version
  /\ schedule \in {"off", "waiting", "due"}
  /\ made \in 0 .. MaxBackups /\ faults \in 0 .. MaxFaults /\ disturbed \in BOOLEAN

AtRest == \A t \in Task : ~Active(t)
Stored == {b \in Backup : file[b] # Missing}

\* Every backup that is listed has its file and every file is listed, however
\* manual backups, deletions, restores, updates and the retention of scheduled
\* backups overlap; and every update has succeeded or failed.
FilesAndRowsAgree ==
  AtRest /\ faults = 0 =>
    Stored = Rows /\ \A b \in Rows : backup[b].update # "downloading"

\* Retention never takes the last archive there is (existing[backup_retention:]
\* counts from the newest), unless somebody deletes one at the same time.
Deleting == \E c \in Client : Active(c) /\ task[c].op = "delete"
LastCopyKept ==
  [][PassStep /\ faults = 0 /\ Stored # {} /\ ~Deleting => Stored' # {}]_vars

\* Pausing saves does its work: an archive of a server that neither stopped
\* nor started meanwhile is whole, also when the server runs all the time.
ArchivesWhole == ~disturbed => \A b \in Stored : file[b].whole

\* A world is never older software's than the one that wrote it last: restores,
\* updates and rollbacks leave a server whose version can open its world, and
\* so do the failures they handle.
Opens == root # Missing /\ root.whole /\ root.version <= game
NoDowngrade == AtRest /\ ~disturbed /\ faults = 0 => Opens

\* Saves are on again after each scheduled backup, whatever failed in it and
\* whatever happened to the server meanwhile (the finally clause of
\* _scheduled_backup), unless the panel dies or the resuming itself fails.
Paused == server.up /\ ~server.saves
SavesResume == Paused => Active(Pass) \/ faults > 0

\* Archives are snapshots and restores exchange worlds at one moment, although
\* the one reads the directory and the other renames it in several steps: while
\* a restore has moved the directory away, the world is what lies aside.
Exchanging(t) == At(t, "swapIn")
Promise ==
  INSTANCE WorldArchive WITH
    world <- IF disturbed THEN Missing
             ELSE IF \E t \in Task : Exchanging(t) THEN task[CHOOSE t \in Task : Exchanging(t)].aside
             ELSE root,
    archive <- file,
    copy <- [t \in Task |-> IF At(t, "swapOut") \/ Exchanging(t) THEN task[t].data ELSE Missing]
SnapshotsKept == Promise!Spec
-----------------------------------------------------------------------------
(* What the documents say, and the code does not do *)

\* "briefly pausing world saves" (i18n.py)
PausesAreBrief == Paused => Active(Pass)

\* A server is stopped while a handler archives or replaces its directory, as
\* the handlers demand (_require_stopped).
StoppedThroughout ==
  \A c \in Client, step \in {"archived", "swapOut", "swapIn"} : At(c, step) => ~server.up

\* "automatically select the required Java version" (README): a server runs
\* with the Java of the version it runs, also after an update.
JavaFits == server.up /\ ~disturbed => server.container.java = server.container.game

\* A completed update can be rolled back (README).
RecoveryPointsKept ==
  [][\A b \in Backup : backup[b].update = "completed" =>
       backup'[b] # NoRow \/ \E c \in Client : task[c].op = "delete"]_vars
=============================================================================
