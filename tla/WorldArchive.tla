----------------------------- MODULE WorldArchive -----------------------------
(***************************************************************************)
(* What the panel promises about a world and the backups of it.  A backup  *)
(* is the world as it was at one moment; it is never changed, only made    *)
(* and thrown away.  A restore exchanges the world for what the backup     *)
(* held, at one moment, or leaves it as it was.  And a world is opened by  *)
(* a version that is not older than the one that wrote it.                 *)
(*                                                                         *)
(* Nothing is promised about a world that somebody started or stopped at   *)
(* the wrong moment; and each fault may lose it once.                      *)
(***************************************************************************)
EXTENDS Naturals

CONSTANTS Version, First, Backup, Task, Missing

VARIABLES
  world,      \* the world: who wrote it last, and is it whole?
  archive,    \* the backups
  copy,       \* what each task has unpacked
  faults, disturbed
vars == <<world, archive, copy, faults, disturbed>>

Content == [version : Version, whole : BOOLEAN]
Nothing == [t \in Task |-> Missing]

Init ==
  /\ world = [version |-> First, whole |-> TRUE]
  /\ archive = [b \in Backup |-> Missing] /\ copy = Nothing
  /\ faults = 0 /\ disturbed = FALSE

\* The server opens its world, or makes one.
Open ==
  /\ ~disturbed
  /\ \E v \in Version :
       /\ faults = 0 => world # Missing /\ world.version <= v
       /\ world' = [version |-> v, whole |-> world = Missing \/ world.whole]
  /\ UNCHANGED <<archive, copy, faults, disturbed>>

Archive(b) ==
  /\ archive[b] = Missing
  /\ \E content \in IF disturbed THEN Content ELSE {world} :
       archive' = [archive EXCEPT ![b] = content]
  /\ UNCHANGED <<world, copy, faults, disturbed>>

Discard(doomed) ==
  /\ archive' = [b \in Backup |-> IF b \in doomed THEN Missing ELSE archive[b]]
  /\ UNCHANGED <<world, copy, faults, disturbed>>

Unpack(t, b) ==
  /\ archive[b] # Missing
  /\ copy' = [copy EXCEPT ![t] = archive[b]]
  /\ UNCHANGED <<world, archive, faults, disturbed>>

Restore(t) ==
  /\ copy[t] # Missing
  /\ world' = IF disturbed THEN world ELSE copy[t]
  /\ copy' = [copy EXCEPT ![t] = Missing]
  /\ UNCHANGED <<archive, faults, disturbed>>

GiveUp(t) ==
  /\ copy' = [copy EXCEPT ![t] = Missing]
  /\ UNCHANGED <<world, archive, faults, disturbed>>

Fault ==
  /\ faults' = faults + 1
  /\ world' \in {world, Missing} /\ copy' \in {copy, Nothing}
  /\ UNCHANGED <<archive, disturbed>>

Disturb ==
  /\ disturbed' = TRUE /\ world' = Missing
  /\ UNCHANGED <<archive, copy, faults>>

Next ==
  \/ Open \/ Fault \/ Disturb
  \/ \E doomed \in SUBSET Backup : Discard(doomed)
  \/ \E b \in Backup : Archive(b)
  \/ \E t \in Task : Restore(t) \/ GiveUp(t) \/ \E b \in Backup : Unpack(t, b)

Spec == Init /\ [][Next]_vars
=============================================================================
