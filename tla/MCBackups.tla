------------------------------ MODULE MCBackups ------------------------------
(* The instances of Backups that TLC checks. *)
EXTENDS Backups, TLC
CONSTANTS c1, c2

OneClient == {c1}
TwoClients == {c1, c2}
OneVersion == {1}
TwoVersions == {1, 2}
Symmetric == Permutations(TwoClients)
=============================================================================
