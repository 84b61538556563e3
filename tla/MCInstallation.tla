---------------------------- MODULE MCInstallation ----------------------------
(* The instances of Installation that TLC checks. *)
EXTENDS Installation, TLC
CONSTANTS s1, s2, j1, j2, c1, c2

TwoServers == {s1, s2}
TwoJobs == {j1, j2}
TwoClients == {c1, c2}
=============================================================================
