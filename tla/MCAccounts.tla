------------------------------ MODULE MCAccounts ------------------------------
(* The instances of Accounts that TLC checks. *)
EXTENDS Accounts, TLC
CONSTANTS u1, u2, s1, s2, c1, c2

TwoUsers == {u1, u2}
TwoSessions == {s1, s2}
TwoClients == {c1, c2}
Symmetric == Permutations(TwoUsers) \cup Permutations(TwoSessions) \cup Permutations(TwoClients)
=============================================================================
