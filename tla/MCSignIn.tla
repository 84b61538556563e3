------------------------------ MODULE MCSignIn ------------------------------
(* The instances of SignIn that TLC checks. *)
EXTENDS SignIn, TLC
CONSTANTS c1, c2, c3

ThreeClients == {c1, c2, c3}
Symmetric == Permutations(ThreeClients)
=============================================================================
