----------------------------- MODULE MCSettings -----------------------------
(* The instances of Settings that TLC checks. *)
EXTENDS Settings, TLC
CONSTANTS h1, h2, v1, v2

TwoHandlers == {h1, h2}
Values == {v1, v2}
Symmetric == Permutations(TwoHandlers) \cup Permutations(Values)
Ports == 1 .. 3      \* two free ones, and one of another server
TakenPorts == {3}
=============================================================================
