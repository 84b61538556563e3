-------------------------- MODULE MCServerLifecycle --------------------------
(* The instances of ServerLifecycle that TLC checks. *)
EXTENDS ServerLifecycle, TLC
CONSTANTS s1, r1, r2, worker

Servers1 == {s1}
Clients1 == {r1, worker}
Clients2 == {r1, r2, worker}
AllHandlers == {"start", "restart", "stop", "stop_ui", "delete"}
StartStopDelete == {"start", "stop_ui", "delete"}
RequestSymmetry == Permutations({r1, r2})
=============================================================================
