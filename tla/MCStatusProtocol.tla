-------------------------- MODULE MCStatusProtocol --------------------------
(* The instance of StatusProtocol that TLC checks. *)
EXTENDS StatusProtocol

Hosts == {<<>>, <<3>>, <<0, 1>>, <<1, 2, 3, 0>>}
Ports == {1, 6, 15}
=============================================================================
