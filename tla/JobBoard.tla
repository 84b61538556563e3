------------------------------- MODULE JobBoard -------------------------------
(***************************************************************************)
(* What the installation service promises about the jobs it accepts: each  *)
(* one is carried out once, and its outcome is final.  A job disappears    *)
(* only together with its server.                                          *)
(***************************************************************************)
CONSTANT Job

VARIABLE board   \* what the world may know of each job

Accept(j) == board[j] = "absent" /\ board' = [board EXCEPT ![j] = "accepted"]

Finish(j) ==
  /\ board[j] = "accepted"
  /\ \E outcome \in {"completed", "failed"} : board' = [board EXCEPT ![j] = outcome]

\* A deleted server takes all its jobs along.
Withdraw(js) == board' = [j \in Job |-> IF j \in js THEN "absent" ELSE board[j]]

Init == board = [j \in Job |-> "absent"]

Next ==
  \/ \E j \in Job : Accept(j) \/ Finish(j)
  \/ \E js \in SUBSET Job : Withdraw(js)

Spec == Init /\ [][Next]_board
=============================================================================
