----------------------------- MODULE ServerOrders -----------------------------
(***************************************************************************)
(* What the panel promises its operator about stops and deletions.  A stop *)
(* that was carried out is in force until somebody asks for something else *)
(* about that server, and until then nothing happens to it; a deletion is  *)
(* in force for ever.                                                      *)
(***************************************************************************)
CONSTANT Server

VARIABLES
  known,    \* the servers that the panel lists
  wanted,   \* those that it means to keep running
  state,    \* what there is of each: nothing, something that is down, or up
  order     \* the order in force for each: open, stopped or deleted
vars == <<known, wanted, state, order>>

State == {"none", "down", "up"}

Init ==
  /\ known = Server /\ wanted = {}
  /\ state = [s \in Server |-> "none"]
  /\ order = [s \in Server |-> "open"]

\* Somebody asks for something: to stop the server, perhaps.
Ask(s) ==
  /\ s \in known
  /\ order' = [order EXCEPT ![s] = "open"]
  /\ wanted' \in {wanted, wanted \ {s}}
  /\ UNCHANGED <<known, state>>

\* Handlers, crash recovery, Docker and the game do their work, ...
Work(s) ==
  /\ order[s] = "open"
  /\ \E new \in State : state' = [state EXCEPT ![s] = new]
  /\ UNCHANGED <<known, wanted, order>>

\* ... a handler decides at its end whether the server is to run, ...
Decide(s) ==
  /\ order[s] = "open" /\ s \in known
  /\ wanted' \in {wanted \cup {s}, wanted \ {s}}
  /\ UNCHANGED <<known, state, order>>

\* ... a stop ends, ...
Stopped(s) ==
  /\ order[s] = "open" /\ s \in known /\ state[s] # "up"
  /\ order' = [order EXCEPT ![s] = "stopped"]
  /\ wanted' = wanted \ {s}
  /\ UNCHANGED <<known, state>>

\* ... and a deletion: with nothing left, unless others worked on the server.
Deleted(s) ==
  /\ order[s] = "open"
  /\ known' = known \ {s} /\ wanted' = wanted \ {s}
  /\ \/ UNCHANGED order
     \/ state[s] = "none" /\ order' = [order EXCEPT ![s] = "deleted"]
  /\ UNCHANGED state

Next == \E s \in Server : Ask(s) \/ Work(s) \/ Decide(s) \/ Stopped(s) \/ Deleted(s)

Spec == Init /\ [][Next]_vars
=============================================================================
