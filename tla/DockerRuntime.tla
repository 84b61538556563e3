---------------------------- MODULE DockerRuntime ----------------------------
(***************************************************************************)
(* The DockerRuntime class of talos_panel/runtime.py: start, stop,         *)
(* restart and remove as the sequences of Docker API calls they make, each *)
(* of which other callers may slip between.  Every managed server has one  *)
(* container name (talos-mc-<id>) and one data directory.                  *)
(*                                                                         *)
(* Whether the labels of a container match the profile stored in the       *)
(* database is left open (\E matches in Inspect): settings may be edited   *)
(* at any time.  A module that extends this one creates the calls and      *)
(* consumes their results.                                                 *)
(***************************************************************************)
CONSTANTS Server, Client

VARIABLES
  container,   \* what the Docker daemon reports for each server's container
  directory,   \* the servers that have a live data directory
  call         \* the runtime call each client is executing, or Idle

runtimeVars == <<container, directory, call>>

ContainerState == {"not_created", "created", "running", "exited"}

Idle == [pc |-> "idle"]

StartSteps == {"prepare", "inspect", "launch", "replace", "create"}
StopSteps == {"stop_inspect", "send", "waiting"}
RemoveSteps == {"remove_inspect", "remove", "archive"}
DockerSteps == StartSteps \cup StopSteps \cup RemoveSteps
Results == {"started", "stopped", "removed", "failed"}

Busy(c) == call[c].pc # "idle"
WorksOn(c, s) == Busy(c) /\ call[c].server = s

RuntimeInit ==
  /\ container = [s \in Server |-> "not_created"]
  /\ directory = {}
  /\ call = [c \in Client |-> Idle]

GoTo(c, pc) == call' = [call EXCEPT ![c].pc = pc]

\* The daemon releases every stop() that waits for the container of s.
Released(s) ==
  [c \in Client |-> IF call[c].pc = "waiting" /\ call[c].server = s
                    THEN [call[c] EXCEPT !.pc = "stopped"]
                    ELSE call[c]]
-----------------------------------------------------------------------------
(* start(): prepare_directory, then _start_sync *)

Prepare(c) ==
  /\ call[c].pc = "prepare"
  /\ directory' = directory \cup {call[c].server}
  /\ GoTo(c, "inspect")
  /\ UNCHANGED container

\* A running container is taken as it is; a stopped one is started when its
\* labels match and replaced when they do not.
Inspect(c) ==
  /\ call[c].pc = "inspect"
  /\ LET state == container[call[c].server] IN
       \/ state = "not_created" /\ GoTo(c, "create")
       \/ state = "running" /\ GoTo(c, "started")
       \/ /\ state \in {"created", "exited"}
          /\ \E matches \in BOOLEAN : GoTo(c, IF matches THEN "launch" ELSE "replace")
  /\ UNCHANGED <<container, directory>>

\* container.start(): NotFound falls through to containers.run; starting a
\* running container does nothing.
Launch(c) ==
  /\ call[c].pc = "launch"
  /\ IF container[call[c].server] = "not_created"
       THEN GoTo(c, "create") /\ UNCHANGED container
       ELSE /\ container' = [container EXCEPT ![call[c].server] = "running"]
            /\ GoTo(c, "started")
  /\ UNCHANGED directory

\* container.remove() without force: the daemon refuses a running container.
Replace(c) ==
  /\ call[c].pc = "replace"
  /\ IF container[call[c].server] = "running"
       THEN GoTo(c, "failed") /\ UNCHANGED container
       ELSE /\ container' = [container EXCEPT ![call[c].server] = "not_created"]
            /\ GoTo(c, "create")
  /\ UNCHANGED directory

\* containers.run(): the name may be taken by now; a container whose port is
\* busy stays behind in state "created".
Create(c) ==
  /\ call[c].pc = "create"
  /\ IF container[call[c].server] # "not_created"
       THEN GoTo(c, "failed") /\ UNCHANGED container
       ELSE \/ /\ container' = [container EXCEPT ![call[c].server] = "running"]
               /\ GoTo(c, "started")
            \/ /\ container' = [container EXCEPT ![call[c].server] = "created"]
               /\ GoTo(c, "failed")
  /\ UNCHANGED directory
-----------------------------------------------------------------------------
(* stop() and restart() *)

StopInspect(c) ==
  /\ call[c].pc = "stop_inspect"
  /\ GoTo(c, IF container[call[c].server] = "running" THEN "send" ELSE "stopped")
  /\ UNCHANGED <<container, directory>>

\* Mutant: the command is sent without looking again.
SendStopBlindly(c) ==
  /\ call[c].pc = "send"
  /\ GoTo(c, "waiting")
  /\ UNCHANGED <<container, directory>>

\* send_command(server, "stop") looks at the container again and raises
\* RuntimeError when it no longer runs.
SendStop(c) ==
  /\ call[c].pc = "send"
  /\ GoTo(c, IF container[call[c].server] = "running" THEN "waiting" ELSE "failed")
  /\ UNCHANGED <<container, directory>>

\* The container stops: the Minecraft process crashed, was killed, or obeyed
\* the stop command.
ContainerExits(s) ==
  /\ container[s] = "running"
  /\ container' = [container EXCEPT ![s] = "exited"]
  /\ call' = Released(s)
  /\ UNCHANGED directory

\* Mutant: the wait for the container has no end.
StopTimeoutNever(c) ==
  /\ call[c].pc = "waiting" /\ container[call[c].server] # "running"
  /\ GoTo(c, "stopped")
  /\ UNCHANGED <<container, directory>>

\* container.wait(timeout=30) gave up and container.stop(timeout=10) killed it.
StopTimeout(c) ==
  /\ call[c].pc = "waiting"
  /\ container' = [container EXCEPT ![call[c].server] = "exited"]
  /\ call' = Released(call[c].server)
  /\ UNCHANGED directory

RestartGoesOn(c) ==
  /\ call[c].pc = "stopped"
  /\ call[c].op = "restart"
  /\ GoTo(c, "prepare")
  /\ UNCHANGED <<container, directory>>
-----------------------------------------------------------------------------
(* remove(), and archive_server_directory that every deletion runs after it *)

\* Mutant: a container that was created and never started is left alone.
RemoveInspectSkipsCreated(c) ==
  /\ call[c].pc = "remove_inspect" /\ container[call[c].server] # "running"
  /\ GoTo(c, IF container[call[c].server] = "exited" THEN "remove" ELSE "archive")
  /\ UNCHANGED <<container, directory>>

RemoveInspect(c) ==
  /\ call[c].pc = "remove_inspect"
  /\ LET s == call[c].server IN
       \/ /\ container[s] = "not_created"
          /\ GoTo(c, "archive") /\ UNCHANGED container
       \/ /\ container[s] = "running"
          /\ container' = [container EXCEPT ![s] = "exited"]
          /\ call' = [d \in Client |-> IF d = c THEN [call[c] EXCEPT !.pc = "remove"]
                                                ELSE Released(s)[d]]
       \/ /\ container[s] \in {"created", "exited"}
          /\ GoTo(c, "remove") /\ UNCHANGED container
  /\ UNCHANGED directory

\* NotFound is caught only around the first lookup.
Remove(c) ==
  /\ call[c].pc = "remove"
  /\ IF container[call[c].server] \in {"running", "not_created"}
       THEN GoTo(c, "failed") /\ UNCHANGED container
       ELSE /\ container' = [container EXCEPT ![call[c].server] = "not_created"]
            /\ GoTo(c, "archive")
  /\ UNCHANGED directory

Archive(c) ==
  /\ call[c].pc = "archive"
  /\ directory' = directory \ {call[c].server}
  /\ GoTo(c, "removed")
  /\ UNCHANGED container

\* Any Docker or file system call may raise.
CallFails(c) ==
  /\ call[c].pc \in DockerSteps
  /\ GoTo(c, "failed")
  /\ UNCHANGED <<container, directory>>

StepSucceeds(c) ==
  \/ Prepare(c) \/ Inspect(c) \/ Launch(c) \/ Replace(c) \/ Create(c)
  \/ StopInspect(c) \/ SendStop(c) \/ StopTimeout(c) \/ RestartGoesOn(c)
  \/ RemoveInspect(c) \/ Remove(c) \/ Archive(c)

RuntimeNext ==
  \/ \E c \in Client : StepSucceeds(c) \/ CallFails(c)
  \/ \E s \in Server : ContainerExits(s)
=============================================================================
