------------------------------- MODULE Accounts -------------------------------
(***************************************************************************)
(* User accounts and their sessions: the first administrator, logins, the  *)
(* middleware that identifies requests, and the handlers that change other *)
(* accounts and end sessions (auth.py, auth_web.py).                       *)
(*                                                                         *)
(* A handler reads in one step and commits in another; what it read may    *)
(* have changed in between.  A password is a number, and a login is one    *)
(* whose factors were right; second factors are modelled in SignIn, and    *)
(* the handlers that change them are seen here through the sessions that   *)
(* they end.                                                               *)
(***************************************************************************)
EXTENDS Naturals, FiniteSets

CONSTANTS
  User,      \* ids of accounts, each used once
  Session,   \* ids of sessions, each used once
  Client,    \* slots in which requests run
  MaxPassword, \* bound: changes of a password
  Nobody     \* no user, no session
ASSUME NobodyAssumption == Nobody \notin User \cup Session
ASSUME PasswordAssumption == MaxPassword \in Nat

VARIABLES
  user, session, request,
  crossed,   \* accounts that were being closed to somebody who was logging in
  crowded    \* were two accounts ever being removed at the same time?
vars == <<user, session, request, crossed, crowded>>

Role == {"admin", "user"}
Unborn == [state |-> "unborn", role |-> "user", password |-> 0]
Unused == [user |-> Nobody, state |-> "unused", password |-> 0]
Closed == [user |-> Nobody, state |-> "ended", password |-> 0]  \* revoked, expired or deleted

\* password is the one that a login was verified with or a change has read.
NoRequest == [op |-> "none", pc |-> "idle", actor |-> Nobody, own |-> Nobody,
              target |-> Nobody, ends |-> {}, password |-> 0]
NewRequest(op, pc, target) ==
  [op |-> op, pc |-> pc, actor |-> Nobody, own |-> Nobody, target |-> target, ends |-> {},
   password |-> user[target].password]
NewUser(role) == [state |-> "active", role |-> role, password |-> 0]
NewSession(u, password) == [user |-> u, state |-> "open", password |-> password]

Exists(u) == user[u].state \in {"active", "disabled"}
Users == {u \in User : Exists(u)}
Admins == {u \in Users : user[u].role = "admin"}
ActiveAdmins == {u \in Admins : user[u].state = "active"}
Open(s) == session[s].state = "open"
OpenSessions(u) == {s \in Session : Open(s) /\ session[s].user = u}
Ended(ss) == [s \in Session |-> IF s \in ss THEN Closed ELSE session[s]]
Done(c) == request' = [request EXCEPT ![c] = NoRequest]

Init ==
  /\ user = [u \in User |-> Unborn]
  /\ session = [s \in Session |-> Unused]
  /\ request = [c \in Client |-> NoRequest]
  /\ crossed = {} /\ crowded = FALSE
-----------------------------------------------------------------------------
(* The first administrator, and logins *)

\* setup_admin counts and inserts under an advisory lock, then logs in.
Setup(c, u) ==
  /\ request[c] = NoRequest /\ user[u] = Unborn /\ Users = {}
  /\ user' = [user EXCEPT ![u] = NewUser("admin")]
  /\ request' = [request EXCEPT ![c] = NewRequest("setup", "session", u)]
  /\ UNCHANGED <<session, crossed, crowded>>

\* What closes an account to those who could log in to it.
Closing == {"disable", "changePassword"}
BeingClosed(u) == \E c \in Client : request[c].op \in Closing /\ request[c].target = u

\* The credentials of an active account are right.
Login(c, u) ==
  /\ request[c] = NoRequest /\ user[u].state = "active"
  /\ request' = [request EXCEPT ![c] = NewRequest("login", "session", u)]
  /\ crossed' = IF BeingClosed(u) THEN crossed \cup {u} ELSE crossed
  /\ UNCHANGED <<user, session, crowded>>

\* Mutant: sessions have no foreign key.
CreateSessionAnyway(c, s) ==
  /\ request[c].pc = "session" /\ session[s] = Unused
  /\ session' = [session EXCEPT ![s] = NewSession(request[c].target, request[c].password)]
  /\ Done(c)
  /\ UNCHANGED <<user, crossed, crowded>>

\* create_session, in a transaction of its own; it fails for a deleted user.
CreateSession(c, s) ==
  /\ request[c].pc = "session" /\ session[s] = Unused
  /\ session' = IF Exists(request[c].target)
                THEN [session EXCEPT ![s] = NewSession(request[c].target, request[c].password)]
                ELSE session
  /\ Done(c)
  /\ UNCHANGED <<user, crossed, crowded>>
-----------------------------------------------------------------------------
(* load_identity, run by the middleware before every handler *)

SelfOps == {"logout", "revokeOwn", "changePassword", "secure"}
AdminOps == {"create", "enable", "disable", "delete", "revoke", "resetFactor"}
Removals == {"disable", "delete"}

\* secure is update_two_factor with the action enable, revoke is
\* revoke_user_sessions and resetFactor is reset_user_two_factor.
Identify(c, s, op, target) ==
  LET actor == session[s].user IN
    /\ request[c] = NoRequest /\ Open(s)
    /\ user[actor].state = "active"
    /\ IF op \in SelfOps THEN target = actor
       ELSE user[actor].role = "admin" /\ IF op = "create" THEN user[target] = Unborn ELSE user[target] # Unborn
    /\ request' = [request EXCEPT ![c] = [op |-> op, pc |-> "look", actor |-> actor, own |-> s,
                                          target |-> target, ends |-> {}, password |-> 0]]
    /\ crossed' = IF /\ op \in Closing
                     /\ \E d \in Client : request[d].pc = "session" /\ request[d].target = target
                  THEN crossed \cup {target} ELSE crossed
    /\ crowded' = (crowded \/ (op \in Removals /\ \E d \in Client : request[d].op \in Removals))
    /\ UNCHANGED <<user, session>>

\* A session expires, or its next request comes too late and revokes it.
SessionTimesOut(s) ==
  /\ Open(s)
  /\ session' = Ended({s})
  /\ UNCHANGED <<user, request, crossed, crowded>>
-----------------------------------------------------------------------------
(* The handlers: what they refuse, and what they commit *)

\* The user is gone.
Gone(r) == r.op \in {"enable", "disable", "delete", "resetFactor"} /\ ~Exists(r.target)

\* Mutant: delete_user lets administrators delete themselves.
SelfLess(r) == r.op \in {"disable", "resetFactor"} /\ r.target = r.actor

Self(r) == r.op \in {"disable", "delete", "resetFactor"} /\ r.target = r.actor

LastActive(r) == r.op = "disable" /\ r.target \in ActiveAdmins /\ Cardinality(ActiveAdmins) <= 1

\* A disabled administrator counts when one is deleted.
LastAdmin(r) == r.op = "delete" /\ r.target \in Admins /\ Cardinality(Admins) <= 1

Refused(r) == Gone(r) \/ Self(r) \/ LastActive(r) \/ LastAdmin(r)

Others(r) == OpenSessions(r.actor) \ {r.own}

\* Mutant: an account is disabled without ending its sessions.
DisableEndsNothing(r) == {}

DisableEnds(r) == OpenSessions(r.target)

PasswordEnds(r) == Others(r)

RevokeEnds(r) == OpenSessions(r.target)
ResetEnds(r) == OpenSessions(r.target)
SecureEnds(r) == Others(r)
LogoutEnds(r) == {r.own}

\* The sessions a handler loads in order to end them.
ToEnd(r) ==
  CASE r.op = "disable" -> {DisableEnds(r)}
    [] r.op = "changePassword" -> {PasswordEnds(r)}
    [] r.op = "revoke" -> {RevokeEnds(r)}
    [] r.op = "resetFactor" -> {ResetEnds(r)}
    [] r.op = "secure" -> {SecureEnds(r)}
    [] r.op = "logout" -> {LogoutEnds(r)}
    [] r.op = "revokeOwn" -> {{s} : s \in Others(r)}   \* one of its own, as the form says
    [] OTHER -> {{}}

\* Loading the sessions flushes the change of the user, which locks its row
\* until the commit; that order among handlers is not relied on here.
Look(c) ==
  /\ request[c].pc = "look"
  /\ LET r == request[c] IN
       IF Refused(r) THEN Done(c)
       ELSE \E ends \in ToEnd(r) : request' = [request EXCEPT ![c] =
              [op |-> r.op, pc |-> "commit", actor |-> Nobody,
               own |-> IF r.op = "changePassword" THEN r.own ELSE Nobody,
               target |-> r.target, ends |-> ends, password |-> 0]]
  /\ UNCHANGED <<user, session, crossed, crowded>>

\* create_user: the address may be taken by now.
Create(r) ==
  /\ \E role \in Role :
       user' = IF user[r.target] = Unborn THEN [user EXCEPT ![r.target] = NewUser(role)] ELSE user
  /\ UNCHANGED session

SetState(r) ==
  /\ user' = [user EXCEPT ![r.target].state = IF r.op = "enable" THEN "active" ELSE "disabled"]
  /\ session' = Ended(r.ends)

\* A deleted user's sessions go too (cascade).
Delete(r) ==
  /\ user' = [user EXCEPT ![r.target].state = "deleted"]
  /\ session' = Ended(OpenSessions(r.target))

\* Whoever changes a password knows the new one, in the session at hand.
ChangePassword(r) ==
  /\ user[r.target].password < MaxPassword
  /\ user' = [user EXCEPT ![r.target].password = @ + 1]
  /\ session' = [s \in Session |->
                   IF s = r.own /\ Open(s) THEN [session[s] EXCEPT !.password = user'[r.target].password]
                   ELSE Ended(r.ends)[s]]

EndOnly(r) == session' = Ended(r.ends) /\ UNCHANGED user

\* Rows that are gone are not written: an update of one fails with
\* StaleDataError.
Commit(c) ==
  /\ request[c].pc = "commit"
  /\ LET r == request[c]
         changes == r.op \in {"enable", "disable", "changePassword", "resetFactor"} IN
       CASE r.op = "create" -> Create(r)
         [] changes /\ ~Exists(r.target) -> UNCHANGED <<user, session>>
         [] r.op \in {"enable", "disable"} /\ Exists(r.target) -> SetState(r)
         [] r.op = "changePassword" /\ Exists(r.target) -> ChangePassword(r)
         [] r.op = "delete" -> Delete(r)
         [] OTHER -> EndOnly(r)
  /\ Done(c)
  /\ UNCHANGED <<crossed, crowded>>

\* The connection to the database breaks, or the panel restarts.
RequestFails(c) ==
  /\ request[c] # NoRequest
  /\ Done(c)
  /\ UNCHANGED <<user, session, crossed, crowded>>

Next ==
  \/ \E c \in Client, u \in User : Setup(c, u) \/ Login(c, u)
  \/ \E c \in Client, s \in Session : CreateSession(c, s)
  \/ \E c \in Client, s \in Session, op \in SelfOps \cup AdminOps, u \in User : Identify(c, s, op, u)
  \/ \E c \in Client : Look(c) \/ Commit(c) \/ RequestFails(c)
  \/ \E s \in Session : SessionTimesOut(s)

Spec == Init /\ [][Next]_vars
-----------------------------------------------------------------------------
\* Every variable has its type, and an open session has its user.
TypeOK ==
  /\ \A s \in Session : Open(s) => Exists(session[s].user)
  /\ user \in [User -> [state : {"unborn", "active", "disabled", "deleted"}, role : Role,
                        password : 0 .. MaxPassword]]
  /\ session \in [Session -> [user : User \cup {Nobody}, state : {"unused", "open", "ended"},
                              password : 0 .. MaxPassword]]
  /\ request \in [Client -> [op : {"none", "setup", "login"} \cup SelfOps \cup AdminOps,
                             pc : {"idle", "session", "look", "commit"}, actor : User \cup {Nobody},
                             own : Session \cup {Nobody}, target : User \cup {Nobody},
                             ends : SUBSET Session, password : 0 .. MaxPassword]]
  /\ crossed \in SUBSET User /\ crowded \in BOOLEAN

\* A panel with users has an active administrator, as long as removals of
\* accounts do not overlap (update_user_status and delete_user).
AdministratorRemains == Users # {} /\ ~crowded => ActiveAdmins # {}

\* A disabled account has no open session, and nobody is logged in with a
\* password that has been changed, however the requests overlap, unless somebody
\* was logging in to the account at that moment (update_user_status,
\* change_password).
OldAccessEnds ==
  \A s \in Session : Open(s) /\ session[s].user \notin crossed =>
    LET owner == user[session[s].user]
    IN owner.state = "active" /\ owner.password = session[s].password
-----------------------------------------------------------------------------
(* What the code says and does not do *)

\* The last active administrator cannot be disabled (update_user_status).
SomeAdministrator == Users # {} => ActiveAdmins # {}
=============================================================================
