---------------------------- MODULE AccountsProofs ----------------------------
(***************************************************************************)
(* Theorems about Accounts for every set of users, sessions and request    *)
(* slots, finite or not, and every bound on the changes of a password.     *)
(***************************************************************************)
EXTENDS Accounts, TLAPS

-----------------------------------------------------------------------------
(* The inductive invariant *)

\* Open sessions and requests name real users and sessions, and a request that
\* logs in is none of the handlers behind the middleware.
References ==
  /\ \A s \in Session : Open(s) => session[s].user \in User
  /\ \A c \in Client :
       /\ request[c].pc # "idle" => request[c].target \in User
       /\ request[c].pc = "look" => request[c].actor \in User /\ request[c].own \in Session
       /\ request[c].pc = "session" <=> request[c].op \in {"setup", "login"}
       /\ request[c].op = "none" <=> request[c].pc = "idle"

\* As long as removals did not overlap there is one at most, its actor is an
\* active administrator until it looked, and an active administrator other than
\* its target remains until it commits.
Survivors ==
  ~crowded =>
    /\ \A c, d \in Client : request[c].op \in Removals /\ request[d].op \in Removals => c = d
    /\ \A c \in Client : request[c].op \in Removals =>
         /\ request[c].pc = "look" => request[c].actor \in ActiveAdmins
         /\ request[c].pc = "commit" => \E a \in ActiveAdmins : a # request[c].target
    /\ \A c \in Client : request[c].op = "create" => ActiveAdmins # {}

\* A login that crosses the closing of its account is marked.
Marked ==
  \A c, d \in Client :
    request[c].op \in Closing /\ request[d].pc = "session" /\ request[d].target = request[c].target
      => request[c].target \in crossed

\* Logins and closings are about accounts that were born.
Born == \A c \in Client : request[c].op \in Closing \/ request[c].pc = "session" => user[request[c].target] # Unborn

\* A login that crossed nothing verified what still holds when it ends.
Verified ==
  \A c \in Client :
    LET u == request[c].target
    IN request[c].pc = "session" /\ u \notin crossed /\ Exists(u) =>
         user[u].state = "active" /\ user[u].password = request[c].password

\* A change of the password is made by the account itself, in a session of its own.
Own ==
  \A c \in Client : request[c].op = "changePassword" =>
    /\ request[c].pc = "look" => request[c].actor = request[c].target
    /\ request[c].own \in Session /\ session[request[c].own] # Unused
    /\ Open(request[c].own) => session[request[c].own].user = request[c].target

\* What a closing has loaded covers the sessions that are open when it commits.
Loaded ==
  \A c \in Client :
    LET u == request[c].target
    IN request[c].pc = "commit" /\ u \notin crossed =>
         /\ request[c].op = "disable" => OpenSessions(u) \subseteq request[c].ends
         /\ request[c].op = "changePassword" => OpenSessions(u) \subseteq request[c].ends \cup {request[c].own}

Access == Marked /\ Born /\ Verified /\ Own /\ Loaded /\ OldAccessEnds
Typed == TypeOK /\ References
IInv == Typed /\ AdministratorRemains /\ Survivors /\ Access

-----------------------------------------------------------------------------
(* What the steps do, account by account and session by session *)

Account == [state : {"unborn", "active", "disabled", "deleted"}, role : Role, password : 0 .. MaxPassword]
Sitting == [user : User \cup {Nobody}, state : {"unused", "open", "ended"}, password : 0 .. MaxPassword]
Call == [op : {"none", "setup", "login"} \cup SelfOps \cup AdminOps, pc : {"idle", "session", "look", "commit"},
         actor : User \cup {Nobody}, own : Session \cup {Nobody}, target : User \cup {Nobody},
         ends : SUBSET Session, password : 0 .. MaxPassword]

\* A handler that is done is idle, and the others are where they were.
LEMMA DoneClears ==
  ASSUME TypeOK, NEW c \in Client, Done(c)
  PROVE  request'[c] = NoRequest /\ \A d \in Client : d # c => request'[d] = request[d]
BY DEF Done, TypeOK

\* A commit does one of six things.
LEMMA CommitCases ==
  ASSUME NEW c \in Client, Commit(c)
  PROVE  \/ request[c].op = "create" /\ Create(request[c])
         \/ request[c].op \in {"enable", "disable"} /\ Exists(request[c].target) /\ SetState(request[c])
         \/ request[c].op = "changePassword" /\ Exists(request[c].target) /\ ChangePassword(request[c])
         \/ request[c].op = "delete" /\ Delete(request[c])
         \/ request[c].op \notin {"disable", "changePassword", "delete"} /\ EndOnly(request[c])
         \/ UNCHANGED <<user, session>>
BY DEF Commit

\* Sessions that a handler ends are closed, and the others are as they were.
LEMMA EndedIs ==
  ASSUME NEW ss, session' = Ended(ss), NEW s \in Session
  PROVE  session'[s] = IF s \in ss THEN Closed ELSE session[s]
BY DEF Ended

\* A change of the state of an account changes nothing else of it.
LEMMA StateSet ==
  ASSUME TypeOK, NEW u \in User, NEW state, user' = [user EXCEPT ![u].state = state]
  PROVE  /\ user'[u].state = state /\ user'[u].role = user[u].role /\ user'[u].password = user[u].password
         /\ \A v \in User : v # u => user'[v] = user[v]
         /\ state \in {"active", "disabled", "deleted"} => user' \in [User -> Account]
<1>1. user[u] \in Account BY DEF TypeOK, Account
<1>2. user'[u] = [user[u] EXCEPT !.state = state] /\ \A v \in User : v # u => user'[v] = user[v]
  BY DEF TypeOK
<1>3. user'[u].state = state /\ user'[u].role = user[u].role /\ user'[u].password = user[u].password
  BY <1>1, <1>2 DEF Account
<1>4. state \in {"active", "disabled", "deleted"} => [user[u] EXCEPT !.state = state] \in Account
  BY <1>1 DEF Account
<1> QED BY <1>2, <1>3, <1>4 DEF TypeOK, Account

\* What a commit of change_password does.
LEMMA PasswordChanged ==
  ASSUME TypeOK, NEW r, r.target \in User, ChangePassword(r)
  PROVE  /\ user'[r.target].password = user[r.target].password + 1
         /\ user'[r.target].state = user[r.target].state /\ user'[r.target].role = user[r.target].role
         /\ user' \in [User -> Account]
         /\ \A v \in User : v # r.target => user'[v] = user[v]
         /\ \A s \in Session :
              \/ /\ s = r.own /\ Open(s)
                 /\ session'[s] = [session[s] EXCEPT !.password = user'[r.target].password]
              \/ ~(s = r.own /\ Open(s)) /\ session'[s] = IF s \in r.ends THEN Closed ELSE session[s]
         /\ session' \in [Session -> Sitting]
<1>1. user[r.target] \in Account /\ user[r.target].password < MaxPassword
  BY DEF TypeOK, Account, ChangePassword
<1>2. /\ user' = [user EXCEPT ![r.target] = [user[r.target] EXCEPT !.password = user[r.target].password + 1]]
      /\ user'[r.target] = [user[r.target] EXCEPT !.password = user[r.target].password + 1]
      /\ \A v \in User : v # r.target => user'[v] = user[v]
  BY DEF TypeOK, ChangePassword
<1>3. [user[r.target] EXCEPT !.password = user[r.target].password + 1] \in Account
  BY <1>1, PasswordAssumption DEF Account
<1>4. user' \in [User -> Account]
  BY <1>2, <1>3 DEF TypeOK, Account
<1>5. /\ user'[r.target].password = user[r.target].password + 1
      /\ user'[r.target].state = user[r.target].state /\ user'[r.target].role = user[r.target].role
  BY <1>1, <1>2 DEF Account
<1>6. /\ DOMAIN session' = Session /\ session' = [s \in Session |-> session'[s]]
      /\ \A s \in Session :
           session'[s] = IF s = r.own /\ Open(s) THEN [session[s] EXCEPT !.password = user'[r.target].password]
                         ELSE IF s \in r.ends THEN Closed ELSE session[s]
  BY DEF ChangePassword, Ended
<1>7. user'[r.target].password \in 0 .. MaxPassword
  BY <1>4 DEF Account
<1>8. ASSUME NEW s \in Session
      PROVE  session'[s] \in Sitting
  <2>1. session[s] \in Sitting BY DEF TypeOK, Sitting
  <2>2. Closed \in Sitting BY PasswordAssumption DEF Closed, Sitting
  <2>3. [session[s] EXCEPT !.password = user'[r.target].password] \in Sitting BY <1>7, <2>1 DEF Sitting
  <2> QED BY <1>6, <2>1, <2>2, <2>3
<1>9. session' \in [Session -> Sitting]
  BY <1>6, <1>8
<1> QED BY <1>2, <1>4, <1>5, <1>6, <1>9

\* The variables' types by name.
LEMMA TypesByName ==
  TypeOK <=> /\ \A s \in Session : Open(s) => Exists(session[s].user)
             /\ user \in [User -> Account] /\ session \in [Session -> Sitting]
             /\ request \in [Client -> Call] /\ crossed \in SUBSET User /\ crowded \in BOOLEAN
BY DEF TypeOK, Account, Sitting, Call

\* Ending sessions leaves sessions.
LEMMA EndedTyped ==
  ASSUME TypeOK, NEW ss, session' = Ended(ss)
  PROVE  session' \in [Session -> Sitting]
BY PasswordAssumption DEF TypeOK, Ended, Closed, Sitting

-----------------------------------------------------------------------------
(* Type correctness and references *)

\* A request that a step put in the place of an idle or finished one.
LEMMA RequestTyped ==
  ASSUME Typed, NEW c \in Client, NEW r \in Call, request' = [request EXCEPT ![c] = r],
         r.pc # "idle" => r.target \in User,
         r.pc = "look" => r.actor \in User /\ r.own \in Session,
         r.pc = "session" <=> r.op \in {"setup", "login"},
         r.op = "none" <=> r.pc = "idle",
         \A s \in Session : Open(s)' => session'[s].user \in User /\ Exists(session[s].user)',
         user' \in [User -> Account], session' \in [Session -> Sitting],
         crossed' \in SUBSET User, crowded' \in BOOLEAN
  PROVE  Typed'
<1>1. TypeOK' BY TypesByName DEF Typed, TypeOK, Call, Account, Sitting
<1>2. References'
  BY DEF Typed, TypeOK, References
<1> QED BY <1>1, <1>2 DEF Typed

\* It is done.
LEMMA DoneTyped ==
  ASSUME Typed, NEW c \in Client, Done(c),
         \A s \in Session : Open(s)' => session'[s].user \in User /\ Exists(session[s].user)',
         user' \in [User -> Account], session' \in [Session -> Sitting],
         UNCHANGED <<crossed, crowded>>
  PROVE  Typed'
<1>1. NoRequest \in Call
  BY PasswordAssumption DEF NoRequest, Call
<1>2. crossed' \in SUBSET User /\ crowded' \in BOOLEAN
  BY DEF Typed, TypeOK
<1>3. request' = [request EXCEPT ![c] = NoRequest]
  BY DEF Done
<1> QED BY <1>1, <1>2, <1>3, RequestTyped DEF NoRequest

\* A session that is open or still open after a step has a user that still exists.
LEMMA SessionsStay ==
  ASSUME Typed, NEW s \in Session,
         session'[s] = session[s] \/ session'[s] = Closed,
         \A u \in User : Exists(u) => Exists(u)'
  PROVE  Open(s)' => session'[s].user \in User /\ Exists(session[s].user)'
<1>1. Open(s)' => session'[s] = session[s]
  BY DEF Open, Closed
<1>2. Open(s) => session[s].user \in User /\ Exists(session[s].user)
  BY DEF Typed, TypeOK, References
<1>3. ASSUME session'[s] = session[s], Open(s)
      PROVE  session'[s].user \in User /\ Exists(session[s].user)'
  BY <1>2, <1>3 DEF Exists
<1> QED BY <1>1, <1>3 DEF Open

\* A commit writes rows that the types allow.
LEMMA CommitTyped ==
  ASSUME Typed, NEW c \in Client, Commit(c)
  PROVE  Typed'
<1> DEFINE r == request[c]
<1>0. TypeOK /\ r.target \in User /\ r \in Call
  BY TypesByName DEF Typed, References, Commit
<1>1. Done(c) /\ UNCHANGED <<crossed, crowded>>
  BY DEF Commit
<1>2. /\ user \in [User -> Account] /\ session \in [Session -> Sitting]
  BY <1>0, TypesByName
<1> HIDE DEF r
<1>3. CASE Create(r)
  <2>1. PICK role \in Role :
          user' = IF user[r.target] = Unborn THEN [user EXCEPT ![r.target] = NewUser(role)] ELSE user
    BY <1>3 DEF Create
  <2>2. NewUser(role) \in Account BY PasswordAssumption DEF NewUser, Account
  <2>3. user' \in [User -> Account] BY <1>0, <1>2, <2>1, <2>2
  <2>4. \A u \in User : Exists(u) => Exists(u)'
    BY <1>0, <1>2, <2>1 DEF Exists, Unborn, NewUser
  <2>5. session' = session BY <1>3 DEF Create
  <2> QED BY <1>1, <1>2, <2>3, <2>4, <2>5, SessionsStay, DoneTyped
<1>4. CASE r.op \in {"enable", "disable"} /\ Exists(r.target) /\ SetState(r)
  <2>1. user' = [user EXCEPT ![r.target].state = IF r.op = "enable" THEN "active" ELSE "disabled"]
        /\ session' = Ended(r.ends)
    BY <1>4 DEF SetState
  <2>2. user' \in [User -> Account] /\ \A u \in User : Exists(u) => Exists(u)'
    BY <1>0, <2>1, StateSet DEF Exists
  <2>3. \A s \in Session : session'[s] = session[s] \/ session'[s] = Closed
    BY <2>1, EndedIs
  <2> QED BY <1>0, <1>1, <2>1, <2>2, <2>3, EndedTyped, SessionsStay, DoneTyped
<1>5. CASE ChangePassword(r)
  <2>1. user' \in [User -> Account] /\ session' \in [Session -> Sitting]
    BY <1>0, <1>5, PasswordChanged
  <2>2. \A u \in User : Exists(u) => Exists(u)'
    BY <1>0, <1>5, PasswordChanged DEF Exists
  <2>3. ASSUME NEW s \in Session
        PROVE  Open(s)' => session'[s].user \in User /\ Exists(session[s].user)'
    <3>1. CASE s = r.own /\ Open(s)
      <4>1. session'[s] = [session[s] EXCEPT !.password = user'[r.target].password]
        BY <1>0, <1>5, <3>1, PasswordChanged
      <4>2. session'[s].user = session[s].user
        BY <1>2, <4>1 DEF Sitting
      <4>3. session[s].user \in User /\ Exists(session[s].user)
        BY <3>1 DEF Typed, TypeOK, References
      <4> QED BY <2>2, <4>2, <4>3 DEF Exists
    <3>2. CASE ~(s = r.own /\ Open(s))
      BY <1>0, <1>5, <2>2, <3>2, PasswordChanged, SessionsStay
    <3> QED BY <3>1, <3>2
  <2> QED BY <1>1, <2>1, <2>3, DoneTyped
<1>6. CASE Delete(r)
  <2>1. user' = [user EXCEPT ![r.target].state = "deleted"] /\ session' = Ended(OpenSessions(r.target))
    BY <1>6 DEF Delete
  <2>2. user' \in [User -> Account] /\ \A u \in User : u # r.target => user'[u] = user[u]
    BY <1>0, <2>1, StateSet
  <2>3. ASSUME NEW s \in Session, Open(s)'
        PROVE  session'[s].user \in User /\ Exists(session[s].user)'
    <3>1. session'[s] = session[s] /\ s \notin OpenSessions(r.target) /\ Open(s)
      BY <2>1, <2>3, EndedIs DEF Open, Closed
    <3>2. session[s].user # r.target /\ session[s].user \in User /\ Exists(session[s].user)
      BY <3>1 DEF OpenSessions, Typed, TypeOK, References
    <3> QED BY <2>2, <3>1, <3>2 DEF Exists
  <2> QED BY <1>0, <1>1, <2>1, <2>2, <2>3, EndedTyped, DoneTyped
<1>7. CASE EndOnly(r)
  <2>1. user' = user /\ session' = Ended(r.ends)
    BY <1>7 DEF EndOnly
  <2>2. \A s \in Session : session'[s] = session[s] \/ session'[s] = Closed
    BY <2>1, EndedIs
  <2>3. \A u \in User : Exists(u) => Exists(u)'
    BY <2>1 DEF Exists
  <2> QED BY <1>0, <1>1, <1>2, <2>1, <2>2, <2>3, EndedTyped, SessionsStay, DoneTyped
<1>8. CASE UNCHANGED <<user, session>>
  <2>1. \A u \in User : Exists(u) => Exists(u)'
    BY <1>8 DEF Exists
  <2> QED BY <1>1, <1>2, <1>8, <2>1, SessionsStay, DoneTyped
<1> QED BY <1>3, <1>4, <1>5, <1>6, <1>7, <1>8, CommitCases DEF r

\* A login, the first administrator's too, keeps the types.
LEMMA NewRequestTyped ==
  ASSUME TypeOK, NEW op \in {"setup", "login"}, NEW u \in User
  PROVE  NewRequest(op, "session", u) \in Call
BY DEF TypeOK, NewRequest, Call

\* Every step keeps the types.
LEMMA TypedKept ==
  ASSUME Typed, Next
  PROVE  Typed'
<1>0. /\ TypeOK /\ user \in [User -> Account] /\ session \in [Session -> Sitting] /\ request \in [Client -> Call]
      /\ crossed \in SUBSET User /\ crowded \in BOOLEAN
  BY TypesByName DEF Typed
<1>a. \A s \in Session : Open(s) => session[s].user \in User /\ Exists(session[s].user)
  BY DEF Typed, TypeOK, References
<1>b. ASSUME UNCHANGED <<user, session>>
      PROVE  \A s \in Session : Open(s)' => session'[s].user \in User /\ Exists(session[s].user)'
  BY <1>a, <1>b DEF Open, Exists
<1>1. ASSUME NEW c \in Client, NEW u \in User, Setup(c, u)
      PROVE  Typed'
  <2>1. NewUser("admin") \in Account BY PasswordAssumption DEF NewUser, Account, Role
  <2>2. user' \in [User -> Account] BY <1>0, <1>1, <2>1 DEF Setup
  <2>3. \A v \in User : Exists(v) => Exists(v)' BY <1>0, <1>1 DEF Setup, Exists, Users
  <2>4. UNCHANGED <<session, crossed, crowded>> /\ request' = [request EXCEPT ![c] = NewRequest("setup", "session", u)]
    BY <1>1 DEF Setup
  <2>5. \A s \in Session : Open(s)' => session'[s].user \in User /\ Exists(session[s].user)'
    BY <2>3, <2>4, SessionsStay
  <2>6. NewRequest("setup", "session", u) \in Call BY <1>0, NewRequestTyped
  <2> QED BY <1>0, <2>2, <2>4, <2>5, <2>6, RequestTyped DEF NewRequest
<1>2. ASSUME NEW c \in Client, NEW u \in User, Login(c, u)
      PROVE  Typed'
  <2>1. /\ UNCHANGED <<user, session, crowded>> /\ request' = [request EXCEPT ![c] = NewRequest("login", "session", u)]
        /\ crossed' \in SUBSET User
    BY <1>0, <1>2 DEF Login
  <2>2. NewRequest("login", "session", u) \in Call BY <1>0, NewRequestTyped
  <2> QED BY <1>0, <1>b, <2>1, <2>2, RequestTyped DEF NewRequest
<1>3. ASSUME NEW c \in Client, NEW s \in Session, CreateSession(c, s)
      PROVE  Typed'
  <2>1. Done(c) /\ UNCHANGED <<user, crossed, crowded>> BY <1>3 DEF CreateSession
  <2>2. request[c].target \in User /\ request[c] \in Call BY <1>0, <1>3 DEF CreateSession, Typed, References
  <2>3. NewSession(request[c].target, request[c].password) \in Sitting
    BY <2>2 DEF NewSession, Sitting, Call
  <2>4. session' \in [Session -> Sitting] BY <1>0, <1>3, <2>3 DEF CreateSession
  <2>5. ASSUME NEW q \in Session, Open(q)'
        PROVE  session'[q].user \in User /\ Exists(session[q].user)'
    <3>1. CASE session'[q] = session[q] BY <1>a, <2>1, <2>5, <3>1 DEF Open, Exists
    <3>2. CASE session'[q] # session[q]
      <4>1. session'[q] = NewSession(request[c].target, request[c].password) /\ Exists(request[c].target)
        BY <1>0, <1>3, <3>2 DEF CreateSession
      <4> QED BY <2>1, <2>2, <4>1 DEF NewSession, Exists
    <3> QED BY <3>1, <3>2
  <2> QED BY <1>0, <2>1, <2>4, <2>5, DoneTyped
<1>4. ASSUME NEW c \in Client, NEW s \in Session, NEW op \in SelfOps \cup AdminOps, NEW u \in User,
             Identify(c, s, op, u)
      PROVE  Typed'
  <2> DEFINE r == [op |-> op, pc |-> "look", actor |-> session[s].user, own |-> s,
                   target |-> u, ends |-> {}, password |-> 0]
  <2>1. UNCHANGED <<user, session>> /\ request' = [request EXCEPT ![c] = r] BY <1>4 DEF Identify
  <2>2. crossed' \in SUBSET User /\ crowded' \in BOOLEAN BY <1>0, <1>4 DEF Identify
  <2>3. session[s].user \in User BY <1>4, <1>a DEF Identify
  <2>4. r \in Call BY <2>3, PasswordAssumption DEF Call
  <2>5. op \notin {"none", "setup", "login"} BY DEF SelfOps, AdminOps
  <2>6. r.pc = "look" /\ r.actor \in User /\ r.own \in Session /\ r.target \in User /\ r.op = op
    BY <2>3
  <2> HIDE DEF r
  <2> QED BY <1>0, <1>b, <2>1, <2>2, <2>4, <2>5, <2>6, RequestTyped
<1>5. ASSUME NEW c \in Client, Look(c)
      PROVE  Typed'
  <2>1. UNCHANGED <<user, session, crossed, crowded>> BY <1>5 DEF Look
  <2>2. CASE Done(c) BY <1>0, <1>b, <2>1, <2>2, DoneTyped
  <2>3. CASE ~Done(c)
    <3>1. PICK ends \in ToEnd(request[c]) :
            request' = [request EXCEPT ![c] =
              [op |-> request[c].op, pc |-> "commit", actor |-> Nobody,
               own |-> IF request[c].op = "changePassword" THEN request[c].own ELSE Nobody,
               target |-> request[c].target, ends |-> ends, password |-> 0]]
      BY <1>5, <2>3 DEF Look
    <3> DEFINE r == [op |-> request[c].op, pc |-> "commit", actor |-> Nobody,
                     own |-> IF request[c].op = "changePassword" THEN request[c].own ELSE Nobody,
                     target |-> request[c].target, ends |-> ends, password |-> 0]
    <3>2. request[c] \in Call /\ request[c].target \in User /\ request[c].own \in Session
          /\ request[c].op \notin {"none", "setup", "login"}
      BY <1>0, <1>5 DEF Look, Typed, References
    <3>3. ends \subseteq Session
      BY <3>1, <3>2 DEF ToEnd, DisableEnds, PasswordEnds, RevokeEnds, ResetEnds, SecureEnds, LogoutEnds,
         OpenSessions, Others
    <3>4. r \in Call BY <3>2, <3>3, PasswordAssumption DEF Call
    <3>5. r.pc = "commit" /\ r.target \in User /\ r.op \notin {"none", "setup", "login"} BY <3>2
    <3>6. request' = [request EXCEPT ![c] = r] BY <3>1
    <3> HIDE DEF r
    <3> QED BY <1>0, <1>b, <2>1, <3>4, <3>5, <3>6, RequestTyped
  <2> QED BY <2>2, <2>3
<1>6. ASSUME NEW c \in Client, Commit(c)
      PROVE  Typed'
  BY <1>6, CommitTyped
<1>7. ASSUME NEW c \in Client, RequestFails(c)
      PROVE  Typed'
  <2>1. Done(c) /\ UNCHANGED <<user, session, crossed, crowded>> BY <1>7 DEF RequestFails
  <2> QED BY <1>0, <1>b, <2>1, DoneTyped
<1>8. ASSUME NEW s \in Session, SessionTimesOut(s)
      PROVE  Typed'
  <2>1. session' = Ended({s}) /\ UNCHANGED <<user, request, crossed, crowded>> BY <1>8 DEF SessionTimesOut
  <2>2. \A q \in Session : session'[q] = session[q] \/ session'[q] = Closed BY <2>1, EndedIs
  <2>3. \A v \in User : Exists(v) => Exists(v)' BY <2>1 DEF Exists
  <2>4. \A q \in Session : Open(q)' => session'[q].user \in User /\ Exists(session[q].user)'
    BY <2>2, <2>3, SessionsStay
  <2>5. session' \in [Session -> Sitting] BY <1>0, <2>1, EndedTyped
  <2>6. TypeOK' BY <1>0, <2>1, <2>4, <2>5 DEF TypeOK, Account, Sitting, Call
  <2>7. References' BY <2>1, <2>4 DEF References, Typed
  <2> QED BY <2>6, <2>7 DEF Typed
<1> QED BY <1>1, <1>2, <1>3, <1>4, <1>5, <1>6, <1>7, <1>8 DEF Next

-----------------------------------------------------------------------------
(* An administrator remains *)

\* A step that removes no active administrator, and after which the one request
\* that moves is neither a removal nor a creation.
LEMMA SurvivorsStay ==
  ASSUME Typed, Survivors, AdministratorRemains, NEW c \in Client,
         \A d \in Client : d # c => request'[d] = request[d],
         request'[c].op \notin Removals \cup {"create"},
         ActiveAdmins \subseteq ActiveAdmins', crowded' = crowded,
         Users' = Users \/ ActiveAdmins' # {}
  PROVE  Survivors' /\ AdministratorRemains'
<1>1. AdministratorRemains'
  BY DEF AdministratorRemains
<1>2. ASSUME ~crowded', NEW a \in Client, NEW b \in Client,
             request'[a].op \in Removals, request'[b].op \in Removals
      PROVE  a = b
  BY <1>2 DEF Survivors
<1>3. ASSUME ~crowded', NEW a \in Client, request'[a].op \in Removals
      PROVE  /\ request'[a].pc = "look" => request'[a].actor \in ActiveAdmins'
             /\ request'[a].pc = "commit" => \E b \in ActiveAdmins' : b # request'[a].target
  <2>1. a # c /\ request'[a] = request[a] BY <1>3
  <2> QED BY <1>3, <2>1 DEF Survivors
<1>4. ASSUME ~crowded', NEW a \in Client, request'[a].op = "create"
      PROVE  ActiveAdmins' # {}
  <2>1. a # c /\ request'[a] = request[a] BY <1>4
  <2> QED BY <1>4, <2>1 DEF Survivors
<1> QED BY <1>1, <1>2, <1>3, <1>4 DEF Survivors

\* A commit that removes an account leaves the administrator that was seen.
LEMMA RemovalLeavesOne ==
  ASSUME Typed, Survivors, NEW c \in Client, request[c].pc = "commit", request[c].op \in Removals, Done(c),
         \A v \in User : v # request[c].target => user'[v] = user[v], crowded' = crowded
  PROVE  Survivors' /\ AdministratorRemains'
<1> SUFFICES ASSUME ~crowded PROVE Survivors' /\ AdministratorRemains'
  BY DEF Survivors, AdministratorRemains
<1>1. PICK a \in ActiveAdmins : a # request[c].target
  BY DEF Survivors
<1>2. a \in ActiveAdmins'
  BY <1>1 DEF ActiveAdmins, Admins, Users, Exists
<1>3. \A d \in Client : request'[d].op \notin Removals
  BY DoneClears DEF Survivors, Typed, NoRequest, Removals
<1> QED BY <1>2, <1>3 DEF Survivors, AdministratorRemains

\* The commit of a handler leaves an administrator behind.
LEMMA CommitLeavesOne ==
  ASSUME Typed, Survivors, AdministratorRemains, NEW c \in Client, Commit(c)
  PROVE  Survivors' /\ AdministratorRemains'
<1> DEFINE r == request[c]
<1>0. TypeOK /\ r.target \in User /\ r \in Call /\ r.pc = "commit" /\ user \in [User -> Account]
  BY TypesByName DEF Typed, References, Commit
<1>1. Done(c) /\ UNCHANGED <<crossed, crowded>>
  BY DEF Commit
<1>2. request'[c].op \notin Removals \cup {"create"} /\ \A d \in Client : d # c => request'[d] = request[d]
  BY <1>0, <1>1, DoneClears DEF NoRequest, Removals
<1>3. ASSUME ActiveAdmins \subseteq ActiveAdmins', Users' = Users \/ (r.op = "create" /\ ~crowded)
      PROVE  Survivors' /\ AdministratorRemains'
  <2>1. Users' = Users \/ ActiveAdmins' # {} BY <1>3 DEF Survivors
  <2> QED BY <1>1, <1>2, <1>3, <2>1, SurvivorsStay
<1>4. CASE crowded
  BY <1>1, <1>4 DEF Survivors, AdministratorRemains
<1> SUFFICES ASSUME ~crowded PROVE Survivors' /\ AdministratorRemains'
  BY <1>4
<1>5. CASE user' = user
  BY <1>3, <1>5 DEF ActiveAdmins, Admins, Users, Exists
<1>6. CASE r.op = "create" /\ Create(r)
  <2>1. \A v \in User : Exists(v) => user'[v] = user[v]
    BY <1>0, <1>6 DEF Create, Exists, Unborn
  <2> QED BY <1>3, <1>6, <2>1 DEF ActiveAdmins, Admins, Users, Exists
<1>7. CASE r.op \in {"enable", "disable"} /\ Exists(r.target) /\ SetState(r)
  <2>1. user' = [user EXCEPT ![r.target].state = IF r.op = "enable" THEN "active" ELSE "disabled"]
    BY <1>7 DEF SetState
  <2>2. \A v \in User : v # r.target => user'[v] = user[v]
    BY <1>0, <2>1, StateSet
  <2>3. CASE r.op = "disable"
    BY <1>0, <1>1, <2>2, <2>3, RemovalLeavesOne DEF Removals
  <2>4. CASE r.op = "enable"
    <3>1. user'[r.target].state = "active" /\ user'[r.target].role = user[r.target].role
      BY <1>0, <2>1, <2>4, StateSet
    <3>2. Users' = Users /\ ActiveAdmins \subseteq ActiveAdmins'
      BY <1>0, <1>7, <2>2, <3>1 DEF ActiveAdmins, Admins, Users, Exists
    <3> QED BY <1>3, <3>2
  <2> QED BY <1>7, <2>3, <2>4
<1>8. CASE ChangePassword(r)
  <2>1. /\ user'[r.target].state = user[r.target].state /\ user'[r.target].role = user[r.target].role
        /\ \A v \in User : v # r.target => user'[v] = user[v]
    BY <1>0, <1>8, PasswordChanged
  <2>2. Users' = Users /\ ActiveAdmins \subseteq ActiveAdmins'
    BY <2>1 DEF ActiveAdmins, Admins, Users, Exists
  <2> QED BY <1>3, <2>2
<1>9. CASE r.op = "delete" /\ Delete(r)
  <2>1. \A v \in User : v # r.target => user'[v] = user[v]
    BY <1>0, <1>9, StateSet DEF Delete
  <2> QED BY <1>0, <1>1, <1>9, <2>1, RemovalLeavesOne DEF Removals
<1> QED BY <1>5, <1>6, <1>7, <1>8, <1>9, CommitCases DEF EndOnly

\* Every step leaves an administrator behind, as long as removals do not
\* overlap.
LEMMA SurvivorsKept ==
  ASSUME Typed, Survivors, AdministratorRemains, Next
  PROVE  Survivors' /\ AdministratorRemains'
<1>0. TypeOK /\ References BY DEF Typed
<1>a. ASSUME UNCHANGED user
      PROVE  UNCHANGED <<Users, ActiveAdmins>>
  BY <1>a DEF ActiveAdmins, Admins, Users, Exists
<1>b. ASSUME NEW c \in Client, Done(c)
      PROVE  request'[c].op \notin Removals \cup {"create"} /\ \A d \in Client : d # c => request'[d] = request[d]
  BY <1>0, <1>b, DoneClears DEF NoRequest, Removals
<1>1. ASSUME NEW c \in Client, NEW u \in User, Setup(c, u)
      PROVE  Survivors' /\ AdministratorRemains'
  <2>1. user'[u] = NewUser("admin") BY <1>0, <1>1 DEF Setup, TypeOK
  <2>2. u \in ActiveAdmins' BY <2>1 DEF ActiveAdmins, Admins, Users, Exists, NewUser
  <2>3. ActiveAdmins = {} BY <1>1 DEF Setup, ActiveAdmins, Admins
  <2>4. request'[c].op = "setup" /\ \A d \in Client : d # c => request'[d] = request[d]
    BY <1>0, <1>1 DEF Setup, TypeOK, NewRequest
  <2> QED BY <1>1, <2>2, <2>3, <2>4, SurvivorsStay DEF Setup, Removals
<1>2. ASSUME NEW c \in Client, NEW u \in User, Login(c, u)
      PROVE  Survivors' /\ AdministratorRemains'
  <2>1. request'[c].op = "login" /\ \A d \in Client : d # c => request'[d] = request[d]
    BY <1>0, <1>2 DEF Login, TypeOK, NewRequest
  <2> QED BY <1>2, <1>a, <2>1, SurvivorsStay DEF Login, Removals
<1>3. ASSUME NEW c \in Client, NEW s \in Session, CreateSession(c, s)
      PROVE  Survivors' /\ AdministratorRemains'
  <2>1. Done(c) /\ UNCHANGED <<user, crowded>> BY <1>3 DEF CreateSession
  <2> QED BY <1>a, <1>b, <2>1, SurvivorsStay
<1>4. ASSUME NEW c \in Client, NEW s \in Session, NEW op \in SelfOps \cup AdminOps, NEW u \in User,
             Identify(c, s, op, u)
      PROVE  Survivors' /\ AdministratorRemains'
  <2>1. /\ request'[c].op = op /\ request'[c].pc = "look" /\ request'[c].actor = session[s].user
        /\ \A d \in Client : d # c => request'[d] = request[d]
    BY <1>0, <1>4 DEF Identify, TypeOK
  <2>2. op \in Removals \cup {"create"} => session[s].user \in ActiveAdmins
    <3>1. op \in Removals \cup {"create"} => op \notin SelfOps
      BY DEF Removals, SelfOps
    <3> QED BY <1>0, <1>4, <3>1 DEF Identify, ActiveAdmins, Admins, Users, Exists, References
  <2>3. UNCHANGED user /\ crowded' = (crowded \/ (op \in Removals /\ \E d \in Client : request[d].op \in Removals))
    BY <1>4 DEF Identify
  <2>4. UNCHANGED <<Users, ActiveAdmins>> BY <1>a, <2>3
  <2>5. ASSUME ~crowded', NEW a \in Client, NEW b \in Client,
               request'[a].op \in Removals, request'[b].op \in Removals
        PROVE  a = b
    BY <2>1, <2>3, <2>5 DEF Survivors
  <2>6. ASSUME ~crowded', NEW a \in Client, request'[a].op \in Removals
        PROVE  /\ request'[a].pc = "look" => request'[a].actor \in ActiveAdmins'
               /\ request'[a].pc = "commit" => \E b \in ActiveAdmins' : b # request'[a].target
    BY <2>1, <2>2, <2>3, <2>4, <2>6 DEF Survivors
  <2>7. ASSUME ~crowded', NEW a \in Client, request'[a].op = "create"
        PROVE  ActiveAdmins' # {}
    BY <2>1, <2>2, <2>3, <2>4, <2>7 DEF Survivors
  <2>8. AdministratorRemains' BY <2>3, <2>4 DEF AdministratorRemains
  <2> QED BY <2>5, <2>6, <2>7, <2>8 DEF Survivors
<1>5. ASSUME NEW c \in Client, Look(c)
      PROVE  Survivors' /\ AdministratorRemains'
  <2>1. UNCHANGED <<user, crowded, Users, ActiveAdmins>> BY <1>5, <1>a DEF Look
  <2>2. CASE Done(c) BY <1>b, <2>1, <2>2, SurvivorsStay
  <2>3. CASE ~Done(c)
    <3>1. ~Refused(request[c]) /\ request[c].pc = "look" BY <1>5, <2>3 DEF Look
    <3>2. /\ request'[c].op = request[c].op /\ request'[c].pc = "commit"
          /\ request'[c].target = request[c].target
          /\ \A d \in Client : d # c => request'[d] = request[d]
      BY <1>0, <1>5, <2>3 DEF Look, TypeOK
    <3>3. request[c].op \in Removals => request[c].target # request[c].actor
      BY <3>1 DEF Refused, Self, Removals
    <3>4. ASSUME ~crowded', NEW a \in Client, NEW b \in Client,
                 request'[a].op \in Removals, request'[b].op \in Removals
          PROVE  a = b
      BY <2>1, <3>2, <3>4 DEF Survivors
    <3>5. ASSUME ~crowded', NEW a \in Client, request'[a].op \in Removals
          PROVE  /\ request'[a].pc = "look" => request'[a].actor \in ActiveAdmins'
                 /\ request'[a].pc = "commit" => \E b \in ActiveAdmins' : b # request'[a].target
      <4>1. CASE a = c
        BY <2>1, <3>1, <3>2, <3>3, <3>5, <4>1 DEF Survivors
      <4>2. CASE a # c
        BY <2>1, <3>2, <3>5, <4>2 DEF Survivors
      <4> QED BY <4>1, <4>2
    <3>6. ASSUME ~crowded', NEW a \in Client, request'[a].op = "create"
          PROVE  ActiveAdmins' # {}
      BY <2>1, <3>2, <3>6 DEF Survivors
    <3>7. AdministratorRemains' BY <2>1 DEF AdministratorRemains
    <3> QED BY <3>4, <3>5, <3>6, <3>7 DEF Survivors
  <2> QED BY <2>2, <2>3
<1>6. ASSUME NEW c \in Client, Commit(c)
      PROVE  Survivors' /\ AdministratorRemains'
  BY <1>6, CommitLeavesOne
<1>7. ASSUME NEW c \in Client, RequestFails(c)
      PROVE  Survivors' /\ AdministratorRemains'
  <2>1. Done(c) /\ UNCHANGED <<user, crowded>> BY <1>7 DEF RequestFails
  <2> QED BY <1>a, <1>b, <2>1, SurvivorsStay
<1>8. ASSUME NEW s \in Session, SessionTimesOut(s)
      PROVE  Survivors' /\ AdministratorRemains'
  BY <1>8, <1>a DEF SessionTimesOut, Survivors, AdministratorRemains
<1> QED BY <1>1, <1>2, <1>3, <1>4, <1>5, <1>6, <1>7, <1>8 DEF Next

-----------------------------------------------------------------------------
(* Old access ends *)

\* What a step can do to an account.
LEMMA AccountChanges ==
  ASSUME Typed, Next, NEW u \in User
  PROVE  \/ user'[u] = user[u]
         \/ user[u] = Unborn /\ user'[u].state = "active" /\ user'[u].password = 0
         \/ Exists(u) /\ user'[u].state = "active" /\ user'[u].password = user[u].password
         \/ user'[u].state = "deleted" /\ \A s \in OpenSessions(u) : session'[s] = Closed
         \/ \E c \in Client :
              /\ request[c].pc = "commit" /\ request[c].target = u
              /\ \/ request[c].op = "disable" /\ session' = Ended(request[c].ends) /\ user'[u].state = "disabled"
                 \/ request[c].op = "changePassword" /\ Exists(u) /\ ChangePassword(request[c])
<1>0. TypeOK BY DEF Typed
<1>1. ASSUME NEW c \in Client, NEW v \in User, Setup(c, v)
      PROVE  user'[u] = user[u] \/ (user[u] = Unborn /\ user'[u].state = "active" /\ user'[u].password = 0)
  BY <1>0, <1>1 DEF Setup, NewUser, TypeOK
<1>2. ASSUME NEW c \in Client, Commit(c), user'[u] # user[u]
      PROVE  \/ user[u] = Unborn /\ user'[u].state = "active" /\ user'[u].password = 0
             \/ Exists(u) /\ user'[u].state = "active" /\ user'[u].password = user[u].password
             \/ user'[u].state = "deleted" /\ \A s \in OpenSessions(u) : session'[s] = Closed
             \/ /\ request[c].pc = "commit" /\ request[c].target = u
                /\ \/ request[c].op = "disable" /\ session' = Ended(request[c].ends) /\ user'[u].state = "disabled"
                   \/ request[c].op = "changePassword" /\ Exists(u) /\ ChangePassword(request[c])
  <2> DEFINE r == request[c]
  <2>0. r.pc = "commit" /\ r.target \in User BY <1>2 DEF Commit, Typed, References
  <2>1. CASE Create(r)
    <3>1. r.target = u /\ user[u] = Unborn /\ \E role \in Role : user'[u] = NewUser(role)
      BY <1>0, <1>2, <2>0, <2>1 DEF Create, TypeOK
    <3> QED BY <3>1 DEF NewUser
  <2>2. CASE r.op \in {"enable", "disable"} /\ Exists(r.target) /\ SetState(r)
    <3>1. user' = [user EXCEPT ![r.target].state = IF r.op = "enable" THEN "active" ELSE "disabled"]
          /\ session' = Ended(r.ends)
      BY <2>2 DEF SetState
    <3>2. r.target = u BY <1>0, <1>2, <2>0, <3>1, StateSet
    <3> DEFINE state == IF r.op = "enable" THEN "active" ELSE "disabled"
    <3>3. user' = [user EXCEPT ![u].state = state]
      BY <3>1, <3>2
    <3>4. user'[u].state = state /\ user'[u].password = user[u].password
      <4> HIDE DEF state
      <4> QED BY <1>0, <3>3, StateSet
    <3> QED BY <2>0, <2>2, <3>1, <3>2, <3>4
  <2>3. CASE r.op = "changePassword" /\ Exists(r.target) /\ ChangePassword(r)
    <3>1. r.target = u BY <1>0, <1>2, <2>0, <2>3, PasswordChanged
    <3> QED BY <2>0, <2>3, <3>1
  <2>4. CASE Delete(r)
    <3>1. user' = [user EXCEPT ![r.target].state = "deleted"] /\ session' = Ended(OpenSessions(r.target))
      BY <2>4 DEF Delete
    <3>2. r.target = u BY <1>0, <1>2, <2>0, <3>1, StateSet
    <3>3. user'[u].state = "deleted" BY <1>0, <3>1, <3>2, StateSet
    <3>4. \A s \in OpenSessions(u) : session'[s] = Closed BY <3>1, <3>2, EndedIs DEF OpenSessions
    <3> QED BY <3>3, <3>4
  <2> QED BY <1>2, <2>1, <2>2, <2>3, <2>4, CommitCases DEF EndOnly
<1>3. CASE UNCHANGED user
  BY <1>3
<1> QED BY <1>1, <1>2, <1>3 DEF Next, Login, CreateSession, Identify, Look, RequestFails, SessionTimesOut

\* What a step can do to a session.
LEMMA SessionChanges ==
  ASSUME Typed, Next, NEW s \in Session
  PROVE  \/ session'[s] = session[s]
         \/ session'[s] = Closed
         \/ /\ session[s] = Unused /\ UNCHANGED <<user, crossed>>
            /\ \E c \in Client : /\ request[c].pc = "session" /\ Exists(request[c].target)
                                /\ session'[s] = NewSession(request[c].target, request[c].password)
         \/ /\ Open(s) /\ session'[s].user = session[s].user /\ session'[s].state = "open"
            /\ \E c \in Client : /\ request[c].pc = "commit" /\ request[c].op = "changePassword"
                                /\ request[c].own = s /\ ChangePassword(request[c])
                                /\ session'[s].password = user'[request[c].target].password
<1>0. TypeOK /\ session \in [Session -> Sitting] BY TypesByName DEF Typed
<1>1. ASSUME NEW c \in Client, NEW q \in Session, CreateSession(c, q)
      PROVE  \/ session'[s] = session[s]
             \/ /\ session[s] = Unused /\ UNCHANGED <<user, crossed>>
                /\ request[c].pc = "session" /\ Exists(request[c].target)
                /\ session'[s] = NewSession(request[c].target, request[c].password)
  BY <1>0, <1>1 DEF CreateSession, TypeOK
<1>2. ASSUME NEW ss, session' = Ended(ss)
      PROVE  session'[s] = session[s] \/ session'[s] = Closed
  BY <1>2, EndedIs
<1>3. ASSUME NEW c \in Client, Commit(c)
      PROVE  \/ session'[s] = session[s]
             \/ session'[s] = Closed
             \/ /\ Open(s) /\ session'[s].user = session[s].user /\ session'[s].state = "open"
                /\ request[c].pc = "commit" /\ request[c].op = "changePassword"
                /\ request[c].own = s /\ ChangePassword(request[c])
                /\ session'[s].password = user'[request[c].target].password
  <2> DEFINE r == request[c]
  <2>0. r.pc = "commit" /\ r.target \in User BY <1>3 DEF Commit, Typed, References
  <2>1. CASE r.op = "changePassword" /\ ChangePassword(r)
    <3>1. CASE s = r.own /\ Open(s)
      <4>1. session'[s] = [session[s] EXCEPT !.password = user'[r.target].password]
        BY <1>0, <2>0, <2>1, <3>1, PasswordChanged
      <4>2. /\ session'[s].password = user'[r.target].password
            /\ session'[s].user = session[s].user /\ session'[s].state = session[s].state
        BY <1>0, <4>1 DEF Sitting
      <4> QED BY <2>0, <2>1, <3>1, <4>2 DEF Open
    <3>2. CASE ~(s = r.own /\ Open(s))
      BY <1>0, <2>0, <2>1, <3>2, PasswordChanged
    <3> QED BY <3>1, <3>2
  <2> QED BY <1>2, <1>3, <2>1, CommitCases DEF Create, SetState, Delete, EndOnly
<1>4. CASE UNCHANGED session
  BY <1>4
<1> QED BY <1>1, <1>2, <1>3, <1>4 DEF Next, Setup, Login, Identify, Look, RequestFails, SessionTimesOut

SetsUp(c) == \E u \in User : Setup(c, u) /\ request'[c] = NewRequest("setup", "session", u)
LogsIn(c) == \E u \in User : Login(c, u) /\ request'[c] = NewRequest("login", "session", u)
IsIdentified(c) ==
  \E s \in Session, op \in SelfOps \cup AdminOps, u \in User :
    /\ Identify(c, s, op, u)
    /\ request'[c] = [op |-> op, pc |-> "look", actor |-> session[s].user, own |-> s,
                      target |-> u, ends |-> {}, password |-> 0]
Looked(c) ==
  /\ request[c].pc = "look" /\ request'[c].pc = "commit" /\ UNCHANGED <<user, session, crossed>>
  /\ request'[c].op = request[c].op /\ request'[c].target = request[c].target
  /\ request[c].op = "changePassword" => request'[c].own = request[c].own
  /\ request'[c].ends \in ToEnd(request[c])

\* What a step can do to a request.
LEMMA RequestChanges ==
  ASSUME Typed, Next, NEW c \in Client
  PROVE  \/ request'[c] = request[c] \/ request'[c] = NoRequest
         \/ SetsUp(c) \/ LogsIn(c) \/ IsIdentified(c) \/ Looked(c)
<1>0. TypeOK BY DEF Typed
<1> DEFINE Goal == \/ request'[c] = request[c] \/ request'[c] = NoRequest
                   \/ SetsUp(c) \/ LogsIn(c) \/ IsIdentified(c) \/ Looked(c)
<1>1. ASSUME NEW d \in Client, Done(d)
      PROVE  Goal
  BY <1>0, <1>1, DoneClears
<1>2. ASSUME NEW d \in Client, NEW u \in User, Setup(d, u)
      PROVE  Goal
  <2>1. CASE c = d BY <1>0, <1>2, <2>1 DEF Setup, TypeOK, SetsUp
  <2>2. CASE c # d BY <1>0, <1>2, <2>2 DEF Setup, TypeOK
  <2> QED BY <2>1, <2>2
<1>3. ASSUME NEW d \in Client, NEW u \in User, Login(d, u)
      PROVE  Goal
  <2>1. CASE c = d BY <1>0, <1>3, <2>1 DEF Login, TypeOK, LogsIn
  <2>2. CASE c # d BY <1>0, <1>3, <2>2 DEF Login, TypeOK
  <2> QED BY <2>1, <2>2
<1>4. ASSUME NEW d \in Client, NEW s \in Session, NEW op \in SelfOps \cup AdminOps, NEW u \in User,
             Identify(d, s, op, u)
      PROVE  Goal
  <2>1. CASE c = d
    <3>1. request'[c] = [op |-> op, pc |-> "look", actor |-> session[s].user, own |-> s,
                        target |-> u, ends |-> {}, password |-> 0]
      BY <1>0, <1>4, <2>1 DEF Identify, TypeOK
    <3> QED BY <1>4, <2>1, <3>1 DEF IsIdentified
  <2>2. CASE c # d BY <1>0, <1>4, <2>2 DEF Identify, TypeOK
  <2> QED BY <2>1, <2>2
<1>5. ASSUME NEW d \in Client, Look(d)
      PROVE  Goal
  <2>1. CASE Done(d) BY <1>1, <2>1
  <2>2. CASE ~Done(d) /\ c = d BY <1>0, <1>5, <2>2 DEF Look, TypeOK, Looked
  <2>3. CASE ~Done(d) /\ c # d BY <1>0, <1>5, <2>3 DEF Look, TypeOK
  <2> QED BY <2>1, <2>2, <2>3
<1>6. CASE \E d \in Client, s \in Session : CreateSession(d, s) BY <1>1, <1>6 DEF CreateSession
<1>7. CASE \E d \in Client : Commit(d) \/ RequestFails(d) BY <1>1, <1>7 DEF Commit, RequestFails
<1>8. CASE \E s \in Session : SessionTimesOut(s) BY <1>8 DEF SessionTimesOut
<1>9. CASE \E d \in Client, u \in User : Setup(d, u) \/ Login(d, u) BY <1>2, <1>3, <1>9
<1>10. CASE \E d \in Client, s \in Session, op \in SelfOps \cup AdminOps, u \in User : Identify(d, s, op, u)
  BY <1>4, <1>10
<1>11. CASE \E d \in Client : Look(d) BY <1>5, <1>11
<1> QED BY <1>6, <1>7, <1>8, <1>9, <1>10, <1>11 DEF Next

\* Marks are never taken back, and who was born stays so.
LEMMA OnlyGrows ==
  ASSUME Typed, Next
  PROVE  /\ crossed \subseteq crossed'
         /\ \A u \in User : user[u] # Unborn => user'[u] # Unborn
<1>1. crossed \subseteq crossed'
  BY DEF Next, Setup, Login, CreateSession, Identify, Look, Commit, RequestFails, SessionTimesOut
<1>2. ASSUME NEW u \in User, user[u] # Unborn
      PROVE  user'[u] # Unborn
  <2>1. ASSUME NEW c \in Client, request[c].target = u, Exists(u), ChangePassword(request[c])
        PROVE  user'[u] # Unborn
    BY <2>1, PasswordChanged DEF Typed, Exists, Unborn
  <2> QED BY <1>2, <2>1, AccountChanges DEF Unborn
<1> QED BY <1>1, <1>2

\* Every step marks the logins that cross the closing of their account.
LEMMA MarkedKept ==
  ASSUME Typed, Marked, Born, Next
  PROVE  Marked'
<1> USE DEF Closing
<1> SUFFICES ASSUME NEW c \in Client, NEW d \in Client, request'[c].op \in Closing,
                    request'[d].pc = "session", request'[d].target = request'[c].target
             PROVE  request'[c].target \in crossed'
  BY DEF Marked
<1>1. \/ request[d].pc = "session" /\ request[d].target = request'[d].target
      \/ \E u \in User : Setup(d, u) /\ request'[d].target = u
      \/ \E u \in User : Login(d, u) /\ request'[d].target = u
  <2>1. CASE request'[d] = request[d] BY <2>1
  <2>2. CASE request'[d] = NoRequest BY <2>2 DEF NoRequest
  <2>3. CASE SetsUp(d) BY <2>3 DEF SetsUp, NewRequest
  <2>4. CASE LogsIn(d) BY <2>4 DEF LogsIn, NewRequest
  <2>5. CASE IsIdentified(d) BY <2>5 DEF IsIdentified
  <2>6. CASE Looked(d) BY <2>6 DEF Looked
  <2> QED BY <2>1, <2>2, <2>3, <2>4, <2>5, <2>6, RequestChanges
<1>2. CASE request[c].op \in Closing /\ request'[c].target = request[c].target
  <2>1. CASE request[d].pc = "session" /\ request[d].target = request'[d].target
    BY <1>2, <2>1, OnlyGrows DEF Marked
  <2>2. ASSUME NEW u \in User, Setup(d, u), request'[d].target = u
        PROVE  FALSE
    BY <1>2, <2>2 DEF Born, Setup
  <2>3. ASSUME NEW u \in User, Login(d, u), request'[d].target = u
        PROVE  u \in crossed'
    BY <1>2, <2>3 DEF Login, BeingClosed
  <2> QED BY <1>1, <2>1, <2>2, <2>3
<1>3. ASSUME NEW s \in Session, NEW op \in SelfOps \cup AdminOps, NEW u \in User, Identify(c, s, op, u),
             request'[c].op = op, request'[c].target = u, request'[c].pc = "look"
      PROVE  u \in crossed'
  <2>1. d # c /\ request'[d] = request[d]
    BY <1>3 DEF Identify, Typed, TypeOK
  <2> QED BY <1>3, <2>1 DEF Identify
<1>4. CASE request'[c] = request[c] BY <1>2, <1>4
<1>5. CASE request'[c] = NoRequest BY <1>5 DEF NoRequest
<1>6. CASE SetsUp(c) BY <1>6 DEF SetsUp, NewRequest
<1>7. CASE LogsIn(c) BY <1>7 DEF LogsIn, NewRequest
<1>8. CASE IsIdentified(c) BY <1>3, <1>8 DEF IsIdentified
<1>9. CASE Looked(c) BY <1>2, <1>9 DEF Looked
<1> QED BY <1>4, <1>5, <1>6, <1>7, <1>8, <1>9, RequestChanges

\* Logins and closings stay about accounts that were born.
LEMMA BornKept ==
  ASSUME Typed, Born, Next
  PROVE  Born'
<1> USE DEF Closing
<1> SUFFICES ASSUME NEW c \in Client, request'[c].op \in Closing \/ request'[c].pc = "session"
             PROVE  user'[request'[c].target] # Unborn
  BY DEF Born
<1>1. ASSUME request'[c].target = request[c].target,
             request[c].op \in Closing \/ request[c].pc = "session"
      PROVE  user'[request'[c].target] # Unborn
  <2>1. request[c].pc # "idle"
    BY <1>1 DEF Typed, TypeOK, References
  <2>2. request[c].target \in User
    BY <2>1 DEF Typed, References
  <2> QED BY <1>1, <2>2, OnlyGrows DEF Born
<1>2. ASSUME NEW u \in User, Setup(c, u)
      PROVE  user'[u] # Unborn
  BY <1>2 DEF Setup, NewUser, Unborn, Typed, TypeOK
<1>3. ASSUME NEW u \in User, Login(c, u)
      PROVE  user'[u] # Unborn
  BY <1>3, OnlyGrows DEF Login, Unborn
<1>4. ASSUME NEW s \in Session, NEW op \in SelfOps \cup AdminOps, NEW u \in User, Identify(c, s, op, u),
             op \in Closing
      PROVE  user'[u] # Unborn
  BY <1>4, OnlyGrows DEF Identify, SelfOps, AdminOps, Unborn
<1>5. CASE request'[c] = request[c] BY <1>1, <1>5
<1>6. CASE request'[c] = NoRequest BY <1>6 DEF NoRequest
<1>7. CASE SetsUp(c) BY <1>2, <1>7 DEF SetsUp, NewRequest
<1>8. CASE LogsIn(c) BY <1>3, <1>8 DEF LogsIn, NewRequest
<1>9. CASE IsIdentified(c) BY <1>4, <1>9 DEF IsIdentified
<1>10. CASE Looked(c) BY <1>1, <1>10 DEF Looked
<1> QED BY <1>5, <1>6, <1>7, <1>8, <1>9, <1>10, RequestChanges

\* What a login has verified holds until the login is crossed.
LEMMA VerifiedKept ==
  ASSUME Typed, Marked, Born, Verified, Next
  PROVE  Verified'
<1> DEFINE Goal(c) == /\ request'[c].pc = "session" /\ request'[c].target \notin crossed'
                      /\ Exists(request[c].target)'
                      => /\ user'[request'[c].target].state = "active"
                         /\ user'[request'[c].target].password = request'[c].password
<1> SUFFICES ASSUME NEW c \in Client PROVE Goal(c)
  BY DEF Verified
<1>1. ASSUME request'[c] = request[c], request[c].pc = "session",
             request[c].target \notin crossed', Exists(request[c].target)'
      PROVE  user'[request[c].target].state = "active" /\ user'[request[c].target].password = request[c].password
  <2> DEFINE u == request[c].target
  <2>0. u \in User /\ u \notin crossed /\ user[u] # Unborn
    BY <1>1, OnlyGrows DEF Typed, References, Born
  <2>1. Exists(u) => user[u].state = "active" /\ user[u].password = request[c].password
    BY <1>1, <2>0 DEF Verified
  <2>2. ~ \E d \in Client : request[d].op \in Closing /\ request[d].target = u
    BY <1>1, <2>0 DEF Marked
  <2>3. user'[u].state # "deleted"
    BY <1>1 DEF Exists
  <2>4. \/ user'[u] = user[u]
        \/ Exists(u) /\ user'[u].state = "active" /\ user'[u].password = user[u].password
    BY <2>0, <2>2, <2>3, AccountChanges DEF Closing
  <2> QED BY <1>1, <2>1, <2>4 DEF Exists
<1>2. CASE request'[c] = request[c] BY <1>1, <1>2 DEF Exists
<1>3. CASE request'[c] = NoRequest BY <1>3 DEF NoRequest
<1>4. ASSUME NEW u \in User, Setup(c, u), request'[c] = NewRequest("setup", "session", u)
      PROVE  Goal(c)
  <2>1. user'[u] = NewUser("admin") /\ user[u] = Unborn
    BY <1>4 DEF Setup, Typed, TypeOK
  <2> QED BY <1>4, <2>1 DEF NewRequest, NewUser, Unborn
<1>5. ASSUME NEW u \in User, Login(c, u), request'[c] = NewRequest("login", "session", u)
      PROVE  Goal(c)
  BY <1>5 DEF Login, NewRequest
<1>6. CASE SetsUp(c) BY <1>4, <1>6 DEF SetsUp
<1>7. CASE LogsIn(c) BY <1>5, <1>7 DEF LogsIn
<1>8. CASE IsIdentified(c) BY <1>8 DEF IsIdentified
<1>9. CASE Looked(c) BY <1>9 DEF Looked
<1> QED BY <1>2, <1>3, <1>6, <1>7, <1>8, <1>9, RequestChanges

\* A change of a password stays the account's own.
LEMMA OwnKept ==
  ASSUME Typed, Own, Next
  PROVE  Own'
<1> DEFINE Goal(c) == request'[c].op = "changePassword" =>
                        /\ request'[c].pc = "look" => request'[c].actor = request'[c].target
                        /\ request'[c].own \in Session /\ session'[request'[c].own] # Unused
                        /\ Open(request[c].own)' => session'[request'[c].own].user = request'[c].target
<1> SUFFICES ASSUME NEW c \in Client PROVE Goal(c)
  BY DEF Own
<1>1. ASSUME request'[c].op = request[c].op, request'[c].own = request[c].own,
             request'[c].target = request[c].target,
             request'[c].pc = "look" => request'[c].pc = request[c].pc /\ request'[c].actor = request[c].actor,
             request[c].op = "changePassword"
      PROVE  Goal(c)
  <2> DEFINE s == request[c].own
  <2>1. s \in Session /\ session[s] # Unused /\ (Open(s) => session[s].user = request[c].target)
    BY <1>1 DEF Own
  <2>2. session'[s] # Unused /\ (session'[s].state = "open" => session'[s].user = request[c].target)
    <3>1. CASE session'[s] = session[s] BY <2>1, <3>1 DEF Open
    <3>2. CASE session'[s] = Closed BY <3>2 DEF Closed, Unused
    <3>3. CASE Open(s) /\ session'[s].user = session[s].user /\ session'[s].state = "open"
      BY <2>1, <3>3 DEF Unused
    <3> QED BY <2>1, <3>1, <3>2, <3>3, SessionChanges
  <2> QED BY <1>1, <2>1, <2>2 DEF Own, Open
<1>2. CASE request'[c] = request[c] BY <1>1, <1>2
<1>3. CASE request'[c] = NoRequest BY <1>3 DEF NoRequest
<1>4. CASE SetsUp(c) BY <1>4 DEF SetsUp, NewRequest
<1>5. CASE LogsIn(c) BY <1>5 DEF LogsIn, NewRequest
<1>6. ASSUME NEW s \in Session, NEW op \in SelfOps \cup AdminOps, NEW u \in User, Identify(c, s, op, u),
             request'[c] = [op |-> op, pc |-> "look", actor |-> session[s].user, own |-> s,
                            target |-> u, ends |-> {}, password |-> 0]
      PROVE  Goal(c)
  <2>1. Open(s) /\ session' = session BY <1>6 DEF Identify
  <2>2. op = "changePassword" => u = session[s].user BY <1>6 DEF Identify, SelfOps
  <2> QED BY <1>6, <2>1, <2>2 DEF Open, Unused
<1>7. CASE IsIdentified(c) BY <1>6, <1>7 DEF IsIdentified
<1>8. CASE Looked(c) BY <1>1, <1>8 DEF Looked
<1> QED BY <1>2, <1>3, <1>4, <1>5, <1>7, <1>8, RequestChanges

\* While an account that nobody is logging in to is closed, its open sessions
\* become no more.
LEMMA NoNewSessions ==
  ASSUME Typed, Marked, Next, NEW c \in Client, request[c].op \in Closing, request[c].target \notin crossed
  PROVE  OpenSessions(request[c].target)' \subseteq OpenSessions(request[c].target)
         \/ request'[c].target # request[c].target
<1> SUFFICES ASSUME NEW s \in Session, session'[s].state = "open", session'[s].user = request[c].target
             PROVE  Open(s) /\ session[s].user = request[c].target
  BY DEF OpenSessions, Open
<1>1. CASE session'[s] = session[s] BY <1>1 DEF Open
<1>2. CASE session'[s] = Closed BY <1>2 DEF Closed
<1>3. ASSUME NEW d \in Client, request[d].pc = "session",
             session'[s] = NewSession(request[d].target, request[d].password)
      PROVE  FALSE
  BY <1>3 DEF Marked, NewSession
<1>4. CASE Open(s) /\ session'[s].user = session[s].user BY <1>4
<1> QED BY <1>1, <1>2, <1>3, <1>4, SessionChanges

\* What a closing has loaded keeps covering the sessions that are open.
LEMMA LoadedKept ==
  ASSUME Typed, Marked, Own, Loaded, Next
  PROVE  Loaded'
<1> DEFINE Goal(c) == /\ request'[c].pc = "commit" /\ request'[c].target \notin crossed'
                      => /\ request'[c].op = "disable" => OpenSessions(request[c].target)' \subseteq request'[c].ends
                         /\ request'[c].op = "changePassword" =>
                              OpenSessions(request[c].target)' \subseteq request'[c].ends \cup {request'[c].own}
<1> SUFFICES ASSUME NEW c \in Client PROVE Goal(c)
  BY DEF Loaded
<1>1. CASE request'[c] = request[c]
  <2> SUFFICES ASSUME request[c].pc = "commit", request[c].target \notin crossed,
                      request[c].op \in {"disable", "changePassword"}
               PROVE  Goal(c)
    BY <1>1, OnlyGrows
  <2>1. OpenSessions(request[c].target)' \subseteq OpenSessions(request[c].target)
    BY <1>1, NoNewSessions DEF Closing
  <2> QED BY <1>1, <2>1 DEF Loaded
<1>2. CASE request'[c] = NoRequest BY <1>2 DEF NoRequest
<1>3. CASE SetsUp(c) BY <1>3 DEF SetsUp, NewRequest
<1>4. CASE LogsIn(c) BY <1>4 DEF LogsIn, NewRequest
<1>5. CASE IsIdentified(c) BY <1>5 DEF IsIdentified
<1>6. CASE Looked(c)
  <2>1. OpenSessions(request[c].target)' = OpenSessions(request[c].target)
    BY <1>6 DEF Looked, OpenSessions, Open
  <2>2. CASE request[c].op = "disable"
    BY <1>6, <2>1, <2>2 DEF Looked, ToEnd, DisableEnds
  <2>3. CASE request[c].op = "changePassword"
    <3>1. request[c].actor = request[c].target BY <1>6, <2>3 DEF Looked, Own
    <3>2. request'[c].ends = OpenSessions(request[c].target) \ {request[c].own} /\ request'[c].own = request[c].own
      BY <1>6, <2>3, <3>1 DEF Looked, ToEnd, PasswordEnds, Others
    <3> QED BY <1>6, <2>1, <2>3, <3>2 DEF Looked
  <2> QED BY <1>6, <2>2, <2>3 DEF Looked
<1> QED BY <1>1, <1>2, <1>3, <1>4, <1>5, <1>6, RequestChanges

\* Every step keeps the promise about old access.
LEMMA OldAccessKept ==
  ASSUME Typed, Access, Next
  PROVE  OldAccessEnds'
<1>0. Marked /\ Verified /\ Own /\ Loaded /\ OldAccessEnds /\ TypeOK /\ crossed \subseteq crossed'
  BY OnlyGrows DEF Access, Typed
<1> SUFFICES ASSUME NEW s \in Session, session'[s].state = "open", session'[s].user \notin crossed'
             PROVE  /\ user'[session'[s].user].state = "active"
                    /\ user'[session'[s].user].password = session'[s].password
  BY DEF OldAccessEnds, Open
<1>1. CASE session'[s] = session[s]
  <2> DEFINE u == session[s].user
  <2>0. u \in User /\ u \notin crossed /\ Exists(u) /\ Open(s) /\ s \in OpenSessions(u)
    BY <1>0, <1>1 DEF Open, OpenSessions, Typed, TypeOK, References
  <2>1. user[u].state = "active" /\ user[u].password = session[s].password
    BY <1>0, <2>0 DEF OldAccessEnds
  <2>2. session'[s] # Closed
    BY DEF Closed
  <2>3. ASSUME NEW c \in Client, request[c].pc = "commit", request[c].target = u, request[c].op = "disable",
               session' = Ended(request[c].ends)
        PROVE  FALSE
    <3>1. s \in request[c].ends BY <1>0, <2>0, <2>3 DEF Loaded
    <3> QED BY <2>2, <2>3, <3>1, EndedIs
  <2>4. ASSUME NEW c \in Client, request[c].pc = "commit", request[c].target = u,
               request[c].op = "changePassword", ChangePassword(request[c])
        PROVE  user'[u].state = "active" /\ user'[u].password = session'[s].password
    <3>1. s \in request[c].ends \cup {request[c].own} BY <1>0, <2>0, <2>4 DEF Loaded
    <3>2. s = request[c].own /\ session'[s] = [session[s] EXCEPT !.password = user'[u].password]
      BY <1>0, <2>0, <2>2, <2>4, <3>1, PasswordChanged
    <3>3. session'[s].password = user'[u].password BY <1>0, <3>2 DEF TypeOK
    <3>4. user'[u].state = user[u].state BY <1>0, <2>0, <2>4, PasswordChanged
    <3> QED BY <2>1, <3>3, <3>4
  <2>5. user[u] # Unborn BY <2>0 DEF Exists, Unborn
  <2> QED BY <1>1, <2>0, <2>1, <2>2, <2>3, <2>4, <2>5, AccountChanges
<1>2. CASE session'[s] = Closed BY <1>2 DEF Closed
<1>3. ASSUME NEW c \in Client, request[c].pc = "session", Exists(request[c].target), UNCHANGED <<user, crossed>>,
             session'[s] = NewSession(request[c].target, request[c].password)
      PROVE  /\ user'[session'[s].user].state = "active"
             /\ user'[session'[s].user].password = session'[s].password
  BY <1>0, <1>3 DEF Verified, NewSession
<1>4. ASSUME NEW c \in Client, Open(s), session'[s].user = session[s].user, request[c].pc = "commit",
             request[c].op = "changePassword", request[c].own = s, ChangePassword(request[c]),
             session'[s].password = user'[request[c].target].password
      PROVE  /\ user'[session'[s].user].state = "active"
             /\ user'[session'[s].user].password = session'[s].password
  <2>1. session[s].user = request[c].target /\ request[c].target \in User
    BY <1>0, <1>4 DEF Own, Typed, References
  <2>2. user[request[c].target].state = "active" BY <1>0, <1>4, <2>1 DEF OldAccessEnds
  <2>3. user'[request[c].target].state = "active" BY <1>0, <1>4, <2>1, <2>2, PasswordChanged
  <2> QED BY <1>4, <2>1, <2>3
<1> QED BY <1>1, <1>2, <1>3, <1>4, SessionChanges

-----------------------------------------------------------------------------
(* The theorems *)

\* The inductive invariant holds in the initial state.
LEMMA Initially == Init => IInv
<1> SUFFICES ASSUME Init PROVE IInv
  OBVIOUS
<1> USE PasswordAssumption, NobodyAssumption DEF Init, Unborn, Unused, NoRequest
<1>1. TypeOK
  <2>1. Unborn \in Account /\ Unused \in Sitting /\ NoRequest \in Call
    BY DEF Account, Sitting, Call, Role
  <2>2. \A s \in Session : ~Open(s)
    BY DEF Open
  <2> HIDE DEF Unborn, Unused, NoRequest
  <2> QED BY <2>1, <2>2, TypesByName
<1>2. References BY DEF References, Open
<1>3. Survivors /\ AdministratorRemains
  BY DEF Survivors, AdministratorRemains, Removals, Users, Exists
<1>4. Access
  BY DEF Access, Marked, Born, Verified, Own, Loaded, OldAccessEnds, Open, Closing
<1> QED BY <1>1, <1>2, <1>3, <1>4 DEF IInv, Typed

\* Every step keeps it.
LEMMA Inductively == IInv /\ [Next]_vars => IInv'
<1> SUFFICES ASSUME IInv, [Next]_vars PROVE IInv'
  OBVIOUS
<1>0. Typed /\ AdministratorRemains /\ Survivors /\ Access BY DEF IInv
<1>1. CASE Next
  <2>1. Typed' BY <1>0, <1>1, TypedKept
  <2>2. Survivors' /\ AdministratorRemains' BY <1>0, <1>1, SurvivorsKept
  <2>3. Access'
    BY <1>0, <1>1, MarkedKept, BornKept, VerifiedKept, OwnKept, LoadedKept, OldAccessKept, ZenonT(60) DEF Access
  <2> QED BY <2>1, <2>2, <2>3 DEF IInv
<1>2. CASE UNCHANGED vars
  BY <1>0, <1>2 DEF vars, IInv, Typed, TypeOK, References, Survivors, AdministratorRemains, Access, Marked, Born,
     Verified, Own, Loaded, OldAccessEnds, Open, OpenSessions, Exists, Users, Admins, ActiveAdmins
<1> QED BY <1>1, <1>2

\* Every variable has its type, and an open session has its user: the cascade of
\* delete_user and the foreign key that create_session runs into leave none
\* without one.
THEOREM TypeCorrect == Spec => []TypeOK
<1>1. IInv => TypeOK BY DEF IInv, Typed
<1> QED BY <1>1, Initially, Inductively, PTL DEF Spec

\* A panel with users has an active administrator, as long as removals of
\* accounts do not overlap (update_user_status, delete_user).
THEOREM SomebodyAdministers == Spec => []AdministratorRemains
<1>1. IInv => AdministratorRemains BY DEF IInv
<1> QED BY <1>1, Initially, Inductively, PTL DEF Spec

\* Disabling an account and changing a password end the old access to it,
\* however the handlers interleave, unless a login crosses them.
THEOREM AccessEnds == Spec => []OldAccessEnds
<1>1. IInv => OldAccessEnds BY DEF IInv, Access
<1> QED BY <1>1, Initially, Inductively, PTL DEF Spec
=============================================================================
