------------------------------- MODULE SignIn -------------------------------
(***************************************************************************)
(* Signing in to one account (auth.py, auth_web.py): the limit on failed   *)
(* logins from one address, the second factor, and its recovery codes.     *)
(*                                                                         *)
(* Every handler reads the row of the account, decides without an await,   *)
(* and commits the columns that it changed; the row may have changed       *)
(* between the read and the commit.  Passwords are right or wrong; a time  *)
(* code is right when it comes from a phone with the secret of the row.    *)
(***************************************************************************)
EXTENDS Naturals, FiniteSets

CONSTANTS
  Client,      \* requests served at the same time, all from one address
  Limit,       \* failed logins that are accepted in one window
  Count,       \* RECOVERY_CODE_COUNT
  MaxRequests  \* bound: requests

ASSUME ParameterAssumption == {Limit, Count} \subseteq Nat \ {0}
ASSUME BoundAssumption == MaxRequests \in Nat
ASSUME ClientAssumption == IsFiniteSet(Client)

VARIABLES
  account,   \* the columns totp_secret, totp_enabled, totp_recovery_codes
  failures,  \* auth.login_failed events of the last 15 minutes
  request,
  phone,     \* the secrets in the owner's authenticator
  known,     \* the recovery codes that the owner was shown
  requests,
  issued, used,  \* history: the codes of the last commit that set them; those accepted
  version, overwrote  \* history: commits, and whether one was based on an older row

history == <<issued, used, version, overwrote>>
vars == <<account, failures, request, phone, known, requests, history>>

NoSecret == 0
Secret == 0 .. MaxRequests          \* pyotp.random_base32, by the request that drew it
Code == (1 .. MaxRequests) \X (1 .. Count)
NoCode == <<0, 0>>
Account == [secret : Secret, enabled : BOOLEAN, codes : SUBSET Code]
Changes == {"enable", "disable", "regenerate", "reset"}

Idle == [op |-> "none", step |-> "done"]

Init ==
  /\ account = [secret |-> NoSecret, enabled |-> FALSE, codes |-> {}]
  /\ failures = 0 /\ request = [c \in Client |-> Idle]
  /\ phone = {} /\ known = {} /\ requests = 0
  /\ issued = {} /\ used = {} /\ version = 0 /\ overwrote = FALSE

At(c, step) == request[c].step = step
End(c) == request' = [request EXCEPT ![c] = Idle]
-----------------------------------------------------------------------------
(* Reading and deciding *)

\* generate_recovery_codes
Generated(n) == {n} \X (1 .. Count)

\* Mutant: an accepted recovery code stays in the list.
RemainingAll(codes, supplied) == codes

\* consume_recovery_code
Remaining(codes, supplied) == codes \ {supplied}

\* verify_second_factor: the code of the phone, or one of the list.
AcceptsTime(row) == row.secret \in phone
AcceptsCode(row, supplied) == supplied \in row.codes

Typed == known \cup {NoCode}   \* NoCode is the code of the phone

Accepts(row, supplied) ==
  IF supplied = NoCode THEN AcceptsTime(row) ELSE AcceptsCode(row, supplied)

\* The row as its read left it, and what the request writes to it.
Decided(op, row, new, supplied) ==
  [op |-> op, step |-> "commit", row |-> row, new |-> new, code |-> supplied, at |-> version]

\* Mutant: six failures in a window.
FullLate == failures > Limit

Full == failures >= Limit

\* The limit is looked at first, ...
Login(c) ==
  /\ request[c] = Idle /\ requests < MaxRequests
  /\ requests' = requests + 1
  /\ request' = [request EXCEPT ![c] = IF Full THEN Idle ELSE [op |-> "login", step |-> "verify"]]
  /\ UNCHANGED <<account, failures, phone, known, history>>

\* ... then the row is read; a failure is recorded, and a recovery code used
\* up, in a later step.
Verify(c) ==
  /\ At(c, "verify")
  /\ \/ request' = [request EXCEPT ![c] = [op |-> "login", step |-> "fail"]]
     \/ ~account.enabled /\ End(c)
     \/ AcceptsTime(account) /\ End(c)
     \/ \E supplied \in known :
          /\ account.enabled /\ AcceptsCode(account, supplied)
          /\ request' = [request EXCEPT ![c] = Decided("login", account,
               [account EXCEPT !.codes = Remaining(@, supplied)], supplied)]
  /\ UNCHANGED <<account, failures, phone, known, requests, history>>

Fail(c) ==
  /\ At(c, "fail") /\ failures' = failures + 1
  /\ End(c)
  /\ UNCHANGED <<account, phone, known, requests, history>>

\* A failure leaves the window.
WindowMoves ==
  /\ failures > 0 /\ failures' = failures - 1
  /\ UNCHANGED <<account, request, phone, known, requests, history>>

\* account_context draws a secret for an account that has none.
Page(c) ==
  /\ request[c] = Idle /\ requests < MaxRequests
  /\ requests' = requests + 1
  /\ LET new == IF account.secret = NoSecret THEN [account EXCEPT !.secret = requests'] ELSE account
     IN request' = [request EXCEPT ![c] = Decided("page", account, new, NoCode)]
  /\ UNCHANGED <<account, failures, phone, known, history>>

\* Mutant: disabling keeps the recovery codes.
ChangedButCodes(op, row, n) ==
  IF op \in {"enable", "regenerate"} THEN [row EXCEPT !.enabled = TRUE, !.codes = Generated(n)]
  ELSE [row EXCEPT !.enabled = FALSE, !.secret = n]

\* update_two_factor and reset_user_two_factor
Changed(op, row, n) ==
  IF op \in {"enable", "regenerate"} THEN [row EXCEPT !.enabled = TRUE, !.codes = Generated(n)]
  ELSE [secret |-> n, enabled |-> FALSE, codes |-> {}]

Change(c, op) ==
  /\ request[c] = Idle /\ requests < MaxRequests
  /\ requests' = requests + 1
  /\ \E supplied \in Typed :
       /\ op # "reset" => account.secret # NoSecret /\ Accepts(account, supplied)
       /\ op = "reset" => supplied = NoCode
       /\ request' = [request EXCEPT ![c] =
            Decided(op, account, Changed(op, account, requests'), supplied)]
  /\ UNCHANGED <<account, failures, phone, known, history>>
-----------------------------------------------------------------------------
(* Writing and answering *)

\* Mutant: the whole row is written.
WrittenWhole(old, new) == new

\* SQLAlchemy writes the columns that differ from those that were read.
Written(old, new) ==
  [column \in DOMAIN account |->
     IF new[column] = old[column] THEN account[column] ELSE new[column]]

Commit(c) ==
  /\ At(c, "commit")
  /\ LET r == request[c]
     IN /\ account' = Written(r.row, r.new)
        /\ issued' = IF r.op \in Changes THEN r.new.codes ELSE issued
        /\ used' = IF r.code = NoCode THEN used ELSE used \cup {r.code}
        /\ IF r.new = r.row THEN UNCHANGED <<version, overwrote>>
           ELSE version' = version + 1 /\ overwrote' = (overwrote \/ version # r.at)
        /\ IF r.op \in {"login", "reset"} THEN End(c)
           ELSE request' = [request EXCEPT ![c].step = "show"]
  /\ UNCHANGED <<failures, phone, known, requests>>

\* The page shows the codes that were made, and the secret of the object in
\* memory; the owner adds it to the phone while the factor is off.
Show(c) ==
  /\ At(c, "show")
  /\ known' = IF request[c].op \in {"enable", "regenerate"} THEN known \cup request[c].new.codes ELSE known
  /\ phone' = IF request[c].new.enabled THEN phone ELSE phone \cup {request[c].new.secret}
  /\ End(c)
  /\ UNCHANGED <<account, failures, requests, history>>

\* The answer is lost, or the panel stops.
Lost(c) ==
  /\ request[c] # Idle
  /\ End(c)
  /\ UNCHANGED <<account, failures, phone, known, requests, history>>

Step(c) == Verify(c) \/ Fail(c) \/ Commit(c) \/ Show(c) \/ Lost(c)

Next ==
  \/ \E c \in Client : Login(c) \/ Page(c) \/ (\E op \in Changes : Change(c, op)) \/ Step(c)
  \/ WindowMoves

Spec == Init /\ [][Next]_vars
-----------------------------------------------------------------------------
(* Properties *)

\* Every variable has its type, and there are codes only for a factor that is on.
TypeOK ==
  /\ account \in Account /\ phone \subseteq Secret \ {NoSecret} /\ known \subseteq Code /\ used \subseteq Code
  /\ version <= requests /\ issued \subseteq Code
  /\ account.codes # {} /\ ~overwrote => account.enabled /\ account.secret # NoSecret

\* Logins that run at the same time may each fail once more than the limit,
\* and no more than that: the count is never older than the logins in flight.
Throttled == failures <= Limit + Cardinality(Client) - 1

\* Unless a commit overwrites a row that changed since it was read, the factor is
\* the owner's, however logins, changes and resets follow each other and whichever
\* answers are lost: the list in the row is what was issued last without what was
\* used, so that no code opens the account twice and none outlives its
\* generation, and a factor that is on is the one in the owner's phone.
FactorFits ==
  ~overwrote =>
    /\ account.codes = issued \ used
    /\ account.enabled => account.secret \in phone
=============================================================================
