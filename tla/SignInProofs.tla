----------------------------- MODULE SignInProofs -----------------------------
(***************************************************************************)
(* Theorems about SignIn for every finite set of clients, every limit and  *)
(* every number of recovery codes.                                         *)
(***************************************************************************)
EXTENDS SignIn, Integers, FiniteSetTheorems, TLAPS

(* The inductive invariant *)

\* What was drawn by the requests so far.
DrawnSecret == 0 .. requests
DrawnCode == (1 .. requests) \X (1 .. Count)
DrawnRow == [secret : DrawnSecret, enabled : BOOLEAN, codes : SUBSET DrawnCode]

Operation == Changes \cup {"login", "page"}
Attempt == [op : {"login"}, step : {"verify", "fail"}]
Decision == [op : Operation, step : {"commit", "show"}, row : DrawnRow, new : DrawnRow,
             code : DrawnCode \cup {NoCode}, at : Nat]

Types ==
  /\ account \in DrawnRow
  /\ request \in [Client -> {Idle} \cup Attempt \cup Decision]
  /\ failures \in Nat /\ requests \in 0 .. MaxRequests /\ version \in Nat /\ overwrote \in BOOLEAN
  /\ phone \subseteq DrawnSecret \ {NoSecret}
  /\ known \subseteq DrawnCode /\ used \subseteq DrawnCode /\ issued \subseteq DrawnCode

Tries(c) == At(c, "verify") \/ At(c, "fail")
Trying == {c \in Client : Tries(c)}
Pending == {c \in Client : At(c, "commit")}
HasDecided(c) == At(c, "commit") \/ At(c, "show")
Generating(c) == HasDecided(c) /\ request[c].op \in {"enable", "regenerate"}

\* What each operation writes.
Writes(r) ==
  /\ r.op \in {"enable", "regenerate"} =>
       /\ r.new.enabled /\ r.new.secret = r.row.secret /\ r.new.secret # NoSecret
  /\ r.op \in {"disable", "reset"} =>
       ~r.new.enabled /\ r.new.codes = {} /\ r.new.secret # NoSecret
  /\ r.op = "login" =>
       /\ r.code # NoCode /\ r.new.codes = r.row.codes \ {r.code}
       /\ r.new.secret = r.row.secret /\ r.new.enabled = r.row.enabled
  /\ r.op = "page" =>
       /\ r.code = NoCode /\ r.new.secret # NoSecret
       /\ r.new.codes = r.row.codes /\ r.new.enabled = r.row.enabled
  /\ r.op # "page" => r.new # r.row

Decisions ==
  \A c \in Client : HasDecided(c) =>
    /\ Writes(request[c]) /\ request[c].at <= version
    /\ At(c, "show") => request[c].op \notin {"login", "reset"}
    /\ At(c, "commit") /\ request[c].at = version => request[c].row = account

\* Recovery codes that were made and not yet shown.
Secrecy ==
  \A c \in Client : Generating(c) =>
    /\ \A d \in Client : Generating(d) /\ d # c =>
         request[c].new.codes \cap request[d].new.codes = {}
    /\ At(c, "commit") =>
         /\ request[c].new.codes \cap (known \cup used) = {}
         /\ \A d \in Client : HasDecided(d) => request[d].code \notin request[c].new.codes

\* A row that is the owner's.
Owned(row) ==
  /\ row.enabled => row.secret \in phone
  /\ row.codes # {} => row.enabled /\ row.secret # NoSecret

Fits ==
  ~overwrote =>
    /\ account.codes = issued \ used
    /\ Owned(account)
    /\ \A c \in Client : At(c, "commit") => Owned(request[c].new)

Counts ==
  /\ failures + Cardinality(Trying) <= Limit + Cardinality(Client) - 1
  /\ version + Cardinality(Pending) + Cardinality(Trying) <= requests

IInv == Types /\ Decisions /\ Secrecy /\ Fits /\ Counts
-----------------------------------------------------------------------------
(* What a step does *)

\* What was drawn stays drawn.
LEMMA Drawn ==
  ASSUME requests \in Nat, requests' \in Nat, requests <= requests'
  PROVE  /\ DrawnSecret \subseteq DrawnSecret' /\ DrawnCode \subseteq DrawnCode'
         /\ DrawnRow \subseteq DrawnRow' /\ Decision \subseteq Decision'
<1>1. DrawnSecret \subseteq DrawnSecret' /\ DrawnCode \subseteq DrawnCode'
  BY DEF DrawnSecret, DrawnCode
<1>2. DrawnRow \subseteq DrawnRow'
  BY <1>1 DEF DrawnRow
<1>3. Decision \subseteq Decision'
  BY <1>1, <1>2 DEF Decision
<1> QED BY <1>1, <1>2, <1>3

\* The step of a request says what it is.
LEMMA Kinds ==
  ASSUME Types, NEW c \in Client
  PROVE  /\ At(c, "verify") \/ At(c, "fail") => request[c] \in Attempt
         /\ HasDecided(c) => request[c] \in Decision
         /\ request[c] = Idle \/ At(c, "verify") \/ At(c, "fail") \/ HasDecided(c)
         /\ request[c] = Idle => ~HasDecided(c) /\ ~At(c, "verify") /\ ~At(c, "fail")
BY DEF Types, HasDecided, At, Idle, Attempt, Decision

\* Client c decides to write new over the row that it has just read.
Decides(c, op, new, supplied) ==
  /\ request' = [request EXCEPT ![c] = Decided(op, account, new, supplied)]
  /\ UNCHANGED <<account, failures, phone, known, history>>
  /\ request[c] = Idle \/ At(c, "verify")
  /\ op \in Operation /\ supplied \in known \cup {NoCode} /\ new \in DrawnRow'
  /\ requests <= requests' /\ requests' \in 0 .. MaxRequests
  /\ Writes(Decided(op, account, new, supplied))
  /\ op \in {"enable", "regenerate"} => new.codes = Generated(requests') /\ requests' = requests + 1
  /\ ~overwrote => Owned(new)

\* Client c leaves everything but the failures as it is, and has decided nothing.
Passes(c) ==
  /\ \E r \in {Idle} \cup Attempt : request' = [request EXCEPT ![c] = r]
  /\ UNCHANGED <<account, phone, known, history>>
  /\ requests <= requests' /\ requests' \in 0 .. MaxRequests
  /\ failures' \in Nat

\* A login is refused, or decides about a row of the account.
LEMMA VerifyDecides ==
  ASSUME IInv, NEW c \in Client, Verify(c)
  PROVE  Passes(c) \/ \E supplied \in known, new \in DrawnRow : Decides(c, "login", new, supplied)
<1>0. Types /\ requests' = requests
  BY DEF IInv, Verify
<1>1. CASE \/ request' = [request EXCEPT ![c] = [op |-> "login", step |-> "fail"]]
           \/ End(c)
  BY <1>0, <1>1 DEF Verify, Passes, End, Attempt, Types
<1>2. ASSUME NEW supplied \in known, account.enabled, supplied \in account.codes,
             request' = [request EXCEPT ![c] = Decided("login", account,
               [account EXCEPT !.codes = Remaining(@, supplied)], supplied)]
      PROVE  \E new \in DrawnRow : Decides(c, "login", new, supplied)
  <2> DEFINE new == [account EXCEPT !.codes = Remaining(@, supplied)]
             r == Decided("login", account, new, supplied)
  <2>1. /\ new \in DrawnRow /\ new.secret = account.secret /\ new.enabled = account.enabled
        /\ new.codes = account.codes \ {supplied}
    BY <1>0 DEF Types, DrawnRow, Remaining
  <2>2. new # account
    BY <1>2, <2>1
  <2>3. supplied # NoCode
    BY <1>0 DEF Types, DrawnCode, NoCode
  <2> HIDE DEF new
  <2>4. Writes(r)
    BY <2>1, <2>2, <2>3 DEF Writes, Decided
  <2>5. ~overwrote => Owned(new)
    BY <2>1 DEF IInv, Fits, Owned
  <2>6. new \in DrawnRow'
    BY <1>0, <2>1, Drawn DEF Types
  <2>7. request' = [request EXCEPT ![c] = r]
    BY <1>2 DEF new
  <2>8. Decides(c, "login", new, supplied)
    BY <1>0, <2>4, <2>5, <2>6, <2>7 DEF Verify, Decides, Operation, Types
  <2> QED BY <2>1, <2>8
<1> QED BY <1>1, <1>2 DEF Verify, AcceptsCode

\* So does the page that sets a factor up.
LEMMA PageDecides ==
  ASSUME IInv, NEW c \in Client, Page(c)
  PROVE  \E new \in DrawnRow' : Decides(c, "page", new, NoCode)
<1>0. Types /\ requests' = requests + 1 /\ requests' \in 0 .. MaxRequests /\ requests <= requests'
  BY BoundAssumption DEF IInv, Page, Types
<1> DEFINE new == IF account.secret = NoSecret THEN [account EXCEPT !.secret = requests'] ELSE account
           r == Decided("page", account, new, NoCode)
<1>1. /\ new \in DrawnRow' /\ new.enabled = account.enabled /\ new.codes = account.codes
      /\ new.secret = IF account.secret = NoSecret THEN requests' ELSE account.secret
      /\ new.secret # NoSecret
  <2>1. account \in DrawnRow' /\ requests' \in DrawnSecret' /\ requests' # 0
    BY <1>0, Drawn DEF Types, DrawnSecret
  <2> QED BY <2>1 DEF DrawnRow, NoSecret
<1> HIDE DEF new
<1>2. Writes(r)
  BY <1>1 DEF Writes, Decided
<1>3. ~overwrote => Owned(new)
  <2>1. account.enabled /\ ~overwrote => account.secret # NoSecret
    BY <1>0 DEF IInv, Fits, Owned, Types
  <2> QED BY <1>1, <2>1 DEF IInv, Fits, Owned
<1>4. request' = [request EXCEPT ![c] = r]
  BY DEF Page, new
<1> QED BY <1>0, <1>1, <1>2, <1>3, <1>4 DEF Page, Decides, Operation

\* So do the changes of the factor.
LEMMA ChangeDecides ==
  ASSUME IInv, NEW c \in Client, NEW op \in Changes, Change(c, op)
  PROVE  \E new \in DrawnRow', supplied \in Typed : Decides(c, op, new, supplied)
<1>0. Types /\ requests' = requests + 1 /\ requests' \in 0 .. MaxRequests /\ requests <= requests'
  BY BoundAssumption DEF IInv, Change, Types
<1>1. PICK supplied \in Typed :
        /\ op # "reset" => account.secret # NoSecret /\ Accepts(account, supplied)
        /\ op = "reset" => supplied = NoCode
        /\ request' = [request EXCEPT ![c] =
             Decided(op, account, Changed(op, account, requests'), supplied)]
  BY DEF Change
<1> DEFINE new == Changed(op, account, requests')
           r == Decided(op, account, new, supplied)
<1>2. account \in DrawnRow' /\ requests' \in DrawnSecret' /\ requests' # NoSecret
      /\ Generated(requests') \subseteq DrawnCode'
  BY <1>0, Drawn DEF Types, DrawnSecret, Generated, DrawnCode, NoSecret
<1>3. CASE op \in {"enable", "regenerate"}
  <2>1. new = [account EXCEPT !.enabled = TRUE, !.codes = Generated(requests')]
    BY <1>3 DEF Changed
  <2>2. /\ new \in DrawnRow' /\ new.enabled /\ new.codes = Generated(requests')
        /\ new.secret = account.secret
    BY <1>2, <2>1 DEF DrawnRow
  <2>3. new # account
    <3>1. <<requests', 1>> \in new.codes /\ <<requests', 1>> \notin account.codes
      BY <1>0, <2>2, ParameterAssumption DEF Generated, Types, DrawnRow, DrawnCode
    <3> QED BY <3>1
  <2>4. account.secret # NoSecret /\ (~overwrote => account.secret \in phone)
    <3>1. CASE supplied = NoCode
      BY <1>1, <1>3, <3>1 DEF Accepts, AcceptsTime
    <3>2. CASE supplied # NoCode
      <4>1. supplied \in account.codes
        BY <1>1, <1>3, <3>2 DEF Accepts, AcceptsCode
      <4> QED BY <1>1, <1>3, <4>1 DEF IInv, Fits, Owned
    <3> QED BY <3>1, <3>2
  <2> HIDE DEF new
  <2>5. Writes(r)
    BY <1>3, <2>2, <2>3, <2>4 DEF Writes, Decided
  <2>6. ~overwrote => Owned(new)
    BY <2>2, <2>4 DEF Owned
  <2>7. request' = [request EXCEPT ![c] = r]
    BY <1>1 DEF new
  <2> QED BY <1>0, <1>3, <2>2, <2>5, <2>6, <2>7 DEF Change, Decides, Operation, Typed
<1>4. CASE op \in {"disable", "reset"}
  <2>1. new = [secret |-> requests', enabled |-> FALSE, codes |-> {}]
    BY <1>4 DEF Changed
  <2>2. /\ new \in DrawnRow' /\ ~new.enabled /\ new.codes = {} /\ new.secret = requests'
    BY <1>2, <2>1 DEF DrawnRow
  <2>3. new # account
    BY <1>0, <2>2 DEF Types, DrawnRow, DrawnSecret
  <2> HIDE DEF new
  <2>4. Writes(r)
    BY <1>2, <1>4, <2>2, <2>3 DEF Writes, Decided
  <2>5. Owned(new)
    BY <2>2 DEF Owned
  <2>6. request' = [request EXCEPT ![c] = r]
    BY <1>1 DEF new
  <2> QED BY <1>0, <1>4, <2>2, <2>4, <2>5, <2>6 DEF Change, Decides, Operation, Typed
<1> QED BY <1>3, <1>4 DEF Changes

\* Every step is one of these.
LEMMA Steps ==
  ASSUME IInv, [Next]_vars
  PROVE  \/ \E c \in Client : Passes(c) \/ Commit(c) \/ Show(c)
         \/ \E c \in Client, op \in Operation, new \in DrawnRow', supplied \in Typed :
              Decides(c, op, new, supplied)
         \/ /\ UNCHANGED <<account, request, phone, known, requests, history>>
            /\ failures' \in Nat
<1>0. Types
  BY DEF IInv
<1>1. ASSUME NEW c \in Client, Login(c) PROVE Passes(c)
  <2>1. requests' \in 0 .. MaxRequests /\ requests <= requests'
    BY <1>0, <1>1, BoundAssumption DEF Login, Types
  <2> QED BY <1>0, <1>1, <2>1 DEF Login, Passes, Attempt, Types
<1>2. ASSUME NEW c \in Client, Fail(c) \/ Lost(c) PROVE Passes(c)
  BY <1>0, <1>2 DEF Fail, Lost, End, Passes, Types
<1>3. ASSUME NEW c \in Client, Verify(c)
      PROVE  Passes(c) \/ \E op \in Operation, new \in DrawnRow', supplied \in Typed :
               Decides(c, op, new, supplied)
  BY <1>3, VerifyDecides DEF Decides, Typed
<1>4. ASSUME NEW c \in Client, Page(c)
      PROVE  \E op \in Operation, new \in DrawnRow', supplied \in Typed :
               Decides(c, op, new, supplied)
  BY <1>4, PageDecides DEF Operation, Typed
<1>5. ASSUME NEW c \in Client, NEW op \in Changes, Change(c, op)
      PROVE  \E o \in Operation, new \in DrawnRow', supplied \in Typed :
               Decides(c, o, new, supplied)
  BY <1>5, ChangeDecides DEF Operation
<1>6. CASE WindowMoves
  BY <1>0, <1>6 DEF WindowMoves, Types
<1>7. CASE UNCHANGED vars
  BY <1>0, <1>7 DEF vars, Types
<1> QED BY <1>1, <1>2, <1>3, <1>4, <1>5, <1>6, <1>7 DEF Next, Step
-----------------------------------------------------------------------------
(* The row after a commit *)

\* Written to the row that was read, it is the new row.
LEMMA WrittenFresh ==
  ASSUME NEW new \in DrawnRow, account \in DrawnRow
  PROVE  Written(account, new) = new
<1>1. DOMAIN account = {"secret", "enabled", "codes"} /\ DOMAIN new = DOMAIN account
  BY DEF DrawnRow
<1>2. Written(account, new) = [column \in DOMAIN account |-> new[column]]
  BY DEF Written
<1> QED BY <1>1, <1>2 DEF DrawnRow

\* A request that changes nothing writes nothing.
LEMMA WrittenSame ==
  ASSUME NEW new, account \in DrawnRow
  PROVE  Written(new, new) = account
BY DEF Written, DrawnRow

\* A commit writes a row.
LEMMA WrittenTyped ==
  ASSUME NEW old \in DrawnRow, NEW new \in DrawnRow, account \in DrawnRow
  PROVE  Written(old, new) \in DrawnRow
<1> DEFINE w == Written(old, new)
<1>1. w = [secret |-> w.secret, enabled |-> w.enabled, codes |-> w.codes]
  BY DEF Written, DrawnRow
<1>2. w.secret \in DrawnSecret /\ w.enabled \in BOOLEAN /\ w.codes \in SUBSET DrawnCode
  BY DEF Written, DrawnRow
<1> QED BY <1>1, <1>2 DEF DrawnRow

\* What a commit finds and does.
LEMMA Commits ==
  ASSUME IInv, NEW c \in Client, Commit(c)
  PROVE  LET r == request[c] IN
         /\ HasDecided(c) /\ r \in Decision /\ Writes(r)
         /\ account' = Written(r.row, r.new) /\ account' \in DrawnRow
         /\ r.new = r.row => r.op = "page" /\ account' = account /\ version' = version
                             /\ overwrote' = overwrote
         /\ r.new # r.row => version' = version + 1 /\ overwrote' = (overwrote \/ version # r.at)
         /\ ~overwrote' => ~overwrote /\ (r.new = r.row \/ (r.row = account /\ account' = r.new))
         /\ UNCHANGED <<failures, phone, known, requests>>
<1>1. HasDecided(c) /\ request[c] \in Decision /\ Writes(request[c]) /\ Types
  BY Kinds DEF Commit, HasDecided, IInv, Decisions
<1>2. /\ request[c].row \in DrawnRow /\ request[c].new \in DrawnRow /\ account \in DrawnRow
      /\ overwrote \in BOOLEAN
  BY <1>1 DEF Decision, Types
<1>3. account' = Written(request[c].row, request[c].new) /\ account' \in DrawnRow
  BY <1>2, WrittenTyped DEF Commit
<1>4. request[c].new = request[c].row =>
        /\ request[c].op = "page" /\ account' = account /\ version' = version
        /\ overwrote' = overwrote
  BY <1>1, <1>2, <1>3, WrittenSame DEF Commit, Writes
<1>5. request[c].new # request[c].row =>
        version' = version + 1 /\ overwrote' = (overwrote \/ version # request[c].at)
  BY DEF Commit
<1>6. ASSUME ~overwrote', request[c].new # request[c].row
      PROVE  ~overwrote /\ request[c].row = account /\ account' = request[c].new
  <2>1. ~overwrote /\ request[c].at = version
    BY <1>2, <1>5, <1>6
  <2>2. request[c].row = account
    BY <1>1, <2>1 DEF IInv, Decisions, Commit
  <2> QED BY <1>2, <1>3, <2>1, <2>2, WrittenFresh
<1>7. UNCHANGED <<failures, phone, known, requests>>
  BY DEF Commit
<1> QED BY <1>1, <1>3, <1>4, <1>5, <1>6, <1>7

\* Where a request goes that commits.
LEMMA CommitMoves ==
  ASSUME IInv, NEW c \in Client, Commit(c)
  PROVE  /\ request' = [request EXCEPT ![c] = request'[c]]
         /\ IF request[c].op \in {"login", "reset"} THEN request'[c] = Idle
            ELSE request'[c] \in Decision /\ request'[c] = [request[c] EXCEPT !.step = "show"]
<1>1. request[c] \in Decision /\ Types
  BY Commits DEF IInv
<1>2. CASE request[c].op \in {"login", "reset"}
  BY <1>1, <1>2 DEF Commit, End, Types
<1>3. CASE request[c].op \notin {"login", "reset"}
  <2>1. request' = [request EXCEPT ![c].step = "show"]
    BY <1>3 DEF Commit
  <2>2. [request[c] EXCEPT !.step = "show"] \in Decision
    BY <1>1 DEF Decision
  <2> QED BY <1>1, <1>3, <2>1, <2>2 DEF Types
<1> QED BY <1>2, <1>3

\* A decision that is carried on to its answer.
LEMMA Shown ==
  ASSUME IInv, NEW c \in Client, Commit(c), request[c].op \notin {"login", "reset"}
  PROVE  /\ request'[c].op = request[c].op /\ request'[c].row = request[c].row
         /\ request'[c].new = request[c].new /\ request'[c].code = request[c].code
         /\ request'[c].at = request[c].at /\ request'[c].step = "show"
<1>1. request[c] \in Decision
  BY Commits
<1>2. request'[c] = [request[c] EXCEPT !.step = "show"]
  BY CommitMoves
<1> QED BY <1>1, <1>2 DEF Decision

\* What a page shows.
LEMMA Shows ==
  ASSUME IInv, NEW c \in Client, Show(c)
  PROVE  /\ request' = [request EXCEPT ![c] = Idle]
         /\ known' = IF Generating(c) THEN known \cup request[c].new.codes ELSE known
         /\ phone \subseteq phone' /\ phone' \subseteq phone \cup {request[c].new.secret}
         /\ HasDecided(c) /\ request[c] \in Decision
         /\ request[c].new.secret \in DrawnSecret \ {NoSecret}
         /\ UNCHANGED <<account, failures, requests, history>>
<1>1. HasDecided(c) /\ request[c] \in Decision /\ Writes(request[c])
      /\ request[c].op \notin {"login", "reset"}
  BY Kinds DEF Show, HasDecided, IInv, Decisions
<1>2. request[c].new.secret \in DrawnSecret \ {NoSecret}
  BY <1>1 DEF Writes, Decision, DrawnRow, Operation, Changes
<1> QED BY <1>1, <1>2 DEF Show, End, Generating, HasDecided

-----------------------------------------------------------------------------
(* The invariant is kept *)

\* Every step keeps the types.
LEMMA TypesKept ==
  ASSUME IInv, [Next]_vars
  PROVE  Types'
<1>0. Types
  BY DEF IInv
<1>1. ASSUME NEW c \in Client, Passes(c) PROVE Types'
  <2>1. /\ DrawnSecret \subseteq DrawnSecret' /\ DrawnCode \subseteq DrawnCode'
        /\ DrawnRow \subseteq DrawnRow' /\ Decision \subseteq Decision'
    BY <1>0, <1>1, Drawn, BoundAssumption DEF Passes, Types
  <2>2. request' \in [Client -> {Idle} \cup Attempt \cup Decision']
    BY <1>0, <1>1, <2>1 DEF Passes, Types
  <2>3. request' \in [Client -> {Idle} \cup Attempt \cup Decision]'
    BY <2>2 DEF Idle, Attempt
  <2> QED BY <1>0, <1>1, <2>1, <2>3 DEF Passes, Types, history
<1>2. ASSUME NEW c \in Client, Commit(c) PROVE Types'
  <2>0. /\ request[c] \in Decision /\ account' \in DrawnRow
        /\ UNCHANGED <<failures, phone, known, requests>>
    BY <1>2, Commits
  <2>1. version' \in Nat /\ overwrote' \in BOOLEAN
    <3>1. \/ version' = version /\ overwrote' = overwrote
          \/ version' = version + 1 /\ overwrote' = (overwrote \/ version # request[c].at)
      BY <1>2, Commits
    <3>2. version' \in Nat
      BY <1>0, <3>1 DEF Types
    <3>3. overwrote' \in BOOLEAN
      BY <1>0, <3>1, Zenon DEF Types
    <3> QED BY <3>2, <3>3
  <2>2. request' \in [Client -> {Idle} \cup Attempt \cup Decision]
    BY <1>0, <1>2, CommitMoves DEF Types
  <2>3. issued' \subseteq DrawnCode /\ used' \subseteq DrawnCode
    BY <1>0, <1>2, <2>0 DEF Commit, Types, Decision, DrawnRow
  <2> QED BY <1>0, <2>0, <2>1, <2>2, <2>3 DEF Types, DrawnRow, DrawnSecret, DrawnCode, Idle, Attempt,
             Decision
<1>3. ASSUME NEW c \in Client, Show(c) PROVE Types'
  <2>1. /\ request' = [request EXCEPT ![c] = Idle]
        /\ known' \subseteq known \cup request[c].new.codes
        /\ phone' \subseteq phone \cup {request[c].new.secret}
        /\ request[c].new.secret \in DrawnSecret \ {NoSecret}
        /\ request[c] \in Decision
        /\ UNCHANGED <<account, failures, requests, history>>
    BY <1>3, Shows
  <2>2. request[c].new.codes \subseteq DrawnCode
    BY <2>1 DEF Decision, DrawnRow
  <2> QED BY <1>0, <2>1, <2>2 DEF Types, DrawnRow, DrawnSecret, DrawnCode, Idle, Attempt,
             Decision, history
<1>4. ASSUME NEW c \in Client, NEW op \in Operation, NEW new \in DrawnRow', NEW supplied \in Typed,
             Decides(c, op, new, supplied)
      PROVE  Types'
  <2>1. /\ DrawnSecret \subseteq DrawnSecret' /\ DrawnCode \subseteq DrawnCode'
        /\ DrawnRow \subseteq DrawnRow' /\ Decision \subseteq Decision'
    BY <1>0, <1>4, Drawn, BoundAssumption DEF Decides, Types
  <2>2. Decided(op, account, new, supplied) \in Decision'
    <3>1. supplied \in DrawnCode' \cup {NoCode} /\ account \in DrawnRow'
      BY <1>0, <2>1 DEF Types, Typed
    <3>2. Decided(op, account, new, supplied) \in
            [op : Operation, step : {"commit", "show"}, row : DrawnRow', new : DrawnRow',
             code : DrawnCode' \cup {NoCode}, at : Nat]
      BY <1>0, <3>1 DEF Decided, Types
    <3> QED BY <3>2 DEF Decision, Operation, Changes, NoCode
  <2>3. request' \in [Client -> {Idle} \cup Attempt \cup Decision']
    BY <1>0, <1>4, <2>1, <2>2 DEF Decides, Types
  <2>4. request' \in [Client -> {Idle} \cup Attempt \cup Decision]'
    BY <2>3 DEF Idle, Attempt
  <2> QED BY <1>0, <1>4, <2>1, <2>4 DEF Decides, Types, history
<1>5. CASE UNCHANGED <<account, request, phone, known, requests, history>> /\ failures' \in Nat
  BY <1>0, <1>5 DEF Types, DrawnRow, DrawnSecret, DrawnCode, Idle, Attempt, Decision, history
<1> QED BY <1>1, <1>2, <1>3, <1>4, <1>5, Steps

\* Clients other than c have the requests they had.
OthersSame(c) == \A d \in Client : d # c => request'[d] = request[d]

\* A step of a handler leaves the other handlers alone.
LEMMA Unmoved ==
  ASSUME Types, NEW c \in Client, NEW r, request' = [request EXCEPT ![c] = r]
  PROVE  OthersSame(c) /\ request'[c] = r
BY DEF OthersSame, Types

\* What CommitMoves says of the others.
LEMMA CommitOthers ==
  ASSUME IInv, NEW c \in Client, Commit(c)
  PROVE  OthersSame(c)
BY CommitMoves, Unmoved DEF IInv

\* What the decision of one client depends on.
DecisionOK(d) ==
  HasDecided(d) =>
    /\ Writes(request[d]) /\ request[d].at <= version
    /\ At(d, "show") => request[d].op \notin {"login", "reset"}
    /\ At(d, "commit") /\ request[d].at = version => request[d].row = account

\* Every step keeps what a handler may decide.
LEMMA DecisionsKept ==
  ASSUME IInv, [Next]_vars
  PROVE  Decisions'
<1> SUFFICES ASSUME NEW d \in Client PROVE DecisionOK(d)'
  BY DEF Decisions, DecisionOK
<1>0. Types /\ DecisionOK(d)
  BY DEF IInv, Decisions, DecisionOK
<1>1. CASE request'[d] = request[d] /\ UNCHANGED <<account, version>>
  BY <1>0, <1>1 DEF DecisionOK, HasDecided, At
<1>2. CASE request'[d] = Idle \/ request'[d] \in Attempt
  BY <1>2 DEF DecisionOK, HasDecided, At, Idle, Attempt
<1>3. ASSUME NEW c \in Client, Passes(c) PROVE DecisionOK(d)'
  <2>1. UNCHANGED <<account, version>> /\ OthersSame(c)
        /\ (request'[c] = Idle \/ request'[c] \in Attempt)
    BY <1>0, <1>3, Unmoved DEF Passes, history
  <2> QED BY <1>1, <1>2, <2>1 DEF OthersSame
<1>4. ASSUME NEW c \in Client, Show(c) PROVE DecisionOK(d)'
  <2>1. UNCHANGED <<account, version>> /\ OthersSame(c) /\ request'[c] = Idle
    BY <1>0, <1>4, Shows, Unmoved DEF history
  <2> QED BY <1>1, <1>2, <2>1 DEF OthersSame
<1>5. ASSUME NEW c \in Client, NEW op \in Operation, NEW new \in DrawnRow', NEW supplied \in Typed,
             Decides(c, op, new, supplied)
      PROVE  DecisionOK(d)'
  <2>1. /\ UNCHANGED <<account, version>> /\ OthersSame(c)
        /\ request'[c] = Decided(op, account, new, supplied)
    BY <1>0, <1>5, Unmoved DEF Decides, history
  <2>2. DecisionOK(c)'
    <3>1. Writes(request'[c])
      BY <1>5, <2>1 DEF Decides
    <3>2. request'[c].at = version /\ request'[c].row = account /\ request'[c].step = "commit"
      BY <2>1 DEF Decided
    <3>3. Writes(request[c])'
      BY <3>1 DEF Writes
    <3> QED BY <1>0, <2>1, <3>2, <3>3 DEF DecisionOK, At, Types
  <2> QED BY <1>1, <2>1, <2>2 DEF OthersSame
<1>6. ASSUME NEW c \in Client, Commit(c) PROVE DecisionOK(d)'
  <2>1. CASE d = c
    <3>1. CASE request[c].op \in {"login", "reset"}
      BY <1>2, <1>6, <2>1, <3>1, CommitMoves
    <3>2. CASE request[c].op \notin {"login", "reset"}
      <4>1. /\ request'[c].op = request[c].op /\ request'[c].row = request[c].row
            /\ request'[c].new = request[c].new /\ request'[c].code = request[c].code
            /\ request'[c].at = request[c].at /\ request'[c].step = "show"
        BY <1>6, <3>2, Shown
      <4>2. Writes(request[c]) /\ HasDecided(c)
        BY <1>6, Commits
      <4>3. Writes(request[c])'
        BY <4>1, <4>2 DEF Writes
      <4>4. request[c].at <= version /\ version \in Nat /\ request[c].at \in Nat
        BY <1>0, <2>1, <4>2, Kinds DEF DecisionOK, Types, Decision
      <4>5. version' = version \/ version' = version + 1
        BY <1>6, Commits
      <4> QED BY <2>1, <3>2, <4>1, <4>3, <4>4, <4>5 DEF DecisionOK, At
    <3> QED BY <3>1, <3>2
  <2>2. CASE d # c
    <3>1. request'[d] = request[d]
      BY <1>6, <2>2, CommitOthers DEF OthersSame
    <3>2. CASE request[c].new = request[c].row
      <4>1. UNCHANGED <<account, version>>
        BY <1>6, <3>2, Commits
      <4> QED BY <1>1, <3>1, <4>1
    <3>3. CASE request[c].new # request[c].row
      <4>1. version' = version + 1
        BY <1>6, <3>3, Commits
      <4>2. HasDecided(d) => request[d].at \in Nat
        BY <1>0, Kinds DEF Decision
      <4> QED BY <1>0, <3>1, <4>1, <4>2 DEF DecisionOK, HasDecided, At, Types
    <3> QED BY <3>2, <3>3
  <2> QED BY <2>1, <2>2
<1>7. CASE UNCHANGED <<account, request, phone, known, requests, history>>
  BY <1>1, <1>7 DEF history
<1> QED BY <1>3, <1>4, <1>5, <1>6, <1>7, Steps

\* What the codes of two clients, and of one, have to do with each other.
Apart(c, d) ==
  /\ Generating(c) /\ Generating(d) /\ d # c =>
       request[c].new.codes \cap request[d].new.codes = {}
  /\ Generating(c) /\ At(c, "commit") /\ HasDecided(d) => request[d].code \notin request[c].new.codes
Unknown(c) ==
  Generating(c) /\ At(c, "commit") => request[c].new.codes \cap (known \cup used) = {}

\* New codes are different from everything that was drawn.
LEMMA GeneratedFresh ==
  ASSUME requests \in Nat
  PROVE  Generated(requests + 1) \cap DrawnCode = {} /\ NoCode \notin Generated(requests + 1)
BY DEF Generated, DrawnCode, NoCode

\* Every step keeps codes and secrets with those who were shown them.
LEMMA SecrecyKept ==
  ASSUME IInv, [Next]_vars
  PROVE  Secrecy'
<1> SUFFICES ASSUME NEW c \in Client, NEW d \in Client PROVE Apart(c, d)' /\ Unknown(c)'
  BY DEF Secrecy, Apart, Unknown
<1>0. /\ Types
      /\ \A e \in Client, f \in Client : Apart(e, f) /\ Unknown(e)
  BY DEF IInv, Secrecy, Apart, Unknown
\* Nothing is added by a client that loses what it had, or has nothing.
<1>1. ASSUME NEW b \in Client, OthersSame(b), request'[b] = Idle \/ request'[b] \in Attempt,
             UNCHANGED <<known, used>>
      PROVE  Apart(c, d)' /\ Unknown(c)'
  <2>1. ~HasDecided(b)' /\ ~Generating(b)'
    BY <1>1 DEF HasDecided, Generating, At, Idle, Attempt
  <2>2. \A e \in Client : e # b => request'[e] = request[e]
    BY <1>1 DEF OthersSame
  <2>3. CASE c = b
    BY <2>1, <2>3 DEF Apart, Unknown
  <2>4. CASE c # b
    <3>1. Unknown(c)'
      BY <1>0, <1>1, <2>2, <2>4 DEF Unknown, Generating, HasDecided, At
    <3>2. Apart(c, d)'
      BY <1>0, <2>1, <2>2, <2>4 DEF Apart, Generating, HasDecided, At
    <3> QED BY <3>1, <3>2
  <2> QED BY <2>3, <2>4
<1>2. ASSUME NEW b \in Client, Passes(b) PROVE Apart(c, d)' /\ Unknown(c)'
  <2>1. /\ UNCHANGED <<known, used>> /\ OthersSame(b)
        /\ request'[b] = Idle \/ request'[b] \in Attempt
    BY <1>0, <1>2, Unmoved DEF Passes, history
  <2> QED BY <1>1, <2>1
<1>3. ASSUME NEW b \in Client, Show(b) PROVE Apart(c, d)' /\ Unknown(c)'
  <2>1. /\ used' = used /\ OthersSame(b) /\ request'[b] = Idle
        /\ known' = IF Generating(b) THEN known \cup request[b].new.codes ELSE known
    BY <1>0, <1>3, Shows, Unmoved DEF history
  <2>2. ~HasDecided(b)' /\ ~Generating(b)'
    BY <2>1 DEF HasDecided, Generating, At, Idle
  <2>3. \A e \in Client : e # b => request'[e] = request[e]
    BY <2>1 DEF OthersSame
  <2>4. CASE c = b
    BY <2>2, <2>4 DEF Apart, Unknown
  <2>5. CASE c # b
    <3>1. Apart(c, d)'
      BY <1>0, <2>2, <2>3, <2>5 DEF Apart, Generating, HasDecided, At
    <3>2. Apart(c, b) /\ Unknown(c)
      BY <1>0
    <3>3. Generating(c)' /\ At(c, "commit")' => Generating(c) /\ At(c, "commit")
      BY <2>3, <2>5 DEF Generating, HasDecided, At
    <3>4. Unknown(c)'
      BY <2>1, <2>3, <2>5, <3>2, <3>3 DEF Apart, Unknown
    <3> QED BY <3>1, <3>4
  <2> QED BY <2>4, <2>5
<1>4. ASSUME NEW b \in Client, NEW op \in Operation, NEW new \in DrawnRow', NEW supplied \in Typed,
             Decides(b, op, new, supplied)
      PROVE  Apart(c, d)' /\ Unknown(c)'
  <2>1. /\ UNCHANGED <<known, used>> /\ OthersSame(b)
        /\ request'[b] = Decided(op, account, new, supplied)
    BY <1>0, <1>4, Unmoved DEF Decides, history
  <2>2. /\ request'[b].op = op /\ request'[b].new = new /\ request'[b].code = supplied
        /\ supplied \in known \cup {NoCode}
    BY <1>4, <2>1 DEF Decided, Decides
  <2>3. \A e \in Client : e # b => request'[e] = request[e]
    BY <2>1 DEF OthersSame
  <2>4. Generating(b)' => new.codes \cap DrawnCode = {} /\ NoCode \notin new.codes
    <3>1. Generating(b)' => new.codes = Generated(requests + 1)
      BY <1>4, <2>2 DEF Generating, Decides
    <3> QED BY <1>0, <3>1, GeneratedFresh DEF Types
  <2>5. \A e \in Client : /\ HasDecided(e) => request[e].code \in DrawnCode \cup {NoCode}
                          /\ HasDecided(e) => request[e].new.codes \subseteq DrawnCode
    BY <1>0, Kinds DEF Decision, DrawnRow
  <2>6. known \subseteq DrawnCode /\ used \subseteq DrawnCode
    BY <1>0 DEF Types
  <2>7. CASE c = b
    <3>1. Unknown(c)'
      BY <2>1, <2>2, <2>4, <2>6, <2>7 DEF Unknown
    <3>2. CASE d = b
      <4>1. Generating(b)' => supplied \notin new.codes
        BY <2>2, <2>4, <2>6
      <4>2. Generating(c)' => Generating(b)'
        BY <2>7
      <4> QED BY <3>1, <2>2, <2>7, <3>2, <4>1, <4>2 DEF Apart
    <3>3. CASE d # b
      <4>1. HasDecided(d)' => HasDecided(d)
        BY <2>3, <3>3 DEF HasDecided, At
      <4>2. request'[d] = request[d]
        BY <2>3, <3>3
      <4>3. Generating(b)' /\ HasDecided(d)' =>
              /\ new.codes \cap request[d].new.codes = {}
              /\ request[d].code \notin new.codes
        BY <2>4, <2>5, <4>1
      <4>4. Generating(d)' => HasDecided(d)'
        BY DEF Generating
      <4> QED BY <3>1, <2>2, <2>7, <4>2, <4>3, <4>4 DEF Apart
    <3> QED BY <3>1, <3>2, <3>3
  <2>8. CASE c # b
    <3>1. Unknown(c)'
      BY <1>0, <2>1, <2>3, <2>8 DEF Unknown, Generating, HasDecided, At
    <3>2. CASE d = b
      <4>1. /\ Generating(c)' => Generating(c) /\ HasDecided(c)
            /\ At(c, "commit")' => At(c, "commit")
            /\ request'[c] = request[c]
        BY <2>3, <2>8 DEF Generating, HasDecided, At
      <4>2. Generating(b)' => request[c].new.codes \cap new.codes = {} \/ ~HasDecided(c)
        BY <2>4, <2>5
      <4>3. Generating(c) /\ At(c, "commit") => supplied \notin request[c].new.codes
        <5>1. Generating(c) /\ At(c, "commit") => request[c].new.codes \cap known = {}
          BY <1>0 DEF Unknown
        <5>2. HasDecided(c) => NoCode \notin request[c].new.codes
          BY <2>5 DEF DrawnCode, NoCode
        <5> QED BY <2>2, <5>1, <5>2 DEF Generating
      <4> QED BY <3>1, <2>2, <2>8, <3>2, <4>1, <4>2, <4>3 DEF Apart
    <3>3. CASE d # b
      <4>1. request'[c] = request[c] /\ request'[d] = request[d] /\ Apart(c, d)
        BY <1>0, <2>3, <2>8, <3>3
      <4> QED BY <3>1, <4>1 DEF Apart, Generating, HasDecided, At
    <3> QED BY <3>1, <3>2, <3>3
  <2> QED BY <2>7, <2>8
<1>5. ASSUME NEW b \in Client, Commit(b) PROVE Apart(c, d)' /\ Unknown(c)'
  <2>1. /\ \A e \in Client : e # b => request'[e] = request[e]
        /\ known' = known /\ HasDecided(b)
        /\ used' \subseteq used \cup {request[b].code}
    BY <1>5, CommitOthers, Commits DEF OthersSame, Commit
  <2>2. ~HasDecided(b)' \/ /\ request'[b].op = request[b].op /\ request'[b].new = request[b].new
                           /\ request'[b].code = request[b].code /\ request'[b].step = "show"
    <3>1. CASE request[b].op \in {"login", "reset"}
      <4>1. request'[b] = Idle
        BY <1>5, <3>1, CommitMoves
      <4> QED BY <4>1 DEF HasDecided, At, Idle
    <3>2. CASE request[b].op \notin {"login", "reset"}
      BY <1>5, <3>2, Shown
    <3> QED BY <3>1, <3>2
  <2>3. ~At(b, "commit")' /\ (Generating(b)' => Generating(b)) /\ (HasDecided(b)' => HasDecided(b))
    BY <1>5, <2>1, <2>2 DEF HasDecided, At, Generating
  <2>4. \A e \in Client : /\ Generating(e)' => Generating(e) /\ request'[e].new = request[e].new
                          /\ HasDecided(e)' => HasDecided(e) /\ request'[e].code = request[e].code
                          /\ At(e, "commit")' => At(e, "commit")
    BY <2>1, <2>2, <2>3 DEF Generating, HasDecided, At
  <2>5. Apart(c, d)'
    BY <1>0, <2>4 DEF Apart
  <2>6. Apart(c, b) /\ Unknown(c)
    BY <1>0
  <2>7. Unknown(c)'
    BY <2>1, <2>4, <2>6 DEF Unknown, Apart
  <2> QED BY <2>5, <2>7
<1>6. CASE UNCHANGED <<account, request, phone, known, requests, history>>
  BY <1>0, <1>6 DEF Apart, Unknown, Generating, HasDecided, At, history
<1> QED BY <1>2, <1>3, <1>4, <1>5, <1>6, Steps

\* The row that a commit leaves is the owner's, if the one it was decided on was.
LEMMA CommitFits ==
  ASSUME IInv, NEW c \in Client, Commit(c), ~overwrote'
  PROVE  account'.codes = issued' \ used' /\ Owned(account)'
<1> DEFINE r == request[c]
<1>1. /\ ~overwrote /\ HasDecided(c) /\ r \in Decision /\ Writes(r)
      /\ \/ r.new = r.row /\ r.op = "page" /\ account' = account
         \/ r.row = account /\ account' = r.new
      /\ phone' = phone
  BY Commits
<1>2. /\ account.codes = issued \ used /\ Owned(account) /\ Owned(r.new)
  BY <1>1 DEF IInv, Fits, Commit
<1>3. Owned(account)'
  BY <1>1, <1>2 DEF Owned
<1>4. /\ issued' = IF r.op \in Changes THEN r.new.codes ELSE issued
      /\ used' = IF r.code = NoCode THEN used ELSE used \cup {r.code}
      /\ At(c, "commit")
  BY DEF Commit
<1>5. CASE r.op \in {"enable", "regenerate"}
  <2>1. r.new.codes \cap used = {} /\ r.code \notin r.new.codes
    BY <1>1, <1>4, <1>5 DEF IInv, Secrecy, Generating
  <2>2. account' = r.new /\ issued' = r.new.codes
    BY <1>1, <1>4, <1>5 DEF Changes
  <2>3. account'.codes = issued' \ used'
    BY <1>4, <2>1, <2>2
  <2> QED BY <1>3, <2>3
<1>6. CASE r.op \in {"disable", "reset"}
  <2>1. account' = r.new /\ issued' = r.new.codes /\ r.new.codes = {}
    BY <1>1, <1>4, <1>6 DEF Changes, Writes
  <2> QED BY <1>3, <2>1
<1>7. CASE r.op = "login"
  <2>1. /\ account'.codes = account.codes \ {r.code} /\ issued' = issued
        /\ used' = used \cup {r.code}
    BY <1>1, <1>4, <1>7 DEF Changes, Writes
  <2> QED BY <1>2, <1>3, <2>1
<1>8. CASE r.op = "page"
  <2>1. account'.codes = account.codes /\ issued' = issued /\ used' = used
    BY <1>1, <1>4, <1>8 DEF Changes, Writes
  <2> QED BY <1>2, <1>3, <2>1
<1>9. r.op \in Operation
  BY <1>1 DEF Decision
<1> QED BY <1>5, <1>6, <1>7, <1>8, <1>9 DEF Operation, Changes

\* Every step keeps the codes and the factor of the row fitting.
LEMMA FitsKept ==
  ASSUME IInv, [Next]_vars
  PROVE  Fits'
<1> SUFFICES ASSUME ~overwrote'
             PROVE  /\ account'.codes = issued' \ used' /\ Owned(account)'
                    /\ \A d \in Client : At(d, "commit")' => Owned(request[d].new)'
  BY DEF Fits
<1> DEFINE Good == /\ account'.codes = issued' \ used' /\ Owned(account)'
                   /\ \A d \in Client : At(d, "commit")' => Owned(request[d].new)'
<1>0. /\ Types
      /\ ~overwrote =>
           /\ account.codes = issued \ used /\ Owned(account)
           /\ \A d \in Client : At(d, "commit") => Owned(request[d].new)
  BY DEF IInv, Fits
<1>1. ASSUME UNCHANGED <<account, history>>, phone \subseteq phone',
             \A d \in Client : At(d, "commit")' => \/ At(d, "commit") /\ request'[d].new = request[d].new
                                                   \/ ~overwrote => Owned(request'[d].new)
      PROVE  Good
  <2>1. ~overwrote
    BY <1>1 DEF history
  <2>2. account'.codes = issued' \ used' /\ Owned(account)'
    BY <1>0, <1>1, <2>1 DEF history, Owned
  <2>3. ASSUME NEW d \in Client, At(d, "commit")' PROVE Owned(request[d].new)'
    BY <1>0, <1>1, <2>1, <2>3 DEF Owned
  <2> QED BY <2>2, <2>3
<1>2. ASSUME NEW c \in Client, Passes(c) PROVE Good
  <2>1. /\ UNCHANGED <<account, history>> /\ phone' = phone /\ OthersSame(c)
        /\ request'[c] = Idle \/ request'[c] \in Attempt
    BY <1>0, <1>2, Unmoved DEF Passes
  <2>2. ~At(c, "commit")'
    BY <2>1 DEF At, Idle, Attempt
  <2>3. \A d \in Client : At(d, "commit")' => At(d, "commit") /\ request'[d].new = request[d].new
    BY <2>1, <2>2 DEF OthersSame, At
  <2> QED BY <1>1, <2>1, <2>3
<1>3. ASSUME NEW c \in Client, Show(c) PROVE Good
  <2>1. /\ UNCHANGED <<account, history>> /\ phone \subseteq phone' /\ OthersSame(c)
        /\ request'[c] = Idle
    BY <1>0, <1>3, Shows, Unmoved
  <2>2. ~At(c, "commit")'
    BY <2>1 DEF At, Idle
  <2>3. \A d \in Client : At(d, "commit")' => At(d, "commit") /\ request'[d].new = request[d].new
    BY <2>1, <2>2 DEF OthersSame, At
  <2> QED BY <1>1, <2>1, <2>3
<1>4. ASSUME NEW c \in Client, NEW op \in Operation, NEW new \in DrawnRow', NEW supplied \in Typed,
             Decides(c, op, new, supplied)
      PROVE  Good
  <2>1. /\ UNCHANGED <<account, history>> /\ phone' = phone /\ OthersSame(c)
        /\ request'[c].new = new /\ (~overwrote => Owned(new))
    <3>1. request'[c] = Decided(op, account, new, supplied) /\ OthersSame(c)
      BY <1>0, <1>4, Unmoved DEF Decides
    <3> QED BY <1>4, <3>1 DEF Decides, Decided
  <2>2. \A d \in Client : At(d, "commit")' =>
          \/ At(d, "commit") /\ request'[d].new = request[d].new
          \/ ~overwrote => Owned(request'[d].new)
    <3>1. ~overwrote => Owned(request'[c].new)
      BY <2>1
    <3> QED BY <2>1, <3>1 DEF OthersSame, At
  <2> QED BY <1>1, <2>1, <2>2
<1>5. ASSUME NEW c \in Client, Commit(c) PROVE Good
  <2>1. account'.codes = issued' \ used' /\ Owned(account)'
    BY <1>5, CommitFits
  <2>2. ~overwrote /\ phone' = phone /\ OthersSame(c)
    BY <1>5, Commits, CommitOthers
  <2>3. ~At(c, "commit")'
    <3>1. CASE request[c].op \in {"login", "reset"}
      <4>1. request'[c] = Idle
        BY <1>5, <3>1, CommitMoves
      <4> QED BY <4>1 DEF At, Idle
    <3>2. CASE request[c].op \notin {"login", "reset"}
      BY <1>5, <3>2, Shown DEF At
    <3> QED BY <3>1, <3>2
  <2>4. ASSUME NEW d \in Client, At(d, "commit")' PROVE Owned(request[d].new)'
    <3>1. d # c
      BY <2>3, <2>4
    <3>2. request'[d] = request[d] /\ At(d, "commit")
      BY <2>2, <2>4, <3>1 DEF OthersSame, At
    <3> QED BY <1>0, <2>2, <3>2 DEF Owned
  <2> QED BY <2>1, <2>4
<1>6. CASE UNCHANGED <<account, request, phone, known, requests, history>>
  <2>1. \A d \in Client : At(d, "commit")' => At(d, "commit") /\ request'[d].new = request[d].new
    BY <1>6 DEF At
  <2> QED BY <1>1, <1>6, <2>1
<1> QED BY <1>2, <1>3, <1>4, <1>5, <1>6, Steps
-----------------------------------------------------------------------------
(* Counting the logins in flight *)

\* Adding to a set of clients, or taking from it, what one client decides.
LEMMA OneMore ==
  ASSUME NEW S \in SUBSET Client, NEW T \in SUBSET Client, NEW c \in Client,
         \A d \in Client : d # c => (d \in T <=> d \in S)
  PROVE  /\ Cardinality(S) \in Nat /\ Cardinality(T) \in Nat
         /\ Cardinality(T) <= Cardinality(Client) /\ Cardinality(Client) \in Nat
         /\ (c \in S <=> c \in T) => Cardinality(T) = Cardinality(S)
         /\ c \in T /\ c \notin S => Cardinality(T) = Cardinality(S) + 1
         /\ c \notin T /\ c \in S => Cardinality(T) = Cardinality(S) - 1
<1>1. IsFiniteSet(Client) /\ IsFiniteSet(S) /\ IsFiniteSet(T)
  BY ClientAssumption, FS_Subset
<1>2. /\ Cardinality(S) \in Nat /\ Cardinality(T) \in Nat /\ Cardinality(Client) \in Nat
      /\ Cardinality(T) <= Cardinality(Client)
  BY <1>1, FS_CardinalityType, FS_Subset
<1>3. (c \in S <=> c \in T) => T = S
  OBVIOUS
<1>4. c \in T /\ c \notin S => T = S \cup {c}
  OBVIOUS
<1>5. c \notin T /\ c \in S => T = S \ {c}
  OBVIOUS
<1>6. c \in T /\ c \notin S => Cardinality(T) = Cardinality(S) + 1
  BY <1>1, <1>4, FS_AddElement
<1>7. c \notin T /\ c \in S => Cardinality(T) = Cardinality(S) - 1
  BY <1>1, <1>5, FS_RemoveElement
<1> QED BY <1>2, <1>3, <1>6, <1>7

\* The same of the clients that try a password and of those that will commit.
LEMMA TryingMoves ==
  ASSUME NEW c \in Client, OthersSame(c)
  PROVE  /\ Cardinality(Trying) \in Nat /\ Cardinality(Trying)' \in Nat
         /\ Cardinality(Trying)' <= Cardinality(Client) /\ Cardinality(Client) \in Nat
         /\ (Tries(c) <=> Tries(c)') => Cardinality(Trying)' = Cardinality(Trying)
         /\ Tries(c)' /\ ~Tries(c) => Cardinality(Trying)' = Cardinality(Trying) + 1
         /\ ~Tries(c)' /\ Tries(c) => Cardinality(Trying)' = Cardinality(Trying) - 1
<1>1. Trying \in SUBSET Client /\ Trying' \in SUBSET Client
  BY DEF Trying
<1>2. \A d \in Client : d # c => (d \in Trying' <=> d \in Trying)
  BY DEF Trying, OthersSame, Tries, At
<1>3. (c \in Trying <=> Tries(c)) /\ (c \in Trying' <=> Tries(c)')
  BY DEF Trying
<1> HIDE DEF Trying
<1> QED BY <1>1, <1>2, <1>3, OneMore

\* A step of a handler changes the number of commits ahead by at most its own.
LEMMA PendingMoves ==
  ASSUME NEW c \in Client, OthersSame(c)
  PROVE  /\ Cardinality(Pending) \in Nat /\ Cardinality(Pending)' \in Nat
         /\ (At(c, "commit") <=> At(c, "commit")') => Cardinality(Pending)' = Cardinality(Pending)
         /\ At(c, "commit")' /\ ~At(c, "commit") => Cardinality(Pending)' = Cardinality(Pending) + 1
         /\ ~At(c, "commit")' /\ At(c, "commit") => Cardinality(Pending)' = Cardinality(Pending) - 1
<1>1. Pending \in SUBSET Client /\ Pending' \in SUBSET Client
  BY DEF Pending
<1>2. \A d \in Client : d # c => (d \in Pending' <=> d \in Pending)
  BY DEF Pending, OthersSame, At
<1>3. (c \in Pending <=> At(c, "commit")) /\ (c \in Pending' <=> At(c, "commit")')
  BY DEF Pending
<1> HIDE DEF Pending
<1> QED BY <1>1, <1>2, <1>3, OneMore

\* A sum does not grow when one of its terms gets smaller.
LEMMA SmallerSum ==
  ASSUME NEW a \in Nat, NEW b \in Nat, b <= a, NEW k \in Nat, NEW m \in Int, a + k <= m
  PROVE  b + k <= m
OBVIOUS

\* A login looks at the count before it takes its place among those in flight,
\* and gives its place up when it is counted as a failure.
LEMMA CountsKept ==
  ASSUME IInv, [Next]_vars
  PROVE  Counts'
<1> DEFINE t == Cardinality(Trying)
           p == Cardinality(Pending)
           all == Cardinality(Client)
<1>0. /\ Types /\ failures \in Nat /\ requests \in Nat /\ version \in Nat /\ Limit \in Nat
      /\ failures + t <= Limit + all - 1 /\ version + p + t <= requests
  BY ParameterAssumption, BoundAssumption DEF IInv, Types, Counts
<1>1. ASSUME failures' + t' <= Limit + all - 1, version' + p' + t' <= requests'
      PROVE  Counts'
  BY <1>1 DEF Counts
<1>2. ASSUME NEW c \in Client, NEW r, request' = [request EXCEPT ![c] = r]
      PROVE  OthersSame(c) /\ request'[c] = r
  BY <1>0, <1>2, Unmoved
<1>3. ASSUME NEW c \in Client, OthersSame(c)
      PROVE  /\ t \in Nat /\ t' \in Nat /\ t' <= all /\ all \in Nat
             /\ p \in Nat /\ p' \in Nat
             /\ (Tries(c) <=> Tries(c)') => t' = t
             /\ Tries(c)' /\ ~Tries(c) => t' = t + 1
             /\ ~Tries(c)' /\ Tries(c) => t' = t - 1
             /\ (At(c, "commit") <=> At(c, "commit")') => p' = p
             /\ At(c, "commit")' /\ ~At(c, "commit") => p' = p + 1
             /\ ~At(c, "commit")' /\ At(c, "commit") => p' = p - 1
  BY <1>3, TryingMoves, PendingMoves
<1> HIDE DEF t, p, all
<1>4. ASSUME NEW c \in Client, Login(c) PROVE Counts'
  <2>1. /\ ~Tries(c) /\ ~At(c, "commit") /\ requests' = requests + 1
        /\ UNCHANGED <<failures, version>>
    BY <1>4 DEF Login, Tries, At, Idle, history
  <2>2. CASE Full
    <3>1. OthersSame(c) /\ request'[c] = Idle
      BY <1>2, <1>4, <2>2 DEF Login
    <3>2. ~Tries(c)' /\ ~At(c, "commit")'
      BY <3>1 DEF Tries, At, Idle
    <3> QED BY <1>0, <1>1, <1>3, <2>1, <3>1, <3>2
  <2>3. CASE ~Full
    <3>1. OthersSame(c) /\ request'[c] = [op |-> "login", step |-> "verify"]
      BY <1>2, <1>4, <2>3 DEF Login
    <3>2. Tries(c)' /\ ~At(c, "commit")'
      BY <3>1 DEF Tries, At
    <3>3. failures <= Limit - 1
      BY <1>0, <2>3 DEF Full
    <3> QED BY <1>0, <1>1, <1>3, <2>1, <3>1, <3>2, <3>3
  <2> QED BY <2>2, <2>3
<1>5. ASSUME NEW c \in Client, Verify(c) PROVE Counts'
  <2>1. /\ Tries(c) /\ ~At(c, "commit") /\ UNCHANGED <<failures, version, requests>>
    BY <1>5 DEF Verify, Tries, At, history
  <2>2. PICK r : /\ request' = [request EXCEPT ![c] = r]
                 /\ r \in Attempt \/ r = Idle \/ r.step = "commit"
    BY <1>5 DEF Verify, End, Attempt, Decided
  <2>3. OthersSame(c) /\ request'[c] = r
    BY <1>2, <2>2
  <2>4. ~(Tries(c)' /\ At(c, "commit")')
    BY DEF Tries, At
  <2> QED BY <1>0, <1>1, <1>3, <2>1, <2>3, <2>4
<1>6. ASSUME NEW c \in Client, Fail(c) PROVE Counts'
  <2>1. /\ Tries(c) /\ ~At(c, "commit") /\ failures' = failures + 1
        /\ UNCHANGED <<version, requests>>
    BY <1>6 DEF Fail, Tries, At, history
  <2>2. OthersSame(c) /\ request'[c] = Idle
    BY <1>2, <1>6 DEF Fail, End
  <2>3. ~Tries(c)' /\ ~At(c, "commit")'
    BY <2>2 DEF Tries, At, Idle
  <2> QED BY <1>0, <1>1, <1>3, <2>1, <2>2, <2>3
<1>7. ASSUME NEW c \in Client, Page(c) \/ \E op \in Changes : Change(c, op) PROVE Counts'
  <2>1. PICK op \in Operation, new \in DrawnRow', supplied \in Typed :
          Decides(c, op, new, supplied)
    BY <1>7, PageDecides, ChangeDecides DEF Operation, Typed
  <2>2. /\ ~Tries(c) /\ ~At(c, "commit") /\ requests' = requests + 1
        /\ UNCHANGED <<failures, version>>
    BY <1>7 DEF Page, Change, Tries, At, Idle, history
  <2>3. OthersSame(c) /\ request'[c] = Decided(op, account, new, supplied)
    BY <1>2, <2>1 DEF Decides
  <2>4. ~Tries(c)' /\ At(c, "commit")'
    BY <2>3 DEF Tries, At, Decided
  <2> QED BY <1>0, <1>1, <1>3, <2>2, <2>3, <2>4
<1>8. ASSUME NEW c \in Client, Commit(c) PROVE Counts'
  <2>1. /\ OthersSame(c) /\ UNCHANGED <<failures, requests>>
        /\ version' = version \/ version' = version + 1
    BY <1>8, CommitOthers, Commits
  <2>2. At(c, "commit") /\ ~Tries(c)
    BY <1>8 DEF Commit, At, Tries
  <2>3. ~At(c, "commit")' /\ ~Tries(c)'
    <3>1. CASE request[c].op \in {"login", "reset"}
      <4>1. request'[c] = Idle
        BY <1>8, <3>1, CommitMoves
      <4> QED BY <4>1 DEF At, Tries, Idle
    <3>2. CASE request[c].op \notin {"login", "reset"}
      BY <1>8, <3>2, Shown DEF At, Tries
    <3> QED BY <3>1, <3>2
  <2> QED BY <1>0, <1>1, <1>3, <2>1, <2>2, <2>3
<1>9. ASSUME NEW c \in Client, Show(c) \/ Lost(c) PROVE Counts'
  <2>1. UNCHANGED <<failures, version, requests>>
    BY <1>9 DEF Show, Lost, history
  <2>2. OthersSame(c) /\ request'[c] = Idle
    BY <1>2, <1>9 DEF Show, Lost, End
  <2>3. ~Tries(c)' /\ ~At(c, "commit")'
    BY <2>2 DEF Tries, At, Idle
  <2> QED BY <1>0, <1>1, <1>3, <2>1, <2>2, <2>3
<1>10. CASE UNCHANGED <<request, version, requests>> /\ failures' \in Nat /\ failures' <= failures
  <2>1. t' = t /\ p' = p
    BY <1>10 DEF t, p, Trying, Pending, Tries, At
  <2>2. t \in Nat /\ p \in Nat /\ all \in Nat
    <3>1. Trying \subseteq Client /\ Pending \subseteq Client
      BY DEF Trying, Pending
    <3> QED BY <3>1, ClientAssumption, FS_Subset, FS_CardinalityType DEF t, p, all
  <2>3. /\ version' = version /\ requests' = requests
        /\ failures' \in Nat /\ failures' <= failures
    BY <1>10
  <2>4. failures' + t' <= Limit + all - 1
    <3>1. failures + t <= Limit + all - 1 /\ failures \in Nat /\ Limit \in Nat
      BY <1>0
    <3>2. failures \in Nat /\ failures' \in Nat /\ failures' <= failures
      BY <2>3, <3>1
    <3>3. t \in Nat
      BY <2>2
    <3>4. failures + t <= Limit + all - 1 /\ Limit + all - 1 \in Int
      BY <2>2, <3>1
    <3> HIDE DEF t, all
    <3>5. failures' + t <= Limit + all - 1
      BY <3>2, <3>3, <3>4, SmallerSum
    <3> QED BY <2>1, <3>5
  <2>5. version' + p' + t' <= requests'
    BY <1>0, <2>1, <2>2, <2>3
  <2> QED BY <1>1, <2>4, <2>5
<1>11. CASE WindowMoves
  BY <1>0, <1>10, <1>11 DEF WindowMoves, history
<1>12. CASE UNCHANGED vars
  BY <1>0, <1>10, <1>12 DEF vars, history
<1> QED BY <1>4, <1>5, <1>6, <1>7, <1>8, <1>9, <1>11, <1>12 DEF Next, Step
-----------------------------------------------------------------------------
(* The theorems *)

\* The first state satisfies the invariant.
LEMMA Initially == Init => IInv
<1> SUFFICES ASSUME Init PROVE IInv
  OBVIOUS
<1>1. \A c \in Client : request[c] = Idle /\ ~HasDecided(c) /\ ~Tries(c) /\ ~At(c, "commit")
  BY DEF Init, HasDecided, Tries, At, Idle
<1>2. Types
  <2>1. 0 \in 0 .. MaxRequests /\ requests = 0
    BY BoundAssumption DEF Init
  <2>2. account \in DrawnRow
    BY <2>1 DEF Init, DrawnRow, DrawnSecret, NoSecret
  <2> QED BY <2>1, <2>2 DEF Init, Types
<1>3. Decisions /\ Secrecy /\ Fits
  BY <1>1 DEF Init, Decisions, Secrecy, Generating, Fits, Owned
<1>4. Counts
  <2>1. Trying = {} /\ Pending = {}
    BY <1>1 DEF Trying, Pending
  <2>2. Cardinality({}) = 0 /\ Cardinality(Client) \in Nat
    BY FS_EmptySet, ClientAssumption, FS_CardinalityType
  <2>3. failures = 0 /\ version = 0 /\ requests = 0 /\ Limit \in Nat \ {0}
    BY ParameterAssumption DEF Init
  <2> QED BY <2>1, <2>2, <2>3 DEF Counts
<1> QED BY <1>2, <1>3, <1>4 DEF IInv

\* Every step keeps the invariant.
LEMMA Inductively == IInv /\ [Next]_vars => IInv'
BY TypesKept, DecisionsKept, SecrecyKept, FitsKept, CountsKept DEF IInv

\* Every reachable state satisfies the invariant.
LEMMA Invariant == Spec => []IInv
BY Initially, Inductively, PTL DEF Spec

\* Every variable keeps its type; and as long as no commit overwrites a row that
\* changed since it was read, there are recovery codes only for a factor that
\* is on and has a secret.
THEOREM TypeCorrect == Spec => []TypeOK
<1>1. IInv => TypeOK
  <2> SUFFICES ASSUME IInv PROVE TypeOK
    OBVIOUS
  <2>1. Types /\ requests \in 0 .. MaxRequests /\ MaxRequests \in Nat
    BY BoundAssumption DEF IInv, Types
  <2>2. DrawnSecret \subseteq Secret /\ DrawnCode \subseteq Code
    BY <2>1 DEF DrawnSecret, DrawnCode, Secret, Code
  <2>3. DrawnRow \subseteq Account
    BY <2>2 DEF DrawnRow, Account
  <2>4. version <= requests
    <3>1. Trying \subseteq Client /\ Pending \subseteq Client
      BY DEF Trying, Pending
    <3>2. Cardinality(Trying) \in Nat /\ Cardinality(Pending) \in Nat
      BY <3>1, ClientAssumption, FS_Subset, FS_CardinalityType
    <3> QED BY <2>1, <3>2 DEF IInv, Counts, Types
  <2>5. account.codes # {} /\ ~overwrote => account.enabled /\ account.secret # NoSecret
    BY DEF IInv, Fits, Owned
  <2> QED BY <2>1, <2>2, <2>3, <2>4, <2>5 DEF TypeOK, Types
<1> QED BY <1>1, Invariant, PTL

\* However many logins run at the same time, the failures in a window exceed
\* the limit by at most the number of other logins in flight (login_page,
\* api login: the count is read before the password is verified and the failure
\* recorded after it).
THEOREM FailuresThrottled == Spec => []Throttled
<1>1. IInv => Throttled
  <2> SUFFICES ASSUME IInv PROVE Throttled
    OBVIOUS
  <2>1. Trying \subseteq Client
    BY DEF Trying
  <2>2. Cardinality(Trying) \in Nat /\ Cardinality(Client) \in Nat
    BY <2>1, ClientAssumption, FS_Subset, FS_CardinalityType
  <2> QED BY <2>2, ParameterAssumption DEF IInv, Counts, Types, Throttled
<1> QED BY <1>1, Invariant, PTL

\* Unless a commit overwrites a row that changed since it was read, the codes in
\* the row are those issued last without those used, and a factor that is on is
\* the one in the owner's phone: no recovery code opens the account twice, none
\* outlives its generation, and no lost answer locks the owner out.
THEOREM FactorIsTheOwners == Spec => []FactorFits
<1>1. IInv => FactorFits
  BY DEF IInv, Fits, Owned, FactorFits
<1> QED BY <1>1, Invariant, PTL
=============================================================================
