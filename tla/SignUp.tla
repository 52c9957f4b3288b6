-------------------------------- MODULE SignUp --------------------------------
(***************************************************************************)
(* Signing up: a transaction over the connection pool.                     *)
(*                                                                         *)
(* The REST server and its session store share one pool.  A sign-up opens  *)
(* a transaction, which keeps a connection; with a password it then looks  *)
(* the e-mail up on a second one; it inserts the user and the row of its   *)
(* role, commits, and has the session written.  A request that waits for a *)
(* connection gives up after the pool's timeout.  An action is one         *)
(* statement with the decision that follows it, and a handler that ends    *)
(* gives back what it holds: Rust drops the transaction, which rolls back. *)
(*                                                                         *)
(* An account is known by its e-mail, which the database keeps unique.  A  *)
(* form that brings neither password nor token is refused at once.         *)
(* Names, tokens, images and the account's deletion are left out; storing  *)
(* the image only matters as a step that may fail.                         *)
(***************************************************************************)
EXTENDS Naturals, FiniteSets

CONSTANTS
  Req,                    \* the requests ever made; a retry is another request
  MaxConn,                \* connections of the pool
  Emails, Roles,
  Passwords, NoPassword   \* NoPassword: the session brings an OAuth token

ASSUME SignUpAssumption ==
  /\ IsFiniteSet(Req) /\ MaxConn \in Nat \ {0}
  /\ NoPassword \notin Passwords /\ "none" \notin Roles

VARIABLES
  account,  \* users: what the row of an e-mail says, as committed
  rows,     \* customers and sellers: whose row of which role is committed
  req       \* the requests

vars == <<account, rows, req>>

Account == [password : Passwords \cup {NoPassword}, role : Roles]
NoAccount == [password |-> NoPassword, role |-> "none"]
-----------------------------------------------------------------------------
(* Where a request stands: the statement it executes next. *)
InTx == {"lookup", "relogin", "insert", "role", "commit"}
Queries == {"load", "lookup", "relogin", "login", "save"}
Waits == Queries \cup {"begin"}
Points == InTx \cup Waits \cup {"idle", "done"}
Answers == {"none", "created", "conflict", "error"}
Form == [email : Emails, role : Roles, password : Passwords \cup {NoPassword}]
Request == [at : Points, waits : BOOLEAN, form : Form, answer : Answers]

Init ==
  /\ account = [e \in Emails |-> NoAccount]
  /\ rows = {}
  /\ req \in [Req -> {[at |-> "idle", waits |-> FALSE, form |-> f, answer |-> "none"] : f \in Form}]

Email(r) == req[r].form.email
IsOAuth(r) == req[r].form.password = NoPassword

(* A transaction holds a connection to its end, a query while it runs. *)
Transactions == {r \in Req : req[r].at \in InTx}
Querying == {r \in Req : req[r].at \in Queries /\ ~req[r].waits}
InUse == Cardinality(Transactions) + Cardinality(Querying)

(* Mutation: queries that open connections of their own. *)
GotoUnpooled(r, point) ==
  req' = [req EXCEPT ![r].at = point, ![r].waits = FALSE]

Goto(r, point) ==
  req' = [req EXCEPT ![r].at = point, ![r].waits = point \in Waits]
Answer(r, answer) ==
  req' = [req EXCEPT ![r].at = "done", ![r].waits = FALSE, ![r].answer = answer]

Runs(r, point) == req[r].at = point /\ ~req[r].waits
-----------------------------------------------------------------------------
(* The session is loaded if the client has one: an OAuth token is kept in it. *)
Submit(r) ==
  /\ req[r].at = "idle"
  /\ \/ Goto(r, "load")
     \/ ~IsOAuth(r) /\ Goto(r, "begin")
  /\ UNCHANGED <<account, rows>>

(* The pool hands a connection to a query that waits for one. *)
Take(r) ==
  /\ req[r].at \in Queries /\ req[r].waits /\ InUse < MaxConn
  /\ req' = [req EXCEPT ![r].waits = FALSE]
  /\ UNCHANGED <<account, rows>>

(* Mutation: a pool without acquire timeout. *)
WaitForever(r) == FALSE /\ UNCHANGED vars

(* The pool's acquire timeout, answered with an error. *)
Timeout(r) ==
  /\ req[r].waits
  /\ Answer(r, "error")
  /\ UNCHANGED <<account, rows>>

Load(r) ==
  /\ Runs(r, "load")
  /\ Goto(r, "begin")
  /\ UNCHANGED <<account, rows>>

Begin(r) ==
  /\ req[r].at = "begin" /\ InUse < MaxConn
  /\ Goto(r, IF IsOAuth(r) THEN "insert" ELSE "lookup")
  /\ UNCHANGED <<account, rows>>

(* Mutation: an account that exists is signed in whatever its password. *)
LookupUnverified(r) ==
  /\ Runs(r, "lookup")
  /\ Goto(r, IF account[Email(r)] # NoAccount THEN "relogin" ELSE "insert")
  /\ UNCHANGED <<account, rows>>

(* SELECT by e-mail, on a connection of its own: an account that has a     *)
(* password is signed in or refused, any other case goes on to INSERT.     *)
Lookup(r) ==
  LET known == account[Email(r)].password IN
  /\ Runs(r, "lookup")
  /\ \/ known = NoPassword /\ Goto(r, "insert")
     \/ known # NoPassword /\ known = req[r].form.password /\ Goto(r, "relogin")
     \/ known # NoPassword /\ known # req[r].form.password /\ Answer(r, "conflict")
  /\ UNCHANGED <<account, rows>>

(* auth_session.login inside the open transaction, which is then dropped. *)
Relogin(r) ==
  /\ Runs(r, "relogin")
  /\ Goto(r, "save")
  /\ UNCHANGED <<account, rows>>

(* The row of an e-mail that an open transaction has written. *)
Wrote == {"role", "commit"}
Locked(e) == \E r \in Req : req[r].at \in Wrote /\ Email(r) = e

(* INSERT INTO users: waits for another transaction on the same e-mail;    *)
(* the unique key fails it, except with OAuth, where it updates the token. *)
InsertUser(r) ==
  /\ Runs(r, "insert") /\ ~Locked(Email(r))
  /\ \/ (IsOAuth(r) \/ account[Email(r)] = NoAccount) /\ Goto(r, "role")
     \/ ~IsOAuth(r) /\ account[Email(r)] # NoAccount /\ Answer(r, "error")
  /\ UNCHANGED <<account, rows>>

(* INSERT INTO sellers or customers: the primary key refuses a second row. *)
InsertRole(r) ==
  /\ Runs(r, "role")
  /\ IF <<Email(r), req[r].form.role>> \in rows THEN Answer(r, "error") ELSE Goto(r, "commit")
  /\ UNCHANGED <<account, rows>>

(* Storing the image fails. *)
ImageFails(r) ==
  /\ Runs(r, "commit")
  /\ Answer(r, "error")
  /\ UNCHANGED <<account, rows>>

(* Mutation: the role's row is left to whoever first needs it. *)
CommitUserOnly(r) ==
  /\ Runs(r, "commit")
  /\ account' = [account EXCEPT ![Email(r)] =
       IF @ = NoAccount
       THEN [password |-> req[r].form.password, role |-> req[r].form.role] ELSE @]
  /\ Goto(r, "login")
  /\ UNCHANGED rows

Commit(r) ==
  /\ Runs(r, "commit")
  /\ account' = [account EXCEPT ![Email(r)] =
       IF @ = NoAccount
       THEN [password |-> req[r].form.password, role |-> req[r].form.role] ELSE @]
  /\ rows' = rows \cup {<<Email(r), req[r].form.role>>}
  /\ Goto(r, "login")

(* auth_session.login gives the session a new id ... *)
Login(r) ==
  /\ Runs(r, "login")
  /\ Goto(r, "save")
  /\ UNCHANGED <<account, rows>>

(* ... and the session layer writes it before the answer leaves. *)
Save(r) ==
  /\ Runs(r, "save")
  /\ Answer(r, "created")
  /\ UNCHANGED <<account, rows>>

(* The client goes away and the handler is dropped where it stands. *)
Drop(r) ==
  /\ req[r].at \notin {"idle", "done"}
  /\ Answer(r, "none")
  /\ UNCHANGED <<account, rows>>
-----------------------------------------------------------------------------
Step(r) ==
  \/ Load(r) \/ Begin(r) \/ Lookup(r) \/ Relogin(r)
  \/ InsertUser(r) \/ InsertRole(r) \/ ImageFails(r) \/ Commit(r)
  \/ Login(r) \/ Save(r)

Next == \E r \in Req : Submit(r) \/ Take(r) \/ Timeout(r) \/ Step(r) \/ Drop(r)

Spec == Init /\ [][Next]_vars

(* Handlers that can run do run, and the pool's timer fires; nothing says  *)
(* that a waiting request ever gets a connection.                          *)
Fairness == \A r \in Req : WF_vars(Step(r)) /\ WF_vars(Timeout(r))
FairSpec == Spec /\ Fairness
-----------------------------------------------------------------------------
(* Type correctness; the pool never lends more connections than it has. *)
TypeOK ==
  /\ account \in [Emails -> Account \cup {NoAccount}]
  /\ rows \subseteq Emails \X Roles
  /\ req \in [Req -> Request]
  /\ InUse <= MaxConn

(* An account and the row of its role appear together, whatever step of a  *)
(* sign-up fails or is raced by another sign-up for the same e-mail.       *)
AccountsWhole ==
  \A e \in Emails :
    /\ account[e] # NoAccount => <<e, account[e].role>> \in rows
    /\ account[e] = NoAccount => \A role \in Roles : <<e, role>> \notin rows

(* Who is told 201 has an account with the password it sent, and who is    *)
(* told 409 never had: a retry of a sign-up that was committed, but whose  *)
(* answer was lost or failed with the session, is not refused.             *)
AnswersTrue ==
  \A r \in Req : LET known == account[Email(r)] IN
    /\ req[r].answer = "created" =>
         /\ known # NoAccount
         /\ ~IsOAuth(r) => known.password = req[r].form.password
    /\ req[r].answer = "conflict" =>
         known.password \notin {NoPassword, req[r].form.password}

(* Every sign-up ends, also when those in progress hold every connection   *)
(* and each of them waits for one more.                                    *)
Answered == \A r \in Req : req[r].at # "idle" ~> req[r].at = "done"
=============================================================================
