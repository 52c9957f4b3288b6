----------------------------- MODULE SignUpProofs -----------------------------
(* Between the look-up of an e-mail and the commit other sign-ups may have  *)
(* created its account.  What saves the handler is the row lock: of the     *)
(* transactions that have written one e-mail's row only one is open, and if *)
(* it carries a password there was no account when it got there.            *)
EXTENDS SignUp, FiniteSetTheorems, TLAPS

(* The account acc of a form's e-mail is the one its sender may enter. *)
Enters(f, acc) ==
  /\ acc[f.email] # NoAccount
  /\ f.password # NoPassword => acc[f.email].password = f.password

Fine(q, acc) ==
  /\ q.at \in Wrote /\ q.form.password # NoPassword => acc[q.form.email] = NoAccount
  /\ q.at \in {"relogin", "login", "save"} \/ q.answer = "created" => Enters(q.form, acc)
  /\ q.answer = "conflict" =>
       acc[q.form.email].password \notin {NoPassword, q.form.password}

(* One open transaction per e-mail has written its row. *)
Exclusive ==
  \A r, d \in Req :
    req[r].at \in Wrote /\ req[d].at \in Wrote /\ Email(r) = Email(d) => r = d

SignUpInv ==
  /\ TypeOK /\ AccountsWhole /\ Exclusive
  /\ \A r \in Req : Fine(req[r], account)

(* Only request r moves, and its form stays. *)
Moves(r) ==
  /\ req' \in [Req -> Request]
  /\ \A d \in Req \ {r} : req'[d] = req[d]
  /\ req'[r].form = req[r].form
-----------------------------------------------------------------------------
LEMMA GotoMoves ==
  ASSUME TypeOK, NEW r \in Req, NEW point \in Points, Goto(r, point)
  PROVE  /\ Moves(r)
         /\ req'[r].at = point /\ req'[r].waits = (point \in Waits)
         /\ req'[r].answer = req[r].answer
<1>1. req' = [req EXCEPT ![r] = [@ EXCEPT !.at = point, !.waits = point \in Waits]]
  BY DEF Goto
<1>2. (point \in Waits) \in BOOLEAN
  OBVIOUS
<1> QED  BY <1>1, <1>2 DEF TypeOK, Request, Moves

LEMMA AnswerMoves ==
  ASSUME TypeOK, NEW r \in Req, NEW answer \in Answers, Answer(r, answer)
  PROVE  /\ Moves(r)
         /\ req'[r].at = "done" /\ ~req'[r].waits /\ req'[r].answer = answer
  BY DEF Answer, TypeOK, Request, Moves, Points

LEMMA TakeMoves ==
  ASSUME TypeOK, NEW r \in Req, Take(r)
  PROVE  /\ Moves(r)
         /\ req'[r].at = req[r].at /\ ~req'[r].waits
         /\ req'[r].answer = req[r].answer
  BY DEF Take, TypeOK, Request, Moves
-----------------------------------------------------------------------------
(* The pool. *)

LEMMA Counted ==
  /\ IsFiniteSet(Transactions) /\ Cardinality(Transactions) \in Nat
  /\ IsFiniteSet(Querying) /\ Cardinality(Querying) \in Nat
<1>1. IsFiniteSet(Transactions) /\ IsFiniteSet(Querying)
  BY FS_Subset, SignUpAssumption DEF Transactions, Querying
<1> QED  BY <1>1, FS_CardinalityType

LEMMA CountedNext ==
  /\ IsFiniteSet(Transactions') /\ Cardinality(Transactions') \in Nat
  /\ IsFiniteSet(Querying') /\ Cardinality(Querying') \in Nat
<1>1. IsFiniteSet(Transactions') /\ IsFiniteSet(Querying')
  BY FS_Subset, SignUpAssumption DEF Transactions, Querying
<1> QED  BY <1>1, FS_CardinalityType

(* A request that gives connections back, or keeps what it has. *)
LEMMA PoolKept ==
  ASSUME TypeOK, NEW r \in Req, Moves(r),
         req'[r].at \in InTx => req[r].at \in InTx,
         req'[r].at \in Queries /\ ~req'[r].waits => req[r].at \in Queries /\ ~req[r].waits
  PROVE  InUse' <= MaxConn
<1>1. Transactions' \subseteq Transactions
  BY DEF Transactions, Moves
<1>2. Querying' \subseteq Querying
  BY DEF Querying, Moves
<1>3. Cardinality(Transactions') <= Cardinality(Transactions)
  BY <1>1, Counted, FS_Subset
<1>4. Cardinality(Querying') <= Cardinality(Querying)
  BY <1>2, Counted, FS_Subset
<1> QED  BY <1>3, <1>4, Counted, CountedNext, SignUpAssumption DEF TypeOK, InUse

(* A request that is handed one connection of those that are left. *)
LEMMA PoolLends ==
  ASSUME TypeOK, NEW r \in Req, Moves(r), InUse < MaxConn,
         \/ req'[r].at \in InTx => req[r].at \in InTx
         \/ req'[r].at \in Queries /\ ~req'[r].waits => req[r].at \in Queries /\ ~req[r].waits
  PROVE  InUse' <= MaxConn
<1>1. /\ Transactions' \subseteq Transactions \cup {r}
      /\ Querying' \subseteq Querying \cup {r}
  BY DEF Transactions, Querying, Moves
<1>2. /\ IsFiniteSet(Transactions \cup {r})
      /\ Cardinality(Transactions \cup {r}) \in {Cardinality(Transactions), Cardinality(Transactions) + 1}
  BY Counted, FS_AddElement
<1>3. /\ IsFiniteSet(Querying \cup {r})
      /\ Cardinality(Querying \cup {r}) \in {Cardinality(Querying), Cardinality(Querying) + 1}
  BY Counted, FS_AddElement
<1>4. /\ Cardinality(Transactions') <= Cardinality(Transactions \cup {r})
      /\ Cardinality(Querying') <= Cardinality(Querying \cup {r})
  BY <1>1, <1>2, <1>3, FS_Subset
<1>5. \/ Transactions' \subseteq Transactions
      \/ Querying' \subseteq Querying
  BY DEF Transactions, Querying, Moves
<1>6. \/ Cardinality(Transactions') <= Cardinality(Transactions)
      \/ Cardinality(Querying') <= Cardinality(Querying)
  BY <1>5, Counted, FS_Subset
<1> QED
  BY <1>2, <1>3, <1>4, <1>6, Counted, CountedNext, SignUpAssumption DEF TypeOK, InUse
-----------------------------------------------------------------------------
(* Every step but the commit: the tables stay and one request moves. *)
LEMMA RequestMoves ==
  ASSUME SignUpInv, NEW r \in Req, Moves(r), UNCHANGED <<account, rows>>,
         InUse' <= MaxConn, Fine(req'[r], account),
         req'[r].at \in Wrote => req[r].at \in Wrote \/ ~Locked(Email(r))
  PROVE  SignUpInv'
<1> USE DEF SignUpInv
<1>1. TypeOK'
  BY DEF TypeOK, Moves
<1>2. AccountsWhole'
  BY DEF AccountsWhole
<1>3. ASSUME NEW a \in Req, NEW b \in Req,
             (req[a].at \in Wrote /\ req[b].at \in Wrote /\ Email(a) = Email(b))'
      PROVE  a = b
  <2>1. Email(a)' = Email(a) /\ Email(b)' = Email(b)
    BY DEF Moves, Email
  <2>2. CASE a # r /\ b # r
    BY <1>3, <2>1, <2>2 DEF Moves, Exclusive
  <2>3. CASE a = r \/ b = r
    BY <1>3, <2>1, <2>3 DEF Moves, Exclusive, Locked
  <2> QED  BY <2>2, <2>3
<1>4. ASSUME NEW d \in Req
      PROVE  Fine(req[d], account)'
  BY DEF Moves, Fine, Enters
<1> QED  BY <1>1, <1>2, <1>3, <1>4 DEF Exclusive

LEMMA Commits ==
  ASSUME SignUpInv, NEW r \in Req, Commit(r)
  PROVE  SignUpInv'
<1> USE DEF SignUpInv
<1> DEFINE e == Email(r)
<1>1. /\ Moves(r) /\ req'[r].at = "login" /\ req'[r].waits
      /\ req'[r].answer = req[r].answer
  BY GotoMoves DEF Commit, Points, InTx, Waits, Queries
<1>2. InUse' <= MaxConn
  BY <1>1, PoolKept DEF InTx
<1>3. e \in Emails /\ req[r].form \in Form /\ req[r].at = "commit"
  BY DEF TypeOK, Request, Email, Form, Commit, Runs
<1>4. [password |-> req[r].form.password, role |-> req[r].form.role] # NoAccount
  BY <1>3, SignUpAssumption DEF Form, NoAccount
<1>5. /\ \A x \in Emails \ {e} : account'[x] = account[x]
      /\ account[e] # NoAccount => account'[e] = account[e]
      /\ account[e] = NoAccount =>
           account'[e] = [password |-> req[r].form.password, role |-> req[r].form.role]
  BY <1>3 DEF Commit, TypeOK
<1>6. TypeOK'
  BY <1>1, <1>2, <1>3 DEF TypeOK, Moves, Commit, Account, Form
<1>7. AccountsWhole'
  BY <1>3, <1>4, <1>5 DEF AccountsWhole, Commit, TypeOK
<1>8. \A a, b \in Req :
        (req[a].at \in Wrote /\ req[b].at \in Wrote /\ Email(a) = Email(b))' => a = b
  BY <1>1 DEF Moves, Exclusive, Email, Wrote
<1>9. ASSUME NEW d \in Req
      PROVE  Fine(req[d], account)'
  <2>1. req[d].form.email \in Emails /\ Fine(req[d], account)
    BY DEF TypeOK, Request, Form
  <2>2. CASE d = r
    <3>1. req'[d].form.email = e /\ req'[d].form = req[r].form
      BY <1>1, <2>2 DEF Moves, Email
    <3>2. Enters(req[r].form, account')
      <4>1. CASE req[r].form.password = NoPassword
        BY <1>3, <1>4, <1>5, <4>1 DEF Enters, Email
      <4>2. CASE req[r].form.password # NoPassword
        BY <1>3, <1>4, <1>5, <2>1, <2>2, <4>2 DEF Enters, Email, Fine, Wrote
      <4> QED  BY <4>1, <4>2
    <3>3. req[r].answer = "conflict" =>
            account'[e].password \notin {NoPassword, req[r].form.password}
      BY <1>5, <2>1, <2>2 DEF Fine, Email, NoAccount
    <3> QED  BY <1>1, <2>2, <3>1, <3>2, <3>3 DEF Fine, Wrote
  <2>3. CASE d # r
    <3>1. req'[d] = req[d]
      BY <1>1, <2>3 DEF Moves
    <3>2. CASE req[d].form.email # e
      BY <1>5, <2>1, <3>1, <3>2 DEF Fine, Enters
    <3>3. CASE req[d].form.email = e
      <4>1. req[d].at \notin Wrote
        BY <1>3, <2>3, <3>3 DEF Exclusive, Email, Wrote
      <4> QED  BY <1>5, <2>1, <3>1, <3>3, <4>1 DEF Fine, Enters, NoAccount
    <3> QED  BY <3>2, <3>3
  <2> QED  BY <2>2, <2>3
<1> QED  BY <1>6, <1>7, <1>8, <1>9 DEF Exclusive
-----------------------------------------------------------------------------
LEMMA SignUpInit == Init => SignUpInv
<1> SUFFICES ASSUME Init PROVE SignUpInv
  OBVIOUS
<1>1. \A r \in Req : /\ req[r].at = "idle" /\ ~req[r].waits /\ req[r].answer = "none"
                     /\ req[r].form \in Form
  BY DEF Init
<1>2. req \in [Req -> Request]
  <2>1. "idle" \in Points /\ "none" \in Answers
    BY DEF Points, Answers
  <2>2. \A f \in Form : [at |-> "idle", waits |-> FALSE, form |-> f, answer |-> "none"] \in Request
    BY <2>1 DEF Request
  <2> QED  BY <2>2 DEF Init
<1>3. Transactions = {} /\ Querying = {}
  BY <1>1 DEF Transactions, Querying, InTx, Queries
<1>4. InUse <= MaxConn
  BY <1>3, FS_EmptySet, SignUpAssumption DEF InUse
<1>5. TypeOK
  BY <1>2, <1>4 DEF Init, TypeOK
<1>6. AccountsWhole /\ Exclusive
  BY <1>1 DEF Init, AccountsWhole, Exclusive, Wrote
<1>7. \A r \in Req : Fine(req[r], account)
  BY <1>1 DEF Fine, Wrote
<1> QED  BY <1>5, <1>6, <1>7 DEF SignUpInv

(* A handler that moves on to a point that takes no connection by itself. *)
LEMMA Goes ==
  ASSUME SignUpInv, NEW r \in Req, NEW point \in Points, Goto(r, point),
         UNCHANGED <<account, rows>>,
         point \in InTx => req[r].at \in InTx,
         point \in Queries => point \in Waits,
         point \in Wrote => req[r].at \in Wrote \/ ~Locked(Email(r)),
         Fine([req[r] EXCEPT !.at = point], account)
  PROVE  SignUpInv'
<1>1. /\ Moves(r) /\ req'[r].at = point /\ req'[r].waits = (point \in Waits)
      /\ req'[r].answer = req[r].answer
  BY GotoMoves DEF SignUpInv
<1>2. InUse' <= MaxConn
  BY <1>1, PoolKept DEF SignUpInv
<1>3. Fine(req'[r], account)
  BY <1>1 DEF Fine, Moves, SignUpInv, TypeOK, Request
<1> QED  BY <1>1, <1>2, <1>3, RequestMoves

(* A handler that ends. *)
LEMMA Ends ==
  ASSUME SignUpInv, NEW r \in Req, NEW answer \in Answers, Answer(r, answer),
         UNCHANGED <<account, rows>>,
         Fine([req[r] EXCEPT !.at = "done", !.answer = answer], account)
  PROVE  SignUpInv'
<1>1. /\ Moves(r) /\ req'[r].at = "done" /\ ~req'[r].waits
      /\ req'[r].answer = answer
  BY AnswerMoves DEF SignUpInv
<1>2. InUse' <= MaxConn
  BY <1>1, PoolKept DEF SignUpInv, InTx, Queries
<1>3. Fine(req'[r], account)
  BY <1>1 DEF Fine, Moves, SignUpInv, TypeOK, Request
<1>4. req'[r].at \notin Wrote
  BY <1>1 DEF Wrote
<1> QED  BY <1>1, <1>2, <1>3, <1>4, RequestMoves

LEMMA SignUpStep == SignUpInv /\ [Next]_vars => SignUpInv'
<1> SUFFICES ASSUME SignUpInv, [Next]_vars PROVE SignUpInv'
  OBVIOUS
<1>1. CASE UNCHANGED vars
  BY <1>1 DEF vars, SignUpInv, TypeOK, AccountsWhole, Exclusive, Fine, Enters,
     InUse, Transactions, Querying, Email
<1>2. CASE Next
  <2>1. PICK r \in Req : Submit(r) \/ Take(r) \/ Timeout(r) \/ Step(r) \/ Drop(r)
    BY <1>2 DEF Next
  <2> DEFINE q == req[r]
  <2>2. /\ q \in Request /\ Fine(q, account) /\ TypeOK
        /\ q.form.email \in Emails /\ account[q.form.email] \in Account \cup {NoAccount}
    BY DEF SignUpInv, TypeOK, Request, Form
  <2> USE DEF Points, InTx, Queries, Waits, Answers, Wrote, Runs, IsOAuth, Email
  <2>3. CASE Submit(r)
    BY <2>2, <2>3, Goes DEF Submit, Fine, Request
  <2>4. CASE Take(r)
    <3>1. /\ Moves(r) /\ req'[r].at = q.at /\ ~req'[r].waits /\ req'[r].answer = q.answer
      BY <2>2, <2>4, TakeMoves
    <3>2. InUse' <= MaxConn
      BY <2>2, <2>4, <3>1, PoolLends DEF Take
    <3>3. Fine(req'[r], account)
      BY <2>2, <3>1 DEF Fine, Moves
    <3> QED  BY <2>4, <3>1, <3>2, <3>3, RequestMoves DEF Take
  <2>5. CASE Timeout(r)
    BY <2>2, <2>5, Ends DEF Timeout, Fine, Request
  <2>6. CASE Load(r)
    BY <2>2, <2>6, Goes DEF Load, Fine, Request
  <2>7. CASE Begin(r)
    <3> DEFINE point == IF IsOAuth(r) THEN "insert" ELSE "lookup"
    <3>1. /\ Moves(r) /\ req'[r].at = point /\ req'[r].waits = (point \in Waits)
          /\ req'[r].answer = q.answer
      BY <2>2, <2>7, GotoMoves DEF Begin
    <3>2. InUse' <= MaxConn
      BY <2>2, <2>7, <3>1, PoolLends DEF Begin
    <3>3. Fine(req'[r], account)
      BY <2>2, <3>1 DEF Fine, Moves
    <3> QED  BY <2>7, <3>1, <3>2, <3>3, RequestMoves DEF Begin
  <2>8. CASE Lookup(r)
    <3>1. CASE account[q.form.email].password = NoPassword
      BY <2>2, <2>8, <3>1, Goes DEF Lookup, Fine, Request
    <3>2. CASE account[q.form.email].password # NoPassword
               /\ account[q.form.email].password = q.form.password
      <4>1. account[q.form.email] # NoAccount
        BY <3>2 DEF NoAccount
      <4>2. Goto(r, "relogin") /\ UNCHANGED <<account, rows>> /\ q.at = "lookup"
        BY <2>8, <3>2 DEF Lookup
      <4>3. Fine([q EXCEPT !.at = "relogin"], account)
        BY <2>2, <3>2, <4>1 DEF Fine, Enters, Request
      <4> QED  BY <4>2, <4>3, Goes
    <3>3. CASE account[q.form.email].password # NoPassword
               /\ account[q.form.email].password # q.form.password
      BY <2>2, <2>8, <3>3, Ends DEF Lookup, Fine, Request
    <3> QED  BY <3>1, <3>2, <3>3
  <2>9. CASE Relogin(r)
    BY <2>2, <2>9, Goes DEF Relogin, Fine, Request
  <2>10. CASE InsertUser(r)
    <3>1. CASE IsOAuth(r) \/ account[q.form.email] = NoAccount
      BY <2>2, <2>10, <3>1, Goes DEF InsertUser, Fine, Request
    <3>2. CASE ~IsOAuth(r) /\ account[q.form.email] # NoAccount
      BY <2>2, <2>10, <3>2, Ends DEF InsertUser, Fine, Request
    <3> QED  BY <3>1, <3>2
  <2>11. CASE InsertRole(r)
    BY <2>2, <2>11, Goes, Ends DEF InsertRole, Fine, Request
  <2>12. CASE ImageFails(r)
    BY <2>2, <2>12, Ends DEF ImageFails, Fine, Request
  <2>13. CASE Commit(r)
    BY <2>13, Commits
  <2>14. CASE Login(r)
    BY <2>2, <2>14, Goes DEF Login, Fine, Request
  <2>15. CASE Save(r)
    BY <2>2, <2>15, Ends DEF Save, Fine, Request
  <2>16. CASE Drop(r)
    BY <2>2, <2>16, Ends DEF Drop, Fine, Request
  <2> QED
    BY <2>1, <2>3, <2>4, <2>5, <2>6, <2>7, <2>8, <2>9, <2>10, <2>11, <2>12, <2>13,
       <2>14, <2>15, <2>16 DEF Step
<1> QED  BY <1>1, <1>2 DEF Next

LEMMA SignUpInvariant == Spec => []SignUpInv
<1> QED  BY SignUpInit, SignUpStep, PTL DEF Spec

(* Accounts, requests and the pool's count are well formed: it never lends *)
(* more connections than it has, for any number of concurrent sign-ups.    *)
THEOREM SignUpTyped == Spec => []TypeOK
<1>1. SignUpInv => TypeOK
  BY DEF SignUpInv
<1> QED  BY <1>1, SignUpInvariant, PTL

(* A sign-up is all or nothing: an account has the row of its role. *)
THEOREM SignUpWhole == Spec => []AccountsWhole
<1>1. SignUpInv => AccountsWhole
  BY DEF SignUpInv
<1> QED  BY <1>1, SignUpInvariant, PTL

(* 201 and 409 say the truth about the account, whatever sign-ups race. *)
THEOREM SignUpAnswersTrue == Spec => []AnswersTrue
<1>1. SignUpInv => AnswersTrue
  BY DEF SignUpInv, AnswersTrue, Fine, Enters, Email, IsOAuth
<1> QED  BY <1>1, SignUpInvariant, PTL
=============================================================================
