----------------------------- MODULE AuthProofs -----------------------------
(* Proofs about AuthSessions, for any number of accounts, sessions, requests *)
(* in flight, passwords and secrets, and any limits: types and the counter   *)
(* of failures; sessions against the password and the state of their         *)
(* account; the one-way life of a session; the second factor.                *)
EXTENDS AuthSessions, TLAPS

----------------------------------------------------------------------------
(* The operators the handlers share. *)

\* A commit leaves a well-formed row, whatever row it meets.
LEMMA FlushType ==
  ASSUME NEW cur \in Account, NEW loaded \in Account, NEW wanted \in Account
  PROVE  Flush(cur, loaded, wanted) \in Account
  BY DEF Flush, Col, Account

\* A counted failure leaves a well-formed row.
LEMMA FailureType ==
  ASSUME NEW a \in Account, NEW t \in Nat
  PROVE  RegisterFailure(a, t) \in Account
<1>1. t + LockoutTime \in Nat /\ a.failed + 1 \in Nat
  BY LimitsAssumption DEF Account
<1>2. CASE a.failed + 1 >= LockoutAttempts
  <2>1. [a EXCEPT !.failed = 0] \in Account
    BY DEF Account
  <2>2. [a EXCEPT !.failed = 0, !.locked = t + LockoutTime] \in Account
    BY <1>1, <2>1 DEF Account
  <2> QED
    BY <1>2, <2>2 DEF RegisterFailure
<1>3. CASE ~(a.failed + 1 >= LockoutAttempts)
  <2>1. [a EXCEPT !.failed = a.failed + 1] \in Account
    BY <1>1 DEF Account
  <2> QED
    BY <1>3, <2>1 DEF RegisterFailure
<1> QED
  BY <1>2, <1>3

\* The commit of a request keeps the users table well-formed.
LEMMA CommitType ==
  ASSUME TypeOK, NEW r \in Requests, req[r].phase = "commit",
         NEW wanted \in Account, Commit(r, wanted)
  PROVE  acct' \in [Users -> Account]
  BY FlushType DEF TypeOK, RequestOK, Commit

\* The same for a commit that sets the password.
LEMMA CommitHashType ==
  ASSUME TypeOK, NEW r \in Requests, req[r].phase = "commit",
         NEW wanted \in Account, NEW hash \in Hash, CommitHash(r, wanted, hash)
  PROVE  acct' \in [Users -> Account]
<1> DEFINE u == req[r].user
           row == Flush(acct[u], req[r].row, wanted)
<1>1. u \in Users /\ row \in Account
  BY FlushType DEF TypeOK, RequestOK
<1>2. [row EXCEPT !.hash = hash] \in Account
  BY <1>1 DEF Account
<1> QED
  BY <1>1, <1>2 DEF TypeOK, CommitHash

\* revoke_sessions keeps the sessions table well-formed and deletes no row.
LEMMA RevokeType ==
  ASSUME TypeOK, NEW u, NEW keep
  PROVE  /\ Revoke(u, keep) \in [Sessions -> Session \cup {None}]
         /\ \A s \in Sessions : sess[s] # None => Revoke(u, keep)[s] # None
  BY NoneAssumption DEF TypeOK, Revoke, Session

LEMMA FreeType == Free \in Request /\ Blank \in Arg
  BY DEF Free, Request, Blank, Arg

\* Answering a request keeps the request table well-formed if no session is lost.
LEMMA AnswerType ==
  ASSUME TypeOK, NEW r \in Requests, Answer(r),
         \A s \in Sessions : sess[s] # None => sess'[s] # None
  PROVE  req' \in [Requests -> Request] /\ \A x \in Requests : RequestOK(req[x])'
<1>1. req' \in [Requests -> Request]
  BY FreeType DEF TypeOK, Answer
<1>2. ASSUME NEW x \in Requests PROVE RequestOK(req[x])'
  <2>1. CASE x = r
    BY <2>1 DEF TypeOK, Answer, Free, RequestOK
  <2>2. CASE x # r
    BY <2>2 DEF TypeOK, Answer, RequestOK
  <2> QED BY <2>1, <2>2
<1> QED BY <1>1, <1>2

\* So does a request that moves on, to a record that is well-formed itself.
LEMMA MoveType ==
  ASSUME TypeOK, NEW r \in Requests, NEW q \in Request, RequestOK(q)',
         req' = [req EXCEPT ![r] = q],
         \A s \in Sessions : sess[s] # None => sess'[s] # None
  PROVE  req' \in [Requests -> Request] /\ \A x \in Requests : RequestOK(req[x])'
<1>1. req' \in [Requests -> Request]
  BY DEF TypeOK
<1>2. ASSUME NEW x \in Requests PROVE RequestOK(req[x])'
  <2>1. CASE x = r
    BY <2>1 DEF TypeOK
  <2>2. CASE x # r
    BY <2>2 DEF TypeOK, RequestOK
  <2> QED BY <2>1, <2>2
<1> QED BY <1>1, <1>2

----------------------------------------------------------------------------
(* Type correctness. *)

LEMMA InitType == Init => TypeOK
<1> SUFFICES ASSUME Init PROVE TypeOK
  OBVIOUS
<1>1. acct \in [Users -> Account]
  BY DEF Init, Account, Hash
<1>2. sess \in [Sessions -> Session \cup {None}]
  <2>1. PICK holder \in [Sessions -> SignedIn \cup {None}] :
          sess = [s \in Sessions |-> IF holder[s] = None THEN None ELSE
            [user |-> holder[s], seen |-> 0, exp |-> SessionTtl, revoked |-> FALSE,
             mfaOk |-> TRUE, via |-> acct[holder[s]].hash.pw]]
    BY DEF Init
  <2>2. ASSUME NEW s \in Sessions, holder[s] # None
        PROVE  holder[s] \in Users /\ acct[holder[s]].hash.pw \in Passwords
    BY <1>1, <2>2, AccountsAssumption DEF Account, Hash
  <2> QED
    BY <2>1, <2>2, LimitsAssumption DEF Session
<1>3. req \in [Requests -> Request] /\ \A r \in Requests : RequestOK(req[r])
  BY FreeType DEF Init, Free, RequestOK
<1> QED
  BY <1>1, <1>2, <1>3 DEF Init, TypeOK

\* What a request at its commit gives its handler.
LEMMA ServingType ==
  ASSUME TypeOK, NEW r \in Requests, NEW op \in AllOps, Serving(r, op)
  PROVE  /\ req[r].phase = "commit" /\ req[r].op = op
         /\ req[r].row \in Account /\ req[r].user \in Users
         /\ req[r].arg \in Arg /\ req[r].t \in Nat
         /\ op \in AdminOps => req[r].arg.user \in Users
         /\ op \in {"change", "create", "reset"} => req[r].arg.new \in Passwords
         /\ op # "login" => req[r].sess \in Sessions /\ sess[req[r].sess] \in Session
  BY DEF TypeOK, RequestOK, Serving, Request

LEMMA StepType == TypeOK /\ [Next]_vars => TypeOK'
<1> SUFFICES ASSUME TypeOK, [Next]_vars PROVE TypeOK'
  OBVIOUS
<1> DEFINE ReqType == req' \in [Requests -> Request] /\ \A x \in Requests : RequestOK(req[x])'
<1>1. ASSUME NEW r \in Requests, ReadForSignIn(r) PROVE TypeOK'
  <2>1. PICK u \in Users : \E a \in Inputs(u, "login") :
          req' = [req EXCEPT ![r] = [phase |-> "commit", op |-> "login", user |-> u,
                    sess |-> None, row |-> acct[u], t |-> now, arg |-> a]]
    BY <1>1 DEF ReadForSignIn
  <2>2. PICK a \in Inputs(u, "login") :
          req' = [req EXCEPT ![r] = [phase |-> "commit", op |-> "login", user |-> u,
                    sess |-> None, row |-> acct[u], t |-> now, arg |-> a]]
    BY <2>1
  <2> DEFINE q == [phase |-> "commit", op |-> "login", user |-> u,
                   sess |-> None, row |-> acct[u], t |-> now, arg |-> a]
  <2>3. q \in Request
    BY InputsAssumption DEF TypeOK, Request, AllOps
  <2>4. RequestOK(q)'
    BY <1>1 DEF TypeOK, RequestOK, ReadForSignIn, AllOps, AdminOps
  <2>5. ReqType
    BY <2>2, <2>3, <2>4, MoveType, <1>1 DEF ReadForSignIn
  <2> QED
    BY <1>1, <2>5 DEF TypeOK, ReadForSignIn
<1>2. ASSUME NEW r \in Requests, RefuseSignIn(r) PROVE TypeOK'
  <2>1. req[r].phase = "commit" /\ RegisterFailure(req[r].row, req[r].t) \in Account
    BY <1>2, ServingType, FailureType DEF RefuseSignIn, AllOps
  <2>2. acct' \in [Users -> Account]
    BY <1>2, <2>1, CommitType DEF RefuseSignIn, TypeOK
  <2>3. ReqType
    BY <1>2, AnswerType DEF RefuseSignIn
  <2> QED
    BY <1>2, <2>2, <2>3 DEF TypeOK, RefuseSignIn
<1>3. ASSUME NEW r \in Requests, AcceptSignIn(r) PROVE TypeOK'
  <2> DEFINE q == req[r]
             wanted == [q.row EXCEPT !.failed = 0, !.locked = 0,
                          !.state = IF @ = "pending" THEN "active" ELSE @]
             hash == NewHash(q.arg.pw, q.row.hash.temp)
  <2>1. /\ q.phase = "commit" /\ q.row \in Account /\ q.user \in Users
        /\ q.t \in Nat /\ q.arg.pw \in Passwords
    BY <1>3, ServingType DEF AcceptSignIn, PasswordRight, AllOps, Account, Hash
  <2>2. wanted \in Account
    BY <2>1 DEF Account
  <2>3. hash \in Hash
    BY <2>1 DEF NewHash, Hash, Account
  <2>4. acct' \in [Users -> Account]
    <3>1. CASE q.row.hash.old
      BY <1>3, <2>1, <2>2, <2>3, <3>1, CommitHashType DEF AcceptSignIn
    <3>2. CASE ~q.row.hash.old
      BY <1>3, <2>1, <2>2, <3>2, CommitType DEF AcceptSignIn
    <3> QED BY <3>1, <3>2
  <2>5. PICK s \in Sessions :
          /\ sess' = [sess EXCEPT ![s] =
                        [user |-> q.user, seen |-> now, exp |-> q.t + SessionTtl,
                         revoked |-> FALSE, mfaOk |-> TRUE, via |-> q.arg.pw]]
          /\ raced' \subseteq raced \cup Sessions
    BY <1>3 DEF AcceptSignIn
  <2> DEFINE new == [user |-> q.user, seen |-> now, exp |-> q.t + SessionTtl,
                     revoked |-> FALSE, mfaOk |-> TRUE, via |-> q.arg.pw]
  <2>6. new \in Session
    BY <2>1, LimitsAssumption DEF Session, TypeOK, Account
  <2>7. /\ sess' \in [Sessions -> Session \cup {None}]
        /\ \A x \in Sessions : sess[x] # None => sess'[x] # None
    BY <2>5, <2>6, NoneAssumption DEF TypeOK
  <2>8. ReqType
    BY <1>3, <2>7, AnswerType DEF AcceptSignIn
  <2> QED
    BY <1>3, <2>4, <2>5, <2>7, <2>8 DEF TypeOK, AcceptSignIn
<1>4. ASSUME NEW r \in Requests, ReadSession(r) PROVE TypeOK'
  <2>1. PICK s \in Sessions, op \in SelfOps \cup AdminOps :
          /\ sess[s] # None
          /\ \E a \in Inputs(sess[s].user, op) :
               req' = [req EXCEPT ![r] =
                 [phase |-> IF now - sess[s].seen > IdleLimit THEN "idle" ELSE "identify",
                  op |-> op, user |-> None, sess |-> s, row |-> None, t |-> now, arg |-> a]]
    BY <1>4 DEF ReadSession
  <2>2. PICK a \in Inputs(sess[s].user, op) :
          req' = [req EXCEPT ![r] =
            [phase |-> IF now - sess[s].seen > IdleLimit THEN "idle" ELSE "identify",
             op |-> op, user |-> None, sess |-> s, row |-> None, t |-> now, arg |-> a]]
    BY <2>1
  <2> DEFINE q == [phase |-> IF now - sess[s].seen > IdleLimit THEN "idle" ELSE "identify",
                   op |-> op, user |-> None, sess |-> s, row |-> None, t |-> now, arg |-> a]
  <2>3. sess[s].user \in Users /\ op \in AllOps /\ op # "login"
    BY <2>1 DEF TypeOK, Session, AllOps, SelfOps, AdminOps
  <2>4. /\ a \in Arg
        /\ op \in AdminOps => a.user \in Users
        /\ op \in {"change", "create", "reset"} => a.new \in Passwords
    BY <2>2, <2>3, InputsAssumption
  <2>5. q \in Request /\ RequestOK(q)'
    BY <1>4, <2>1, <2>3, <2>4 DEF TypeOK, Request, RequestOK, ReadSession
  <2>6. ReqType
    BY <1>4, <2>2, <2>5, MoveType DEF ReadSession
  <2> QED
    BY <1>4, <2>6 DEF TypeOK, ReadSession
<1>5. ASSUME NEW r \in Requests, IdleOut(r) PROVE TypeOK'
  <2>1. req[r].sess \in Sessions /\ sess[req[r].sess] \in Session
    BY <1>5 DEF TypeOK, RequestOK, IdleOut
  <2>2. [sess[req[r].sess] EXCEPT !.revoked = TRUE] \in Session
    BY <2>1 DEF Session
  <2>3. /\ sess' \in [Sessions -> Session \cup {None}]
        /\ \A x \in Sessions : sess[x] # None => sess'[x] # None
    BY <1>5, <2>1, <2>2, NoneAssumption DEF TypeOK, IdleOut
  <2>4. ReqType
    BY <1>5, <2>3, AnswerType DEF IdleOut
  <2> QED
    BY <1>5, <2>3, <2>4 DEF TypeOK, IdleOut
<1>6. ASSUME NEW r \in Requests, ReadCaller(r) PROVE TypeOK'
  <2> DEFINE q == req[r]
             u == sess[q.sess].user
             onTarget == [q EXCEPT !.phase = "target", !.user = u]
             onCommit == [q EXCEPT !.phase = "commit", !.user = u, !.row = acct[u], !.t = now]
  <2>1. /\ q \in Request /\ q.sess \in Sessions /\ sess[q.sess] \in Session
        /\ u \in Users /\ acct[u] \in Account /\ q.t \in Nat
    BY <1>6 DEF TypeOK, RequestOK, ReadCaller, Request, Session
  <2>2. [sess[q.sess] EXCEPT !.seen = q.t] \in Session
    BY <2>1 DEF Session
  <2>3. /\ sess' \in [Sessions -> Session \cup {None}]
        /\ \A x \in Sessions : sess[x] # None => sess'[x] # None
    BY <1>6, <2>1, <2>2, NoneAssumption DEF TypeOK, ReadCaller
  <2>4. onTarget \in Request /\ onCommit \in Request
    BY <2>1 DEF Request, TypeOK
  <2>5. RequestOK(q)
    BY DEF TypeOK
  <2>6. q.phase = "identify" /\ q.op \in AllOps /\ q.op # "login"
    BY <1>6, <2>5 DEF ReadCaller, RequestOK
  <2>7. sess'[q.sess] # None
    BY <2>1, <2>3, NoneAssumption
  <2>8. \/ Answer(r)
        \/ req' = [req EXCEPT ![r] = onTarget] /\ q.op \in AdminOps
        \/ req' = [req EXCEPT ![r] = onCommit]
    BY <1>6 DEF ReadCaller, Answer
  <2>9. ReqType
    <3>1. CASE Answer(r)
      BY <2>3, <3>1, AnswerType
    <3>2. CASE req' = [req EXCEPT ![r] = onTarget] /\ q.op \in AdminOps
      <4>1. PICK c \in Request : c = onTarget
        BY <2>4
      <4>2. /\ c.phase = "target" /\ c.op = q.op /\ c.user = u
            /\ c.sess = q.sess /\ c.arg = q.arg
        BY <2>1, <4>1 DEF Request
      <4>3. RequestOK(c)'
        BY <2>1, <2>5, <2>6, <2>7, <3>2, <4>2 DEF RequestOK
      <4> QED
        BY <2>3, <3>2, <4>1, <4>3, MoveType
    <3>3. CASE req' = [req EXCEPT ![r] = onCommit]
      <4>1. PICK c \in Request : c = onCommit
        BY <2>4
      <4>2. /\ c.phase = "commit" /\ c.op = q.op /\ c.user = u /\ c.row = acct[u]
            /\ c.sess = q.sess /\ c.arg = q.arg
        BY <2>1, <4>1 DEF Request
      <4>3. RequestOK(c)'
        BY <2>1, <2>5, <2>6, <2>7, <4>2 DEF RequestOK
      <4> QED
        BY <2>3, <3>3, <4>1, <4>3, MoveType
    <3> QED BY <2>8, <3>1, <3>2, <3>3
  <2> QED
    BY <1>6, <2>3, <2>9 DEF TypeOK, ReadCaller
<1>7. ASSUME NEW r \in Requests, Logout(r) PROVE TypeOK'
  BY <1>7, RevokeType, AnswerType DEF TypeOK, Logout
<1>8. ASSUME NEW r \in Requests, ChangePassword(r) PROVE TypeOK'
  <2> DEFINE q == req[r]
  <2>1. /\ q.phase = "commit" /\ q.row \in Account /\ q.user \in Users /\ q.t \in Nat
        /\ q.arg.new \in Passwords /\ q.sess \in Sessions /\ sess[q.sess] \in Session
    BY <1>8, ServingType DEF ChangePassword, AllOps, SelfOps
  <2>2. acct' \in [Users -> Account]
    <3>1. CASE Commit(r, RegisterFailure(q.row, q.t))
      BY <2>1, <3>1, FailureType, CommitType
    <3>2. CASE CommitHash(r, [q.row EXCEPT !.must = FALSE, !.failed = 0], NewHash(q.arg.new, FALSE))
      <4>1. NewHash(q.arg.new, FALSE) \in Hash
        BY <2>1 DEF NewHash, Hash
      <4>2. [q.row EXCEPT !.must = FALSE, !.failed = 0] \in Account
        BY <2>1 DEF Account
      <4> QED BY <2>1, <3>2, <4>1, <4>2, CommitHashType
    <3>3. CASE UNCHANGED acct
      BY <3>3 DEF TypeOK
    <3> QED BY <1>8, <3>1, <3>2, <3>3 DEF ChangePassword
  <2>3. /\ sess' \in [Sessions -> Session \cup {None}]
        /\ \A x \in Sessions : sess[x] # None => sess'[x] # None
    <3>1. CASE UNCHANGED sess
      BY <3>1 DEF TypeOK
    <3>2. CASE sess' = [Revoke(q.user, q.sess) EXCEPT ![q.sess].via = q.arg.new]
      <4> DEFINE after == Revoke(q.user, q.sess)
      <4>1. after[q.sess] = sess[q.sess]
        BY <2>1 DEF Revoke
      <4>2. [sess[q.sess] EXCEPT !.via = q.arg.new] \in Session
        BY <2>1 DEF Session
      <4>3. /\ after \in [Sessions -> Session \cup {None}]
            /\ \A x \in Sessions : sess[x] # None => after[x] # None
        BY RevokeType
      <4> HIDE DEF after
      <4>4. sess' = [after EXCEPT ![q.sess] = [sess[q.sess] EXCEPT !.via = q.arg.new]]
        BY <3>2, <4>1 DEF after
      <4> QED BY <4>2, <4>3, <4>4, NoneAssumption
    <3> QED BY <1>8, <3>1, <3>2 DEF ChangePassword
  <2>4. ReqType
    BY <1>8, <2>3, AnswerType DEF ChangePassword
  <2> QED
    BY <1>8, <2>2, <2>3, <2>4 DEF TypeOK, ChangePassword
<1>9. ASSUME NEW r \in Requests, TotpEnroll(r) PROVE TypeOK'
  <2> DEFINE q == req[r]
  <2>1. /\ q.phase = "commit" /\ q.row \in Account /\ q.t \in Nat
    BY <1>9, ServingType DEF TotpEnroll, AllOps, SelfOps
  <2>2. acct' \in [Users -> Account] /\ confirmed' \subseteq Secrets
    <3>1. CASE Commit(r, RegisterFailure(q.row, q.t)) /\ UNCHANGED confirmed
      BY <2>1, <3>1, FailureType, CommitType DEF TypeOK
    <3>2. CASE \E x \in Secrets \ SecretsInUse :
                 /\ Commit(r, [q.row EXCEPT !.pending = x, !.tries = 0])
                 /\ confirmed' = confirmed \ {x}
      <4>1. PICK x \in Secrets : /\ Commit(r, [q.row EXCEPT !.pending = x, !.tries = 0])
                                 /\ confirmed' = confirmed \ {x}
        BY <3>2
      <4>2. [q.row EXCEPT !.pending = x, !.tries = 0] \in Account
        BY <2>1 DEF Account
      <4> QED
        BY <2>1, <4>1, <4>2, CommitType DEF TypeOK
    <3>3. CASE UNCHANGED <<acct, confirmed>>
      BY <3>3 DEF TypeOK
    <3> QED
      BY <1>9, <3>1, <3>2, <3>3 DEF TotpEnroll
  <2>3. ReqType
    BY <1>9, AnswerType DEF TotpEnroll
  <2> QED
    BY <1>9, <2>2, <2>3 DEF TypeOK, TotpEnroll
<1>10. ASSUME NEW r \in Requests, TotpVerify(r) PROVE TypeOK'
  <2> DEFINE q == req[r]
             discarded == [q.row EXCEPT !.pending = None, !.tries = 0]
             counted == [q.row EXCEPT !.tries = @ + 1]
             enrolled == [q.row EXCEPT !.secret = q.row.pending, !.pending = None, !.tries = 0,
                                       !.enrolled = TRUE]
  <2>1. q.phase = "commit" /\ q.row \in Account
    BY <1>10, ServingType DEF TotpVerify, AllOps, SelfOps
  <2>2. discarded \in Account /\ counted \in Account /\ enrolled \in Account
    <3>1. discarded \in Account BY <2>1 DEF Account
    <3>2. counted \in Account BY <2>1 DEF Account
    <3>3. enrolled \in Account BY <2>1 DEF Account
    <3> QED BY <3>1, <3>2, <3>3
  <2>3. acct' \in [Users -> Account]
    BY <1>10, <2>1, <2>2, CommitType DEF TypeOK, TotpVerify
  <2>4. confirmed' \subseteq Secrets
    BY <1>10, <2>1 DEF TypeOK, TotpVerify, Account
  <2>5. ReqType
    BY <1>10, AnswerType DEF TotpVerify
  <2> QED
    BY <1>10, <2>3, <2>4, <2>5 DEF TypeOK, TotpVerify
<1>11. ASSUME NEW r \in Requests, ReadTarget(r) PROVE TypeOK'
  <2> DEFINE q == req[r]
             u == q.arg.user
             loaded == [q EXCEPT !.phase = "commit", !.user = u, !.row = acct[u]]
  <2>1. q \in Request /\ RequestOK(q) /\ q.phase = "target"
    BY <1>11 DEF TypeOK, ReadTarget
  <2>2. u \in Users /\ acct[u] \in Account
    BY <2>1 DEF TypeOK, RequestOK
  <2>3. loaded \in Request
    BY <2>1, <2>2 DEF Request
  <2>4. Answer(r) \/ req' = [req EXCEPT ![r] = loaded]
    BY <1>11 DEF ReadTarget, Answer
  <2>5. ReqType
    <3>1. CASE Answer(r)
      BY <1>11, <3>1, AnswerType DEF ReadTarget
    <3>2. CASE req' = [req EXCEPT ![r] = loaded]
      <4>1. PICK c \in Request : c = loaded
        BY <2>3
      <4>2. /\ c.phase = "commit" /\ c.op = q.op /\ c.user = u /\ c.row = acct[u]
            /\ c.sess = q.sess /\ c.arg = q.arg
        BY <2>1, <4>1 DEF Request
      <4>3. sess' = sess
        BY <1>11 DEF ReadTarget
      <4>4. RequestOK(c)'
        BY <2>1, <2>2, <4>2, <4>3 DEF RequestOK, AdminOps
      <4> QED
        BY <3>2, <4>1, <4>3, <4>4, MoveType
    <3> QED BY <2>4, <3>1, <3>2
  <2> QED
    BY <1>11, <2>5 DEF TypeOK, ReadTarget
<1>12. ASSUME NEW r \in Requests, CreateUser(r) PROVE TypeOK'
  <2> DEFINE q == req[r]
             row == [state |-> "pending", mgr |-> FALSE, hash |-> NewHash(q.arg.new, q.arg.temp),
                     must |-> q.arg.temp, failed |-> 0, locked |-> 0, enrolled |-> FALSE,
                     secret |-> None, pending |-> None, tries |-> 0]
  <2>1. q.user \in Users /\ q.arg \in Arg /\ q.arg.new \in Passwords
    BY <1>12, ServingType DEF CreateUser, AllOps, AdminOps
  <2>2. row \in Account
    BY <2>1 DEF Account, NewHash, Hash, Arg
  <2>3. acct' \in [Users -> Account]
    BY <1>12, <2>1, <2>2 DEF TypeOK, CreateUser
  <2>4. ReqType
    BY <1>12, AnswerType DEF CreateUser
  <2> QED
    BY <1>12, <2>3, <2>4 DEF TypeOK, CreateUser
<1>13. ASSUME NEW r \in Requests, UpdateUser(r) PROVE TypeOK'
  <2> DEFINE q == req[r]
             wanted == [q.row EXCEPT !.state = IF q.arg.state = None THEN @ ELSE q.arg.state,
                                     !.mgr = IF q.arg.mgr = None THEN @ ELSE q.arg.mgr]
  <2>1. q.phase = "commit" /\ q.row \in Account /\ q.arg \in Arg /\ q.user \in Users
    BY <1>13, ServingType DEF UpdateUser, AllOps, AdminOps
  <2>2. wanted \in Account
    BY <2>1 DEF Account, Arg
  <2>3. acct' \in [Users -> Account]
    BY <1>13, <2>1, <2>2, CommitType DEF UpdateUser
  <2>4. /\ sess' \in [Sessions -> Session \cup {None}]
        /\ \A x \in Sessions : sess[x] # None => sess'[x] # None
    BY <1>13, <2>1, RevokeType DEF TypeOK, UpdateUser
  <2>5. ReqType
    BY <1>13, <2>4, AnswerType DEF UpdateUser
  <2> QED
    BY <1>13, <2>3, <2>4, <2>5 DEF TypeOK, UpdateUser
<1>14. ASSUME NEW r \in Requests, SetPassword(r) PROVE TypeOK'
  <2> DEFINE q == req[r]
             wanted == [q.row EXCEPT !.must = q.arg.temp, !.failed = 0, !.locked = 0]
             hash == NewHash(q.arg.new, q.arg.temp)
  <2>1. /\ q.phase = "commit" /\ q.row \in Account /\ q.arg \in Arg /\ q.user \in Users
        /\ q.arg.new \in Passwords
    BY <1>14, ServingType DEF SetPassword, AllOps, AdminOps
  <2>2. wanted \in Account
    BY <2>1 DEF Account, Arg
  <2>3. hash \in Hash
    BY <2>1 DEF Hash, NewHash, Arg
  <2>4. acct' \in [Users -> Account]
    BY <1>14, <2>1, <2>2, <2>3, CommitHashType DEF SetPassword
  <2>5. /\ sess' \in [Sessions -> Session \cup {None}]
        /\ \A x \in Sessions : sess[x] # None => sess'[x] # None
    BY <1>14, <2>1, RevokeType DEF SetPassword
  <2>6. ReqType
    BY <1>14, <2>5, AnswerType DEF SetPassword
  <2> QED
    BY <1>14, <2>4, <2>5, <2>6 DEF TypeOK, SetPassword
<1>15. ASSUME NEW r \in Requests, DisableUser(r) PROVE TypeOK'
  <2> DEFINE q == req[r]
             wanted == [q.row EXCEPT !.state = "disabled"]
  <2>1. q.phase = "commit" /\ q.row \in Account /\ q.user \in Users
    BY <1>15, ServingType DEF DisableUser, AllOps, AdminOps
  <2>2. wanted \in Account
    BY <2>1 DEF Account
  <2>3. acct' \in [Users -> Account]
    BY <1>15, <2>1, <2>2, CommitType DEF DisableUser
  <2>4. /\ sess' \in [Sessions -> Session \cup {None}]
        /\ \A x \in Sessions : sess[x] # None => sess'[x] # None
    BY <1>15, <2>1, RevokeType DEF DisableUser
  <2>5. ReqType
    BY <1>15, <2>4, AnswerType DEF DisableUser
  <2> QED
    BY <1>15, <2>3, <2>4, <2>5 DEF TypeOK, DisableUser
<1>16. ASSUME NEW r \in Requests, Abort(r) PROVE TypeOK'
  BY <1>16, AnswerType DEF TypeOK, Abort
<1>17. CASE Tick
  BY <1>17, LimitsAssumption DEF TypeOK, RequestOK, Tick
<1>18. CASE UNCHANGED vars
  BY <1>18 DEF TypeOK, RequestOK, vars
<1> QED
  BY <1>1, <1>2, <1>3, <1>4, <1>5, <1>6, <1>7, <1>8, <1>9, <1>10, <1>11, <1>12, <1>13,
     <1>14, <1>15, <1>16, <1>17, <1>18 DEF Next, Handle

\* TypeOK holds of every reachable state: whatever requests overlap, every row and
\* every request in flight stays well-formed (models.py, and the copies handlers keep).
THEOREM TypeCorrect == Spec => []TypeOK
  BY InitType, StepType, PTL DEF Spec

----------------------------------------------------------------------------
(* What a commit leaves in the row. *)

\* Every column holds what it held or what the handler wanted; other rows keep.
LEMMA CommitColumns ==
  ASSUME TypeOK, NEW r \in Requests, req[r].phase = "commit",
         NEW wanted \in Account, Commit(r, wanted)
  PROVE  /\ \A u \in Users \ {req[r].user} : acct'[u] = acct[u]
         /\ acct'[req[r].user].hash = acct[req[r].user].hash
         /\ acct'[req[r].user].failed = Col(acct[req[r].user].failed, req[r].row.failed, wanted.failed)
         /\ acct'[req[r].user].state = Col(acct[req[r].user].state, req[r].row.state, wanted.state)
<1>1. req[r].user \in Users
  BY DEF TypeOK, RequestOK
<1> QED
  BY <1>1 DEF TypeOK, Commit, Flush

\* The same for a commit that sets the password.
LEMMA CommitHashColumns ==
  ASSUME TypeOK, NEW r \in Requests, req[r].phase = "commit",
         NEW wanted \in Account, NEW hash \in Hash, CommitHash(r, wanted, hash)
  PROVE  /\ \A u \in Users \ {req[r].user} : acct'[u] = acct[u]
         /\ acct'[req[r].user].hash = hash
         /\ acct'[req[r].user].failed = Col(acct[req[r].user].failed, req[r].row.failed, wanted.failed)
         /\ acct'[req[r].user].state = Col(acct[req[r].user].state, req[r].row.state, wanted.state)
<1> DEFINE q == req[r]
<1>1. q.user \in Users
  BY DEF TypeOK, RequestOK
<1>2. acct'[q.user] = [Flush(acct[q.user], q.row, wanted) EXCEPT !.hash = hash]
  BY <1>1 DEF TypeOK, CommitHash
<1>3. \A u \in Users \ {q.user} : acct'[u] = acct[u]
  BY <1>1 DEF TypeOK, CommitHash
<1> QED
  BY <1>2, <1>3 DEF Flush

----------------------------------------------------------------------------
(* The failure counter. *)

CounterOK ==
  /\ FailedBelowLimit
  /\ \A r \in Requests : req[r].phase = "commit" => req[r].row.failed < LockoutAttempts

LEMMA FailureBelow ==
  ASSUME NEW a \in Account, a.failed < LockoutAttempts, NEW t \in Nat
  PROVE  RegisterFailure(a, t).failed < LockoutAttempts
  BY LimitsAssumption DEF RegisterFailure, Account

\* A commit that wants a counter below the threshold leaves it below.
LEMMA CommitBelow ==
  ASSUME TypeOK, FailedBelowLimit, NEW r \in Requests, req[r].phase = "commit",
         NEW wanted \in Account, wanted.failed < LockoutAttempts,
         \/ Commit(r, wanted)
         \/ \E hash \in Hash : CommitHash(r, wanted, hash)
  PROVE  FailedBelowLimit'
<1>1. req[r].user \in Users
  BY DEF TypeOK, RequestOK
<1>2. /\ \A u \in Users \ {req[r].user} : acct'[u] = acct[u]
      /\ acct'[req[r].user].failed = Col(acct[req[r].user].failed, req[r].row.failed, wanted.failed)
  BY CommitColumns, CommitHashColumns
<1> QED
  BY <1>1, <1>2 DEF FailedBelowLimit, Col

\* An answered request holds no copy any more; the others keep theirs.
LEMMA AnswerBelow ==
  ASSUME TypeOK, CounterOK, NEW r \in Requests, Answer(r), FailedBelowLimit'
  PROVE  CounterOK'
  BY DEF TypeOK, CounterOK, Answer, Free

\* A request that reads a row copies a counter below the threshold.
LEMMA ReadBelow ==
  ASSUME TypeOK, CounterOK, NEW r \in Requests, NEW q, req' = [req EXCEPT ![r] = q],
         UNCHANGED acct, q.phase = "commit" => \E u \in Users : q.row = acct[u]
  PROVE  CounterOK'
<1>1. FailedBelowLimit'
  BY DEF CounterOK, FailedBelowLimit
<1>2. ASSUME NEW x \in Requests, req'[x].phase = "commit"
      PROVE  req'[x].row.failed < LockoutAttempts
  BY <1>2 DEF TypeOK, CounterOK, FailedBelowLimit
<1> QED
  BY <1>1, <1>2 DEF CounterOK

LEMMA CounterInit == Init => CounterOK
  BY LimitsAssumption DEF Init, CounterOK, FailedBelowLimit, Free

LEMMA CounterStep == TypeOK /\ CounterOK /\ [Next]_vars => CounterOK'
<1> SUFFICES ASSUME TypeOK, CounterOK, [Next]_vars PROVE CounterOK'
  OBVIOUS
<1>0. FailedBelowLimit /\ LockoutAttempts > 0 /\ LockoutAttempts \in Nat
  BY LimitsAssumption DEF CounterOK
<1>1. ASSUME NEW r \in Requests, ReadForSignIn(r) PROVE CounterOK'
  <2>1. PICK u \in Users, a \in Arg :
          req' = [req EXCEPT ![r] = [phase |-> "commit", op |-> "login", user |-> u,
                    sess |-> None, row |-> acct[u], t |-> now, arg |-> a]]
    BY <1>1, InputsAssumption DEF ReadForSignIn, AllOps
  <2> QED
    BY <1>1, <2>1, ReadBelow DEF ReadForSignIn
<1>2. ASSUME NEW r \in Requests, RefuseSignIn(r) PROVE CounterOK'
  <2>1. /\ req[r].phase = "commit" /\ req[r].row \in Account /\ req[r].t \in Nat
        /\ req[r].row.failed < LockoutAttempts
    BY <1>2, ServingType DEF RefuseSignIn, AllOps, CounterOK
  <2>2. CASE UNCHANGED acct
    BY <1>0, <1>2, <2>2, AnswerBelow DEF RefuseSignIn, FailedBelowLimit
  <2>3. CASE Commit(r, RegisterFailure(req[r].row, req[r].t))
    BY <1>0, <1>2, <2>1, <2>3, FailureType, FailureBelow, CommitBelow, AnswerBelow DEF RefuseSignIn
  <2> QED
    BY <1>2, <2>2, <2>3 DEF RefuseSignIn
<1>3. ASSUME NEW r \in Requests, AcceptSignIn(r) PROVE CounterOK'
  <2> DEFINE q == req[r]
             wanted == [q.row EXCEPT !.failed = 0, !.locked = 0,
                          !.state = IF @ = "pending" THEN "active" ELSE @]
             hash == NewHash(q.arg.pw, q.row.hash.temp)
  <2>1. q.phase = "commit" /\ q.row \in Account /\ q.arg.pw \in Passwords
    BY <1>3, ServingType DEF AcceptSignIn, PasswordRight, AllOps, Account, Hash
  <2>2. wanted \in Account /\ wanted.failed = 0 /\ hash \in Hash
    BY <2>1 DEF Account, NewHash, Hash
  <2>3. Commit(r, wanted) \/ CommitHash(r, wanted, hash)
    BY <1>3 DEF AcceptSignIn
  <2>4. FailedBelowLimit'
    BY <1>0, <2>1, <2>2, <2>3, CommitBelow
  <2> QED
    BY <1>3, <2>4, AnswerBelow DEF AcceptSignIn
<1>4. ASSUME NEW r \in Requests, ReadSession(r) PROVE CounterOK'
  <2>1. PICK s \in Sessions, op \in AllOps, a \in Arg :
          req' = [req EXCEPT ![r] =
            [phase |-> IF now - sess[s].seen > IdleLimit THEN "idle" ELSE "identify",
             op |-> op, user |-> None, sess |-> s, row |-> None, t |-> now, arg |-> a]]
    BY <1>4, InputsAssumption DEF ReadSession, AllOps, TypeOK, Session
  <2> QED
    BY <1>4, <2>1, ReadBelow DEF ReadSession
<1>5. ASSUME NEW r \in Requests, ReadCaller(r) PROVE CounterOK'
  <2> DEFINE q == req[r]
             u == sess[q.sess].user
             onTarget == [q EXCEPT !.phase = "target", !.user = u]
             onCommit == [q EXCEPT !.phase = "commit", !.user = u, !.row = acct[u], !.t = now]
  <2>1. q \in Request /\ q.sess \in Sessions /\ u \in Users
    BY <1>5 DEF TypeOK, RequestOK, ReadCaller, Session
  <2>2. onTarget.phase # "commit" /\ onCommit.row = acct[u] /\ Free.phase # "commit"
    BY <2>1 DEF Request, Free
  <2>3. \/ req' = [req EXCEPT ![r] = Free]
        \/ req' = [req EXCEPT ![r] = onTarget]
        \/ req' = [req EXCEPT ![r] = onCommit]
    BY <1>5 DEF ReadCaller
  <2>4. UNCHANGED acct
    BY <1>5 DEF ReadCaller
  <2> HIDE DEF onTarget, onCommit
  <2> QED
    BY <2>1, <2>2, <2>3, <2>4, ReadBelow
<1>6. ASSUME NEW r \in Requests, ReadTarget(r) PROVE CounterOK'
  <2> DEFINE q == req[r]
             u == q.arg.user
             loaded == [q EXCEPT !.phase = "commit", !.user = u, !.row = acct[u]]
  <2>1. q \in Request /\ u \in Users
    BY <1>6 DEF TypeOK, RequestOK, ReadTarget
  <2>2. loaded.row = acct[u] /\ Free.phase # "commit"
    BY <2>1 DEF Request, Free
  <2>3. req' = [req EXCEPT ![r] = Free] \/ req' = [req EXCEPT ![r] = loaded]
    BY <1>6 DEF ReadTarget
  <2>4. UNCHANGED acct
    BY <1>6 DEF ReadTarget
  <2> HIDE DEF loaded
  <2> QED
    BY <2>1, <2>2, <2>3, <2>4, ReadBelow
<1>7. ASSUME NEW r \in Requests, IdleOut(r) \/ Logout(r) \/ Abort(r) PROVE CounterOK'
  BY <1>0, <1>7, AnswerBelow DEF IdleOut, Logout, Abort, FailedBelowLimit
<1>8. ASSUME NEW r \in Requests, ChangePassword(r) PROVE CounterOK'
  <2> DEFINE q == req[r]
             wanted == [q.row EXCEPT !.must = FALSE, !.failed = 0]
  <2>1. /\ q.phase = "commit" /\ q.row \in Account /\ q.t \in Nat /\ q.arg.new \in Passwords
        /\ q.row.failed < LockoutAttempts
    BY <1>8, ServingType DEF ChangePassword, AllOps, SelfOps, CounterOK
  <2>2. FailedBelowLimit'
    <3>1. CASE UNCHANGED acct
      BY <1>0, <3>1 DEF FailedBelowLimit
    <3>2. CASE Commit(r, RegisterFailure(q.row, q.t))
      BY <1>0, <2>1, <3>2, FailureType, FailureBelow, CommitBelow
    <3>3. CASE CommitHash(r, wanted, NewHash(q.arg.new, FALSE))
      <4>1. wanted \in Account /\ wanted.failed = 0 /\ NewHash(q.arg.new, FALSE) \in Hash
        BY <2>1 DEF Account, NewHash, Hash
      <4> QED
        BY <1>0, <2>1, <3>3, <4>1, CommitBelow
    <3> QED
      BY <1>8, <3>1, <3>2, <3>3 DEF ChangePassword
  <2> QED
    BY <1>8, <2>2, AnswerBelow DEF ChangePassword
<1>9. ASSUME NEW r \in Requests, TotpEnroll(r) PROVE CounterOK'
  <2> DEFINE q == req[r]
  <2>1. /\ q.phase = "commit" /\ q.row \in Account /\ q.t \in Nat
        /\ q.row.failed < LockoutAttempts
    BY <1>9, ServingType DEF TotpEnroll, AllOps, SelfOps, CounterOK
  <2>2. FailedBelowLimit'
    <3>1. CASE UNCHANGED acct
      BY <1>0, <3>1 DEF FailedBelowLimit
    <3>2. CASE Commit(r, RegisterFailure(q.row, q.t))
      BY <1>0, <2>1, <3>2, FailureType, FailureBelow, CommitBelow
    <3>3. ASSUME NEW x \in Secrets, Commit(r, [q.row EXCEPT !.pending = x, !.tries = 0])
          PROVE  FailedBelowLimit'
      <4> DEFINE wanted == [q.row EXCEPT !.pending = x, !.tries = 0]
      <4>1. wanted \in Account /\ wanted.failed = q.row.failed
        BY <2>1 DEF Account
      <4> QED
        BY <1>0, <2>1, <3>3, <4>1, CommitBelow
    <3> QED
      BY <1>9, <3>1, <3>2, <3>3 DEF TotpEnroll
  <2> QED
    BY <1>9, <2>2, AnswerBelow DEF TotpEnroll
<1>10. ASSUME NEW r \in Requests, TotpVerify(r) PROVE CounterOK'
  <2> DEFINE q == req[r]
             discarded == [q.row EXCEPT !.pending = None, !.tries = 0]
             counted == [q.row EXCEPT !.tries = @ + 1]
             enrolled == [q.row EXCEPT !.secret = q.row.pending, !.pending = None, !.tries = 0,
                                       !.enrolled = TRUE]
  <2>1. q.phase = "commit" /\ q.row \in Account /\ q.row.failed < LockoutAttempts
    BY <1>10, ServingType DEF TotpVerify, AllOps, SelfOps, CounterOK
  <2>2. discarded \in Account /\ discarded.failed = q.row.failed
    BY <2>1 DEF Account
  <2>3. counted \in Account /\ counted.failed = q.row.failed
    BY <2>1 DEF Account
  <2>4. enrolled \in Account /\ enrolled.failed = q.row.failed
    BY <2>1 DEF Account
  <2>5. UNCHANGED acct \/ Commit(r, discarded) \/ Commit(r, counted) \/ Commit(r, enrolled)
    BY <1>10 DEF TotpVerify
  <2>6. FailedBelowLimit'
    <3>1. CASE UNCHANGED acct
      BY <1>0, <3>1 DEF FailedBelowLimit
    <3>2. CASE Commit(r, discarded)
      BY <1>0, <2>1, <2>2, <3>2, CommitBelow
    <3>3. CASE Commit(r, counted)
      BY <1>0, <2>1, <2>3, <3>3, CommitBelow
    <3>4. CASE Commit(r, enrolled)
      BY <1>0, <2>1, <2>4, <3>4, CommitBelow
    <3> QED
      BY <2>5, <3>1, <3>2, <3>3, <3>4
  <2> QED
    BY <1>10, <2>6, AnswerBelow DEF TotpVerify
<1>11. ASSUME NEW r \in Requests, CreateUser(r) PROVE CounterOK'
  <2>1. FailedBelowLimit'
    BY <1>0, <1>11 DEF CreateUser, FailedBelowLimit, TypeOK
  <2> QED
    BY <1>11, <2>1, AnswerBelow DEF CreateUser
<1>12. ASSUME NEW r \in Requests, UpdateUser(r) PROVE CounterOK'
  <2> DEFINE q == req[r]
             wanted == [q.row EXCEPT !.state = IF q.arg.state = None THEN @ ELSE q.arg.state,
                                     !.mgr = IF q.arg.mgr = None THEN @ ELSE q.arg.mgr]
  <2>1. /\ q.phase = "commit" /\ q.row \in Account /\ q.arg \in Arg
        /\ q.row.failed < LockoutAttempts
    BY <1>12, ServingType DEF UpdateUser, AllOps, AdminOps, CounterOK
  <2>2. wanted \in Account /\ wanted.failed = q.row.failed
    BY <2>1 DEF Account, Arg
  <2>3. FailedBelowLimit'
    BY <1>0, <1>12, <2>1, <2>2, CommitBelow DEF UpdateUser
  <2> QED
    BY <1>12, <2>3, AnswerBelow DEF UpdateUser
<1>13. ASSUME NEW r \in Requests, SetPassword(r) PROVE CounterOK'
  <2> DEFINE q == req[r]
             wanted == [q.row EXCEPT !.must = q.arg.temp, !.failed = 0, !.locked = 0]
             hash == NewHash(q.arg.new, q.arg.temp)
  <2>1. /\ q.phase = "commit" /\ q.row \in Account /\ q.arg \in Arg
        /\ q.arg.new \in Passwords
    BY <1>13, ServingType DEF SetPassword, AllOps, AdminOps
  <2>2. wanted \in Account /\ wanted.failed = 0 /\ hash \in Hash
    BY <2>1 DEF Account, Hash, NewHash, Arg
  <2>3. FailedBelowLimit'
    BY <1>0, <1>13, <2>1, <2>2, CommitBelow DEF SetPassword
  <2> QED
    BY <1>13, <2>3, AnswerBelow DEF SetPassword
<1>14. ASSUME NEW r \in Requests, DisableUser(r) PROVE CounterOK'
  <2> DEFINE q == req[r]
             wanted == [q.row EXCEPT !.state = "disabled"]
  <2>1. q.phase = "commit" /\ q.row \in Account /\ q.row.failed < LockoutAttempts
    BY <1>14, ServingType DEF DisableUser, AllOps, AdminOps, CounterOK
  <2>2. wanted \in Account /\ wanted.failed = q.row.failed
    BY <2>1 DEF Account
  <2>3. FailedBelowLimit'
    BY <1>0, <1>14, <2>1, <2>2, CommitBelow DEF DisableUser
  <2> QED
    BY <1>14, <2>3, AnswerBelow DEF DisableUser
<1>15. CASE Tick \/ UNCHANGED vars
  BY <1>15 DEF Tick, vars, CounterOK, FailedBelowLimit
<1> QED
  BY <1>1, <1>2, <1>3, <1>4, <1>5, <1>6, <1>7, <1>8, <1>9, <1>10, <1>11, <1>12, <1>13,
     <1>14, <1>15 DEF Next, Handle

\* However many sign-ins and changes read the counter before each other's commits,
\* it never reaches the lock-out threshold (_register_failure and its callers).
THEOREM CounterCorrect == Spec => []FailedBelowLimit
<1>1. CounterOK => FailedBelowLimit
  BY DEF CounterOK
<1> QED
  BY <1>1, TypeCorrect, CounterInit, CounterStep, PTL DEF Spec

----------------------------------------------------------------------------
(* Which live sessions a password change or a disabling may leave.  The      *)
(* handlers whose commit changes a password, an account's state or opens a   *)
(* session are six; every other step is Quiet.                               *)

\* The branch of ChangePassword that sets the new password.
Changes(r) ==
  LET q == req[r] IN
  /\ Serving(r, "change")
  /\ CommitHash(r, [q.row EXCEPT !.must = FALSE, !.failed = 0], NewHash(q.arg.new, FALSE))
  /\ sess' = [Revoke(q.user, q.sess) EXCEPT ![q.sess].via = q.arg.new]
  /\ Answer(r) /\ UNCHANGED raced

RowsKept == \A u \in Users : acct'[u].hash = acct[u].hash /\ acct'[u].state = acct[u].state

\* No session is opened, reopened, or moved to another account or password.
SessionsKept ==
  \A s \in Sessions :
    IF sess[s] = None THEN sess'[s] = None
    ELSE /\ sess'[s] # None /\ sess'[s].user = sess[s].user /\ sess'[s].via = sess[s].via
         /\ sess[s].revoked => sess'[s].revoked

Quiet == RowsKept /\ SessionsKept /\ raced' = raced

Acts(r) == \/ AcceptSignIn(r) \/ Changes(r) \/ CreateUser(r) \/ UpdateUser(r)
           \/ SetPassword(r) \/ DisableUser(r)

----------------------------------------------------------------------------
(* What each kind of step does to the two tables. *)

\* revoke_sessions revokes the account's sessions except one, and changes no other.
LEMMA RevokeEffect ==
  ASSUME TypeOK, NEW u, NEW keep, NEW s \in Sessions
  PROVE  IF sess[s] = None THEN Revoke(u, keep)[s] = None
         ELSE /\ Revoke(u, keep)[s] \in Session
              /\ Revoke(u, keep)[s].user = sess[s].user /\ Revoke(u, keep)[s].via = sess[s].via
              /\ Revoke(u, keep)[s].revoked <=> (sess[s].revoked \/ (sess[s].user = u /\ s # keep))
<1>1. CASE sess[s] = None
  BY <1>1 DEF Revoke
<1>2. CASE sess[s] # None
  <2>1. sess[s] \in Session
    BY <1>2 DEF TypeOK
  <2>2. [sess[s] EXCEPT !.revoked = TRUE] \in Session
    BY <2>1 DEF Session
  <2>3. CASE sess[s].user = u /\ s # keep
    <3>1. Revoke(u, keep)[s] = [sess[s] EXCEPT !.revoked = TRUE]
      BY <1>2, <2>3 DEF Revoke
    <3> QED
      BY <1>2, <2>1, <2>2, <2>3, <3>1 DEF Session
  <2>4. CASE ~(sess[s].user = u /\ s # keep)
    <3>1. Revoke(u, keep)[s] = sess[s]
      BY <2>4 DEF Revoke
    <3> QED
      BY <1>2, <2>1, <2>4, <3>1 DEF Session
  <2> QED BY <2>3, <2>4
<1> QED BY <1>1, <1>2

LEMMA RevokeKeeps ==
  ASSUME TypeOK, NEW u, NEW keep, sess' = Revoke(u, keep)
  PROVE  SessionsKept
<1>1. ASSUME NEW s \in Sessions, sess[s] # None
      PROVE  /\ sess'[s] # None /\ sess'[s].user = sess[s].user /\ sess'[s].via = sess[s].via
             /\ sess[s].revoked => sess'[s].revoked
  BY <1>1, RevokeEffect, NoneAssumption
<1>2. ASSUME NEW s \in Sessions, sess[s] = None PROVE sess'[s] = None
  BY <1>2 DEF Revoke
<1> QED
  BY <1>1, <1>2 DEF SessionsKept

\* A commit that wants the state it loaded changes neither state nor password.
LEMMA CommitKeeps ==
  ASSUME TypeOK, NEW r \in Requests, req[r].phase = "commit",
         NEW wanted \in Account, wanted.state = req[r].row.state, Commit(r, wanted)
  PROVE  RowsKept
<1>1. /\ \A u \in Users \ {req[r].user} : acct'[u] = acct[u]
      /\ acct'[req[r].user].hash = acct[req[r].user].hash
      /\ acct'[req[r].user].state = acct[req[r].user].state
  BY CommitColumns DEF Col
<1> QED
  BY <1>1 DEF RowsKept

LEMMA QuietOrActs == TypeOK /\ [Next]_vars => Quiet \/ \E r \in Requests : Acts(r)
<1> SUFFICES ASSUME TypeOK, [Next]_vars PROVE Quiet \/ \E r \in Requests : Acts(r)
  OBVIOUS
<1>0. /\ UNCHANGED acct => RowsKept
      /\ UNCHANGED sess => SessionsKept
  BY DEF RowsKept, SessionsKept
<1>1. ASSUME NEW r \in Requests,
             ReadForSignIn(r) \/ ReadSession(r) \/ ReadTarget(r) \/ Abort(r)
      PROVE Quiet
  BY <1>0, <1>1 DEF ReadForSignIn, ReadSession, ReadTarget, Abort, Quiet
<1>2. ASSUME NEW r \in Requests, RefuseSignIn(r) PROVE Quiet
  <2>1. /\ req[r].phase = "commit" /\ req[r].row \in Account /\ req[r].t \in Nat
    BY <1>2, ServingType DEF RefuseSignIn, AllOps
  <2>2. RegisterFailure(req[r].row, req[r].t).state = req[r].row.state
    BY <2>1 DEF RegisterFailure, Account
  <2>3. RowsKept
    BY <1>0, <1>2, <2>1, <2>2, FailureType, CommitKeeps DEF RefuseSignIn
  <2> QED
    BY <1>0, <1>2, <2>3 DEF RefuseSignIn, Quiet
<1>3. ASSUME NEW r \in Requests, IdleOut(r) PROVE Quiet
  <2>1. req[r].sess \in Sessions /\ sess[req[r].sess] \in Session /\ sess[req[r].sess] # None
    BY <1>3 DEF TypeOK, RequestOK, IdleOut
  <2>2. [sess[req[r].sess] EXCEPT !.revoked = TRUE] \in Session
    BY <2>1 DEF Session
  <2>3. SessionsKept
    BY <1>3, <2>1, <2>2, NoneAssumption DEF IdleOut, TypeOK, SessionsKept, Session
  <2> QED
    BY <1>0, <1>3, <2>3 DEF IdleOut, Quiet
<1>4. ASSUME NEW r \in Requests, ReadCaller(r) PROVE Quiet
  <2>1. /\ req[r].sess \in Sessions /\ sess[req[r].sess] \in Session /\ sess[req[r].sess] # None
        /\ req[r].t \in Nat
    BY <1>4 DEF TypeOK, RequestOK, ReadCaller, Request
  <2>2. [sess[req[r].sess] EXCEPT !.seen = req[r].t] \in Session
    BY <2>1 DEF Session
  <2>3. SessionsKept
    BY <1>0, <1>4, <2>1, <2>2, NoneAssumption DEF ReadCaller, TypeOK, SessionsKept, Session
  <2> QED
    BY <1>0, <1>4, <2>3 DEF ReadCaller, Quiet
<1>5. ASSUME NEW r \in Requests, Logout(r) PROVE Quiet
  BY <1>0, <1>5, RevokeKeeps DEF Logout, Quiet
<1>6. ASSUME NEW r \in Requests, ChangePassword(r) PROVE Quiet \/ Changes(r)
  <2> DEFINE q == req[r]
  <2>1. /\ q.phase = "commit" /\ q.row \in Account /\ q.t \in Nat
    BY <1>6, ServingType DEF ChangePassword, AllOps, SelfOps
  <2>2. RegisterFailure(q.row, q.t).state = q.row.state
    BY <2>1 DEF RegisterFailure, Account
  <2>3. CASE UNCHANGED sess
    BY <1>0, <1>6, <2>1, <2>2, <2>3, FailureType, CommitKeeps DEF ChangePassword, Quiet, Changes
  <2>4. CASE sess' = [Revoke(q.user, q.sess) EXCEPT ![q.sess].via = q.arg.new] /\ ~UNCHANGED sess
    BY <1>6, <2>4 DEF ChangePassword, Changes
  <2> QED
    BY <1>6, <2>3, <2>4 DEF ChangePassword
<1>7. ASSUME NEW r \in Requests, TotpEnroll(r) PROVE Quiet
  <2> DEFINE q == req[r]
  <2>1. /\ q.phase = "commit" /\ q.row \in Account /\ q.t \in Nat
    BY <1>7, ServingType DEF TotpEnroll, AllOps, SelfOps
  <2>2. RegisterFailure(q.row, q.t).state = q.row.state
    BY <2>1 DEF RegisterFailure, Account
  <2>3. RowsKept
    <3>1. CASE UNCHANGED acct
      BY <1>0, <3>1
    <3>2. CASE Commit(r, RegisterFailure(q.row, q.t))
      BY <2>1, <2>2, <3>2, FailureType, CommitKeeps
    <3>3. ASSUME NEW x \in Secrets, Commit(r, [q.row EXCEPT !.pending = x, !.tries = 0])
          PROVE  RowsKept
      <4> DEFINE wanted == [q.row EXCEPT !.pending = x, !.tries = 0]
      <4>1. wanted \in Account /\ wanted.state = q.row.state
        BY <2>1 DEF Account
      <4> QED
        BY <2>1, <3>3, <4>1, CommitKeeps
    <3> QED
      BY <1>7, <3>1, <3>2, <3>3 DEF TotpEnroll
  <2> QED
    BY <1>0, <1>7, <2>3 DEF TotpEnroll, Quiet
<1>8. ASSUME NEW r \in Requests, TotpVerify(r) PROVE Quiet
  <2> DEFINE q == req[r]
             discarded == [q.row EXCEPT !.pending = None, !.tries = 0]
             counted == [q.row EXCEPT !.tries = @ + 1]
             enrolled == [q.row EXCEPT !.secret = q.row.pending, !.pending = None, !.tries = 0,
                                       !.enrolled = TRUE]
  <2>1. q.phase = "commit" /\ q.row \in Account
    BY <1>8, ServingType DEF TotpVerify, AllOps, SelfOps
  <2>2. discarded \in Account /\ discarded.state = q.row.state
    BY <2>1 DEF Account
  <2>3. counted \in Account /\ counted.state = q.row.state
    BY <2>1 DEF Account
  <2>4. enrolled \in Account /\ enrolled.state = q.row.state
    BY <2>1 DEF Account
  <2>5. UNCHANGED acct \/ Commit(r, discarded) \/ Commit(r, counted) \/ Commit(r, enrolled)
    BY <1>8 DEF TotpVerify
  <2>6. RowsKept
    <3>1. CASE UNCHANGED acct
      BY <1>0, <3>1
    <3>2. CASE Commit(r, discarded)
      BY <2>1, <2>2, <3>2, CommitKeeps
    <3>3. CASE Commit(r, counted)
      BY <2>1, <2>3, <3>3, CommitKeeps
    <3>4. CASE Commit(r, enrolled)
      BY <2>1, <2>4, <3>4, CommitKeeps
    <3> QED
      BY <2>5, <3>1, <3>2, <3>3, <3>4
  <2> QED
    BY <1>0, <1>8, <2>6 DEF TotpVerify, Quiet
<1>9. CASE Tick \/ UNCHANGED vars
  BY <1>0, <1>9 DEF Tick, vars, Quiet
<1> QED
  BY <1>1, <1>2, <1>3, <1>4, <1>5, <1>6, <1>7, <1>8, <1>9 DEF Next, Handle, Acts

\* Every live session of the account has been revoked.
Ended(u) == \A s \in Sessions : Live(s)' => sess'[s].user # u

\* A sign-in opens one session and may rewrite the hash it verified; it makes no
\* account disabled.
LEMMA AcceptEffect ==
  ASSUME TypeOK, NEW r \in Requests, AcceptSignIn(r)
  PROVE  LET q == req[r] IN
         /\ q.op = "login" /\ q.phase = "commit" /\ q.user \in Users
         /\ \A u \in Users \ {q.user} : acct'[u] = acct[u]
         /\ acct'[q.user].hash.pw = IF q.row.hash.old THEN q.arg.pw ELSE acct[q.user].hash.pw
         /\ acct'[q.user].state \in {acct[q.user].state, "active"}
         /\ raced \subseteq raced'
         /\ q.row.hash.old /\ q.arg.pw # acct[q.user].hash.pw =>
              \A x \in Sessions : sess[x] # None /\ sess[x].user = q.user => x \in raced'
         /\ \E s \in Sessions :
              /\ sess[s] = None /\ sess'[s] \in Session
              /\ sess'[s].user = q.user /\ sess'[s].via = q.arg.pw
              /\ \A x \in Sessions \ {s} : sess'[x] = sess[x]
              /\ q.arg.pw # acct[q.user].hash.pw \/ acct[q.user].state = "disabled" => s \in raced'
<1> DEFINE q == req[r]
           wanted == [q.row EXCEPT !.failed = 0, !.locked = 0,
                        !.state = IF @ = "pending" THEN "active" ELSE @]
           hash == NewHash(q.arg.pw, q.row.hash.temp)
<1>1. /\ q.op = "login" /\ q.phase = "commit" /\ q.row \in Account /\ q.user \in Users
      /\ q.t \in Nat /\ q.arg.pw \in Passwords
  BY ServingType DEF AcceptSignIn, PasswordRight, AllOps, Account, Hash
<1>2. wanted \in Account /\ wanted.state = IF q.row.state = "pending" THEN "active" ELSE q.row.state
  BY <1>1 DEF Account
<1>3. hash \in Hash /\ hash.pw = q.arg.pw
  BY <1>1 DEF NewHash, Hash, Account
<1>4. /\ \A u \in Users \ {q.user} : acct'[u] = acct[u]
      /\ acct'[q.user].hash.pw = IF q.row.hash.old THEN q.arg.pw ELSE acct[q.user].hash.pw
      /\ acct'[q.user].state = Col(acct[q.user].state, q.row.state, wanted.state)
  <2>1. CASE q.row.hash.old
    <3>1. CommitHash(r, wanted, hash)
      BY <2>1 DEF AcceptSignIn
    <3> HIDE DEF wanted, hash
    <3> QED
      BY <1>1, <1>2, <1>3, <2>1, <3>1, CommitHashColumns
  <2>2. CASE ~q.row.hash.old
    <3>1. Commit(r, wanted)
      BY <2>2 DEF AcceptSignIn
    <3> HIDE DEF wanted, hash
    <3> QED
      BY <1>1, <1>2, <2>2, <3>1, CommitColumns
  <2> QED BY <2>1, <2>2
<1>5. acct'[q.user].state \in {acct[q.user].state, "active"}
  BY <1>2, <1>4 DEF Col
<1>6. PICK s \in Sessions :
        /\ sess[s] = None
        /\ sess' = [sess EXCEPT ![s] =
                      [user |-> q.user, seen |-> now, exp |-> q.t + SessionTtl,
                       revoked |-> FALSE, mfaOk |-> TRUE, via |-> q.arg.pw]]
        /\ raced' = raced \cup
             (IF q.arg.pw # acct[q.user].hash.pw /\ q.row.hash.old
              THEN {x \in Sessions : sess[x] # None /\ sess[x].user = q.user} ELSE {}) \cup
             (IF q.arg.pw # acct[q.user].hash.pw \/ acct[q.user].state = "disabled" THEN {s} ELSE {})
  BY DEF AcceptSignIn
<1>7. [user |-> q.user, seen |-> now, exp |-> q.t + SessionTtl,
       revoked |-> FALSE, mfaOk |-> TRUE, via |-> q.arg.pw] \in Session
  BY <1>1, LimitsAssumption DEF Session, TypeOK, Account
<1>8. /\ sess[s] = None /\ sess'[s] \in Session
      /\ sess'[s].user = q.user /\ sess'[s].via = q.arg.pw
      /\ \A x \in Sessions \ {s} : sess'[x] = sess[x]
  BY <1>6, <1>7 DEF TypeOK
<1>9. /\ raced \subseteq raced'
      /\ q.row.hash.old /\ q.arg.pw # acct[q.user].hash.pw =>
           \A x \in Sessions : sess[x] # None /\ sess[x].user = q.user => x \in raced'
      /\ q.arg.pw # acct[q.user].hash.pw \/ acct[q.user].state = "disabled" => s \in raced'
  BY <1>6
<1> HIDE DEF wanted, hash
<1> QED
  BY <1>1, <1>4, <1>5, <1>8, <1>9

\* A password change keeps the session it was made on, and no other.
LEMMA ChangesEffect ==
  ASSUME TypeOK, NEW r \in Requests, Changes(r)
  PROVE  LET q == req[r] IN
         /\ q.op = "change" /\ q.phase = "commit" /\ q.user \in Users /\ q.sess \in Sessions
         /\ \A u \in Users \ {q.user} : acct'[u] = acct[u]
         /\ acct'[q.user].hash.pw = q.arg.new /\ acct'[q.user].state = acct[q.user].state
         /\ raced' = raced
         /\ \A s \in Sessions :
              IF sess[s] = None THEN sess'[s] = None
              ELSE /\ sess'[s] # None /\ sess'[s].user = sess[s].user
                   /\ sess[s].revoked => sess'[s].revoked
                   /\ s # q.sess => sess'[s].via = sess[s].via
                   /\ sess[s].user = q.user /\ s # q.sess => sess'[s].revoked
         /\ sess'[q.sess].via = q.arg.new
<1> DEFINE q == req[r]
           wanted == [q.row EXCEPT !.must = FALSE, !.failed = 0]
           hash == NewHash(q.arg.new, FALSE)
           after == Revoke(q.user, q.sess)
<1>1. /\ q.op = "change" /\ q.phase = "commit" /\ q.row \in Account /\ q.user \in Users
      /\ q.arg.new \in Passwords /\ q.sess \in Sessions /\ sess[q.sess] \in Session
  BY ServingType DEF Changes, AllOps, SelfOps
<1>2. wanted \in Account /\ wanted.state = q.row.state
  BY <1>1 DEF Account
<1>3. hash \in Hash /\ hash.pw = q.arg.new
  BY <1>1 DEF NewHash, Hash
<1>4. CommitHash(r, wanted, hash) /\ sess' = [after EXCEPT ![q.sess].via = q.arg.new]
  BY DEF Changes
<1>5. /\ \A u \in Users \ {q.user} : acct'[u] = acct[u]
      /\ acct'[q.user].hash.pw = q.arg.new /\ acct'[q.user].state = acct[q.user].state
  <2> HIDE DEF wanted, hash
  <2> QED
    BY <1>1, <1>2, <1>3, <1>4, CommitHashColumns DEF Col
<1>6. /\ after \in [Sessions -> Session \cup {None}]
      /\ \A s \in Sessions :
           IF sess[s] = None THEN after[s] = None
           ELSE /\ after[s] \in Session
                /\ after[s].user = sess[s].user /\ after[s].via = sess[s].via
                /\ after[s].revoked <=> (sess[s].revoked \/ (sess[s].user = q.user /\ s # q.sess))
  BY RevokeType, RevokeEffect
<1>7. sess[q.sess] # None
  BY <1>1, NoneAssumption
<1>8. /\ \A s \in Sessions :
              IF sess[s] = None THEN sess'[s] = None
              ELSE /\ sess'[s] # None /\ sess'[s].user = sess[s].user
                   /\ sess[s].revoked => sess'[s].revoked
                   /\ s # q.sess => sess'[s].via = sess[s].via
                   /\ sess[s].user = q.user /\ s # q.sess => sess'[s].revoked
      /\ sess'[q.sess].via = q.arg.new
  <2> HIDE DEF after
  <2>1. \A s \in Sessions \ {q.sess} : sess'[s] = after[s]
    BY <1>4, <1>6
  <2>2. sess'[q.sess] = [after[q.sess] EXCEPT !.via = q.arg.new] /\ after[q.sess] \in Session
    BY <1>1, <1>4, <1>6, <1>7
  <2>3. /\ sess'[q.sess] \in Session /\ sess'[q.sess].via = q.arg.new
        /\ sess'[q.sess].user = after[q.sess].user /\ sess'[q.sess].revoked = after[q.sess].revoked
    BY <1>1, <2>2 DEF Session
  <2> QED
    BY <1>1, <1>6, <1>7, <2>1, <2>3, NoneAssumption
<1>9. raced' = raced
  BY DEF Changes
<1> HIDE DEF wanted, hash, after
<1> QED
  BY <1>1, <1>5, <1>8, <1>9

\* An administrator's change to an account: the password or the state changes to
\* "disabled" only together with the end of every session of the account.
LEMMA AdminEffect ==
  ASSUME TypeOK, NEW r \in Requests, UpdateUser(r) \/ SetPassword(r) \/ DisableUser(r)
  PROVE  LET u == req[r].user IN
         /\ u \in Users /\ raced' = raced /\ SessionsKept
         /\ \A v \in Users \ {u} : acct'[v] = acct[v]
         /\ acct'[u].hash.pw = acct[u].hash.pw \/ Ended(u)
         /\ \/ acct'[u].state \in {acct[u].state, "active"}
            \/ acct'[u].state = "disabled" /\ Ended(u)
<1> DEFINE q == req[r]
<1>1. /\ q.phase = "commit" /\ q.row \in Account /\ q.arg \in Arg /\ q.user \in Users
      /\ SetPassword(r) => q.arg.new \in Passwords
  BY ServingType DEF UpdateUser, SetPassword, DisableUser, AllOps, AdminOps
<1>2. sess' = Revoke(q.user, None) => Ended(q.user) /\ SessionsKept
  <2>1. ASSUME sess' = Revoke(q.user, None), NEW s \in Sessions, Live(s)'
        PROVE  sess'[s].user # q.user
    BY <2>1, RevokeEffect, NoneAssumption DEF Live
  <2> QED
    BY <2>1, RevokeKeeps DEF Ended
<1>3. UNCHANGED sess => SessionsKept
  BY DEF SessionsKept
<1>4. CASE UpdateUser(r)
  <2> DEFINE wanted == [q.row EXCEPT !.state = IF q.arg.state = None THEN @ ELSE q.arg.state,
                                     !.mgr = IF q.arg.mgr = None THEN @ ELSE q.arg.mgr]
  <2>1. wanted \in Account /\ wanted.state = IF q.arg.state = None THEN q.row.state ELSE q.arg.state
    BY <1>1 DEF Account, Arg
  <2>2. Commit(r, wanted)
    BY <1>4 DEF UpdateUser
  <2> HIDE DEF wanted
  <2>3. /\ \A v \in Users \ {q.user} : acct'[v] = acct[v]
        /\ acct'[q.user].hash = acct[q.user].hash
        /\ acct'[q.user].state = Col(acct[q.user].state, q.row.state, wanted.state)
    BY <1>1, <2>1, <2>2, CommitColumns
  <2>4. q.arg.state \in {"active", "disabled", None}
    BY <1>1 DEF Arg
  <2>5. /\ sess' = IF q.arg.state = "disabled" THEN Revoke(q.user, None) ELSE sess
        /\ raced' = raced
    BY <1>4 DEF UpdateUser
  <2> QED
    BY <1>1, <1>2, <1>3, <2>1, <2>3, <2>4, <2>5 DEF Col
<1>5. CASE SetPassword(r)
  <2> DEFINE wanted == [q.row EXCEPT !.must = q.arg.temp, !.failed = 0, !.locked = 0]
             hash == NewHash(q.arg.new, q.arg.temp)
  <2>1. wanted \in Account /\ wanted.state = q.row.state /\ hash \in Hash
    BY <1>1, <1>5 DEF Account, Hash, NewHash, Arg
  <2>2. CommitHash(r, wanted, hash) /\ sess' = Revoke(q.user, None) /\ raced' = raced
    BY <1>5 DEF SetPassword
  <2> HIDE DEF wanted, hash
  <2>3. /\ \A v \in Users \ {q.user} : acct'[v] = acct[v]
        /\ acct'[q.user].state = acct[q.user].state
    BY <1>1, <2>1, <2>2, CommitHashColumns DEF Col
  <2> QED
    BY <1>1, <1>2, <2>2, <2>3
<1>6. CASE DisableUser(r)
  <2> DEFINE wanted == [q.row EXCEPT !.state = "disabled"]
  <2>1. wanted \in Account /\ wanted.state = "disabled"
    BY <1>1 DEF Account
  <2>2. Commit(r, wanted) /\ sess' = Revoke(q.user, None) /\ raced' = raced
    BY <1>6 DEF DisableUser
  <2> HIDE DEF wanted
  <2>3. /\ \A v \in Users \ {q.user} : acct'[v] = acct[v]
        /\ acct'[q.user].hash = acct[q.user].hash
        /\ acct'[q.user].state \in {acct[q.user].state, "disabled"}
    BY <1>1, <2>1, <2>2, CommitColumns DEF Col
  <2> QED
    BY <1>1, <1>2, <2>2, <2>3
<1> QED
  BY <1>4, <1>5, <1>6

----------------------------------------------------------------------------
(* What requests hold at their commit. *)

\* Accounts are never deleted, and a session never changes hands.
LEMMA NothingIsDeleted ==
  ASSUME TypeOK, [Next]_vars
  PROVE  /\ \A u \in Users : acct[u].state # "absent" => acct'[u].state # "absent"
         /\ \A s \in Sessions : sess[s] # None =>
              sess'[s] # None /\ sess'[s].user = sess[s].user
<1>1. CASE Quiet
  BY <1>1 DEF Quiet, RowsKept, SessionsKept
<1>2. ASSUME NEW r \in Requests, AcceptSignIn(r)
      PROVE  /\ \A u \in Users : acct[u].state # "absent" => acct'[u].state # "absent"
             /\ \A s \in Sessions : sess[s] # None =>
                  sess'[s] # None /\ sess'[s].user = sess[s].user
  <2>1. PICK s \in Sessions : sess[s] = None /\ \A x \in Sessions \ {s} : sess'[x] = sess[x]
    BY <1>2, AcceptEffect
  <2>2. \A u \in Users : acct'[u].state \in {acct[u].state, "active"}
    BY <1>2, AcceptEffect
  <2> QED
    BY <2>1, <2>2
<1>3. ASSUME NEW r \in Requests, Changes(r)
      PROVE  /\ \A u \in Users : acct'[u].state = acct[u].state
             /\ \A s \in Sessions : sess[s] # None =>
                  sess'[s] # None /\ sess'[s].user = sess[s].user
  <2>1. \A u \in Users : acct'[u].state = acct[u].state
    BY <1>3, ChangesEffect
  <2>2. \A s \in Sessions : sess[s] # None => sess'[s] # None /\ sess'[s].user = sess[s].user
    BY <1>3, ChangesEffect
  <2> QED BY <2>1, <2>2
<1>4. ASSUME NEW r \in Requests, UpdateUser(r) \/ SetPassword(r) \/ DisableUser(r)
      PROVE  /\ \A u \in Users : acct'[u].state \in {acct[u].state, "active", "disabled"}
             /\ SessionsKept
  <2>1. \A u \in Users : acct'[u].state \in {acct[u].state, "active", "disabled"}
    BY <1>4, AdminEffect
  <2> QED BY <1>4, <2>1, AdminEffect
<1>5. ASSUME NEW r \in Requests, CreateUser(r)
      PROVE  /\ \A u \in Users : acct'[u].state \in {acct[u].state, "pending"}
             /\ sess' = sess
  BY <1>5 DEF CreateUser, TypeOK
<1> QED
  BY QuietOrActs, <1>1, <1>2, <1>3, <1>4, <1>5 DEF Acts, SessionsKept

LEMMA CopiesInit == Init => CopiesOK
<1> SUFFICES ASSUME Init PROVE CopiesOK
  OBVIOUS
<1>1. TypeOK
  BY InitType
<1>2. ASSUME NEW s \in Sessions, sess[s] # None PROVE acct[sess[s].user].state = "active"
  <2>1. sess[s].user \in SignedIn /\ sess[s].user \in Users
    BY <1>2, AccountsAssumption DEF Init
  <2> QED
    BY <2>1, AccountsAssumption DEF Init
<1>3. \A r \in Requests : CopyOK(req[r])
  BY DEF Init, CopyOK, Free
<1> QED
  BY <1>2, <1>3 DEF CopiesOK

\* The facts about other requests survive any step.
LEMMA CopyKept ==
  ASSUME TypeOK, CopiesOK, [Next]_vars, NEW x \in Requests, req'[x] = req[x] \/ req'[x] = Free
  PROVE  CopyOK(req[x])'
<1>1. CASE req'[x] = Free
  BY <1>1 DEF CopyOK, Free
<1>2. CASE req'[x] = req[x]
  <2>1. CopyOK(req[x]) /\ RequestOK(req[x])
    BY DEF CopiesOK, TypeOK
  <2>2. ASSUME req[x].phase = "commit" PROVE CopyOK(req[x])'
    BY <1>2, <2>1, <2>2, NothingIsDeleted DEF CopyOK, RequestOK, SelfOps
  <2> QED
    BY <1>2, <2>2 DEF CopyOK
<1> QED BY <1>1, <1>2

LEMMA CopiesStep == TypeOK /\ CounterOK /\ CopiesOK /\ [Next]_vars => CopiesOK'
<1> SUFFICES ASSUME TypeOK, CounterOK, CopiesOK, [Next]_vars PROVE CopiesOK'
  OBVIOUS
<1>1. ASSUME NEW s \in Sessions, sess'[s] # None PROVE acct'[sess'[s].user].state # "absent"
  <2>1. CASE sess[s] # None
    <3>1. sess[s].user \in Users /\ acct[sess[s].user].state # "absent"
      BY <2>1 DEF CopiesOK, TypeOK, Session
    <3> QED
      BY <2>1, <3>1, NothingIsDeleted
  <2>2. CASE sess[s] = None
    <3>1. PICK r \in Requests : AcceptSignIn(r)
      <4>1. ~Quiet
        BY <1>1, <2>2 DEF Quiet, SessionsKept
      <4>2. ASSUME NEW r \in Requests, Acts(r) PROVE AcceptSignIn(r)
        <5>1. ~Changes(r)
          BY <1>1, <2>2, ChangesEffect
        <5>2. ~(UpdateUser(r) \/ SetPassword(r) \/ DisableUser(r))
          BY <1>1, <2>2, AdminEffect DEF SessionsKept
        <5>3. ~CreateUser(r)
          BY <1>1, <2>2 DEF CreateUser
        <5> QED BY <4>2, <5>1, <5>2, <5>3 DEF Acts
      <4> QED BY <4>1, <4>2, QuietOrActs
    <3>2. /\ sess'[s].user = req[r].user /\ req[r].user \in Users
          /\ req[r].op = "login" /\ req[r].phase = "commit"
      BY <1>1, <2>2, <3>1, AcceptEffect
    <3>3. acct[req[r].user].state # "absent"
      BY <3>2 DEF CopiesOK, CopyOK
    <3> QED
      BY <3>2, <3>3, NothingIsDeleted
  <2> QED BY <2>1, <2>2
<1>2. ASSUME NEW r \in Requests, ReadForSignIn(r) PROVE \A x \in Requests : CopyOK(req[x])'
  <2>1. PICK u \in Users, a \in Arg :
          /\ acct[u].state \notin {"absent", "disabled"}
          /\ req' = [req EXCEPT ![r] = [phase |-> "commit", op |-> "login", user |-> u,
                       sess |-> None, row |-> acct[u], t |-> now, arg |-> a]]
    BY <1>2, InputsAssumption DEF ReadForSignIn, AllOps
  <2>2. acct' = acct
    BY <1>2 DEF ReadForSignIn
  <2>3. CopyOK(req[r])'
    BY <2>1, <2>2 DEF CopyOK, TypeOK, CounterOK, FailedBelowLimit, SelfOps
  <2>4. \A x \in Requests \ {r} : req'[x] = req[x]
    BY <2>1 DEF TypeOK
  <2> QED
    BY <2>3, <2>4, CopyKept
<1>3. ASSUME NEW r \in Requests, ReadSession(r) PROVE \A x \in Requests : CopyOK(req[x])'
  <2>1. PICK s \in Sessions, op \in AllOps, a \in Arg :
          req' = [req EXCEPT ![r] =
            [phase |-> IF now - sess[s].seen > IdleLimit THEN "idle" ELSE "identify",
             op |-> op, user |-> None, sess |-> s, row |-> None, t |-> now, arg |-> a]]
    BY <1>3, InputsAssumption DEF ReadSession, AllOps, TypeOK, Session
  <2>2. CopyOK(req[r])'
    BY <2>1 DEF CopyOK, TypeOK
  <2>3. \A x \in Requests \ {r} : req'[x] = req[x]
    BY <2>1 DEF TypeOK
  <2> QED
    BY <2>2, <2>3, CopyKept
<1>4. ASSUME NEW r \in Requests, ReadCaller(r) PROVE \A x \in Requests : CopyOK(req[x])'
  <2> DEFINE q == req[r]
             u == sess[q.sess].user
             onTarget == [q EXCEPT !.phase = "target", !.user = u]
             onCommit == [q EXCEPT !.phase = "commit", !.user = u, !.row = acct[u], !.t = now]
  <2>1. /\ q \in Request /\ q.sess \in Sessions /\ sess[q.sess] # None /\ u \in Users
        /\ q.op # "login"
    BY <1>4 DEF TypeOK, RequestOK, ReadCaller, Session
  <2>2. acct' = acct /\ acct[u].state # "absent" /\ sess'[q.sess].user = u
    BY <1>4, <2>1, NothingIsDeleted DEF ReadCaller, CopiesOK
  <2>3. /\ onTarget.phase # "commit" /\ onCommit.row = acct[u] /\ onCommit.user = u
        /\ onCommit.op = q.op /\ onCommit.sess = q.sess /\ Free.phase # "commit"
    BY <2>1 DEF Request, Free
  <2>4. /\ req'[r] \in {Free, onTarget, onCommit}
        /\ \A x \in Requests \ {r} : req'[x] = req[x]
    BY <1>4 DEF ReadCaller, TypeOK
  <2> HIDE DEF onTarget, onCommit
  <2>5. CopyOK(req[r])'
    BY <2>1, <2>2, <2>3, <2>4 DEF CopyOK, CounterOK, FailedBelowLimit
  <2> QED
    BY <2>4, <2>5, CopyKept
<1>5. ASSUME NEW r \in Requests, ReadTarget(r) PROVE \A x \in Requests : CopyOK(req[x])'
  <2> DEFINE q == req[r]
             u == q.arg.user
             loaded == [q EXCEPT !.phase = "commit", !.user = u, !.row = acct[u]]
  <2>1. q \in Request /\ u \in Users /\ q.op \in AdminOps
    BY <1>5 DEF TypeOK, RequestOK, ReadTarget
  <2>2. /\ loaded.row = acct[u] /\ loaded.user = u /\ loaded.op = q.op
        /\ Free.phase # "commit"
    BY <2>1 DEF Request, Free
  <2>3. /\ req'[r] = Free \/ (req'[r] = loaded /\ (q.op # "create" => acct[u].state # "absent"))
        /\ \A x \in Requests \ {r} : req'[x] = req[x]
        /\ acct' = acct
    BY <1>5 DEF ReadTarget, TypeOK
  <2> HIDE DEF loaded
  <2>4. CopyOK(req[r])'
    BY <2>1, <2>2, <2>3 DEF CopyOK, CounterOK, FailedBelowLimit, AdminOps, SelfOps
  <2> QED
    BY <2>3, <2>4, CopyKept
<1>6. ASSUME NEW r \in Requests, Answer(r) PROVE \A x \in Requests : CopyOK(req[x])'
  BY <1>6, CopyKept DEF Answer, TypeOK
<1>7. ASSUME UNCHANGED req PROVE \A x \in Requests : CopyOK(req[x])'
  <2>1. \A x \in Requests : req'[x] = req[x]
    BY <1>7
  <2> QED
    BY <2>1, CopyKept
<1>8. \A x \in Requests : CopyOK(req[x])'
  <2>1. \/ UNCHANGED req
        \/ \E r \in Requests : \/ ReadForSignIn(r) \/ ReadSession(r) \/ ReadCaller(r)
                               \/ ReadTarget(r) \/ Answer(r)
    BY DEF Next, Handle, Tick, vars, RefuseSignIn, AcceptSignIn, IdleOut, Logout, ChangePassword,
           TotpEnroll, TotpVerify, CreateUser, UpdateUser, SetPassword, DisableUser, Abort
  <2> QED
    BY <1>2, <1>3, <1>4, <1>5, <1>6, <1>7, <2>1
<1> QED
  BY <1>1, <1>8 DEF CopiesOK

----------------------------------------------------------------------------
(* Sessions that outlive a password or an account. *)

LEMMA StaleStep ==
  TypeOK /\ CopiesOK /\ StaleSessionsAreRaces /\ [Next]_vars => StaleSessionsAreRaces'
<1> SUFFICES ASSUME TypeOK, CopiesOK, StaleSessionsAreRaces, [Next]_vars,
                    NEW s \in Sessions, s \notin raced', Live(s)'
             PROVE  sess'[s].via = acct'[sess'[s].user].hash.pw
  BY DEF StaleSessionsAreRaces
<1>1. ASSUME s \notin raced, Live(s)
      PROVE  /\ sess[s].user \in Users /\ sess[s].via = acct[sess[s].user].hash.pw
             /\ acct[sess[s].user].state # "absent"
  BY <1>1 DEF StaleSessionsAreRaces, Live, TypeOK, Session, CopiesOK
<1>2. CASE Quiet
  BY <1>1, <1>2 DEF Quiet, SessionsKept, RowsKept, Live
<1>3. ASSUME NEW r \in Requests, AcceptSignIn(r)
      PROVE  sess'[s].via = acct'[sess'[s].user].hash.pw
  <2>1. PICK new \in Sessions :
          /\ sess'[new].user = req[r].user /\ sess'[new].via = req[r].arg.pw
          /\ \A x \in Sessions \ {new} : sess'[x] = sess[x]
          /\ req[r].arg.pw # acct[req[r].user].hash.pw => new \in raced'
    BY <1>3, AcceptEffect
  <2>2. CASE s = new
    BY <1>3, <2>1, <2>2, AcceptEffect
  <2>3. CASE s # new
    <3>1. sess'[s] = sess[s] /\ s \notin raced /\ Live(s)
      BY <1>3, <2>1, <2>3, AcceptEffect DEF Live
    <3> QED
      BY <1>1, <1>3, <3>1, AcceptEffect DEF Live
  <2> QED BY <2>2, <2>3
<1>4. ASSUME NEW r \in Requests, Changes(r)
      PROVE  sess'[s].via = acct'[sess'[s].user].hash.pw
  <2>1. req[r].user = sess[req[r].sess].user
    BY <1>4, ChangesEffect DEF CopiesOK, CopyOK, SelfOps
  <2>2. s \notin raced /\ Live(s) /\ sess'[s].user = sess[s].user
    BY <1>4, ChangesEffect DEF Live
  <2>3. CASE s = req[r].sess
    BY <1>4, <2>1, <2>2, <2>3, ChangesEffect
  <2>4. CASE s # req[r].sess
    <3>1. sess[s].user # req[r].user /\ sess'[s].via = sess[s].via
      BY <1>4, <2>2, <2>4, ChangesEffect DEF Live
    <3> QED
      BY <1>1, <1>4, <2>2, <3>1, ChangesEffect
  <2> QED BY <2>3, <2>4
<1>5. ASSUME NEW r \in Requests, CreateUser(r)
      PROVE  sess'[s].via = acct'[sess'[s].user].hash.pw
  <2>1. sess' = sess /\ raced' = raced
    BY <1>5 DEF CreateUser
  <2>2. sess[s].user \in Users /\ acct[sess[s].user].state # "absent"
        /\ sess[s].via = acct[sess[s].user].hash.pw
    BY <1>1, <2>1 DEF Live
  <2>3. acct'[sess[s].user] = acct[sess[s].user]
    BY <1>5, <2>2 DEF CreateUser, TypeOK
  <2> QED
    BY <2>1, <2>2, <2>3
<1>6. ASSUME NEW r \in Requests, UpdateUser(r) \/ SetPassword(r) \/ DisableUser(r)
      PROVE  sess'[s].via = acct'[sess'[s].user].hash.pw
  <2>1. s \notin raced /\ Live(s) /\ sess'[s].user = sess[s].user /\ sess'[s].via = sess[s].via
    BY <1>6, AdminEffect DEF SessionsKept, Live
  <2>2. acct'[sess[s].user].hash.pw = acct[sess[s].user].hash.pw
    BY <1>1, <1>6, <2>1, AdminEffect DEF Ended
  <2> QED
    BY <1>1, <2>1, <2>2
<1> QED
  BY <1>2, <1>3, <1>4, <1>5, <1>6, QuietOrActs DEF Acts

LEMMA DisabledStep ==
  TypeOK /\ CopiesOK /\ DisabledSessionsAreRaces /\ [Next]_vars => DisabledSessionsAreRaces'
<1> SUFFICES ASSUME TypeOK, CopiesOK, DisabledSessionsAreRaces, [Next]_vars,
                    NEW s \in Sessions, s \notin raced', Live(s)'
             PROVE  acct'[sess'[s].user].state # "disabled"
  BY DEF DisabledSessionsAreRaces
<1>1. ASSUME s \notin raced, Live(s)
      PROVE  sess[s].user \in Users /\ acct[sess[s].user].state # "disabled"
  BY <1>1 DEF DisabledSessionsAreRaces, Live, TypeOK, Session
<1>2. CASE Quiet
  BY <1>1, <1>2 DEF Quiet, SessionsKept, RowsKept, Live
<1>3. ASSUME NEW r \in Requests, AcceptSignIn(r)
      PROVE  acct'[sess'[s].user].state # "disabled"
  <2>1. PICK new \in Sessions :
          /\ sess'[new].user = req[r].user
          /\ \A x \in Sessions \ {new} : sess'[x] = sess[x]
          /\ acct[req[r].user].state = "disabled" => new \in raced'
    BY <1>3, AcceptEffect
  <2>2. \A u \in Users : acct'[u].state \in {acct[u].state, "active"}
    BY <1>3, AcceptEffect
  <2>3. CASE s = new
    BY <1>3, <2>1, <2>2, <2>3, AcceptEffect
  <2>4. CASE s # new
    <3>1. sess'[s] = sess[s] /\ s \notin raced /\ Live(s)
      BY <1>3, <2>1, <2>4, AcceptEffect DEF Live
    <3> QED
      BY <1>1, <2>2, <3>1
  <2> QED BY <2>3, <2>4
<1>4. ASSUME NEW r \in Requests, Changes(r)
      PROVE  acct'[sess'[s].user].state # "disabled"
  <2>1. s \notin raced /\ Live(s) /\ sess'[s].user = sess[s].user
    BY <1>4, ChangesEffect DEF Live
  <2> QED
    BY <1>1, <1>4, <2>1, ChangesEffect
<1>5. ASSUME NEW r \in Requests, CreateUser(r)
      PROVE  acct'[sess'[s].user].state # "disabled"
  <2>1. sess' = sess /\ raced' = raced
    BY <1>5 DEF CreateUser
  <2>2. \A u \in Users : acct'[u].state \in {acct[u].state, "pending"}
    BY <1>5 DEF CreateUser, TypeOK
  <2> QED
    BY <1>1, <2>1, <2>2 DEF Live
<1>6. ASSUME NEW r \in Requests, UpdateUser(r) \/ SetPassword(r) \/ DisableUser(r)
      PROVE  acct'[sess'[s].user].state # "disabled"
  <2>1. s \notin raced /\ Live(s) /\ sess'[s].user = sess[s].user
    BY <1>6, AdminEffect DEF SessionsKept, Live
  <2> QED
    BY <1>1, <1>6, <2>1, AdminEffect DEF Ended
<1> QED
  BY <1>2, <1>3, <1>4, <1>5, <1>6, QuietOrActs DEF Acts

LEMMA RacesInit == Init => StaleSessionsAreRaces /\ DisabledSessionsAreRaces
<1> SUFFICES ASSUME Init, NEW s \in Sessions, sess[s] # None
             PROVE  /\ sess[s].via = acct[sess[s].user].hash.pw
                    /\ acct[sess[s].user].state # "disabled"
  BY DEF StaleSessionsAreRaces, DisabledSessionsAreRaces, Live
<1>1. PICK holder \in [Sessions -> SignedIn \cup {None}] :
        sess = [x \in Sessions |-> IF holder[x] = None THEN None ELSE
          [user |-> holder[x], seen |-> 0, exp |-> SessionTtl, revoked |-> FALSE,
           mfaOk |-> TRUE, via |-> acct[holder[x]].hash.pw]]
  BY DEF Init
<1>2. /\ sess[s].user = holder[s] /\ holder[s] \in SignedIn
      /\ sess[s].via = acct[holder[s]].hash.pw
  BY <1>1
<1>3. holder[s] \in Users /\ acct[holder[s]].state = "active"
  BY <1>2, AccountsAssumption DEF Init
<1> QED
  BY <1>2, <1>3

\* What a request holds when it commits (login, current_user, the handlers of
\* admin_users.py) is about an account that exists and, for the user's own
\* endpoints, about the account of the session it came with.
THEOREM CopiesCorrect == Spec => []CopiesOK
  BY TypeCorrect, CounterInit, CounterStep, CopiesInit, CopiesStep, PTL DEF Spec

\* A live session was opened by, or has itself set, the current password of its
\* account, unless a sign-in straddled the change (revoke_sessions' callers).
THEOREM StaleCorrect == Spec => []StaleSessionsAreRaces
<1>1. Init => StaleSessionsAreRaces
  BY RacesInit
<1> QED
  BY <1>1, TypeCorrect, CopiesCorrect, StaleStep, PTL DEF Spec

\* A disabled account has no live session, with the same exception.
THEOREM DisabledCorrect == Spec => []DisabledSessionsAreRaces
<1>1. Init => DisabledSessionsAreRaces
  BY RacesInit
<1> QED
  BY <1>1, TypeCorrect, CopiesCorrect, DisabledStep, PTL DEF Spec

----------------------------------------------------------------------------
(* The sessions table implements the one-way lifecycle of SessionLife: the   *)
(* steps of requests and of the clock map to steps of the lifecycle.         *)

\* A session's expiry is fixed, it is never un-revoked, and only a request that
\* has passed the idle check moves its last-seen time.
Ages(s) ==
  /\ sess'[s].exp = sess[s].exp
  /\ sess'[s].seen = sess[s].seen \/ Admitted(s)
  /\ sess[s].revoked => sess'[s].revoked

LEMMA RevokeAges ==
  ASSUME TypeOK, NEW u, NEW keep, NEW s \in Sessions, sess[s] # None
  PROVE  /\ Revoke(u, keep)[s].exp = sess[s].exp /\ Revoke(u, keep)[s].seen = sess[s].seen
         /\ sess[s].revoked => Revoke(u, keep)[s].revoked
<1>1. sess[s] \in Session
  BY DEF TypeOK
<1>2. [sess[s] EXCEPT !.revoked = TRUE].exp = sess[s].exp
  BY <1>1 DEF Session
<1>3. [sess[s] EXCEPT !.revoked = TRUE].seen = sess[s].seen
  BY <1>1 DEF Session
<1>4. [sess[s] EXCEPT !.revoked = TRUE].revoked
  BY <1>1 DEF Session
<1>5. Revoke(u, keep)[s] \in {sess[s], [sess[s] EXCEPT !.revoked = TRUE]}
  BY DEF Revoke
<1> QED
  BY <1>2, <1>3, <1>4, <1>5

LEMMA SessionsAge ==
  ASSUME TypeOK, [Next]_vars, NEW s \in Sessions, sess[s] # None
  PROVE  Ages(s)
<1>0. sess[s] \in Session
  BY DEF TypeOK
<1>1. UNCHANGED sess => Ages(s)
  BY DEF Ages
<1>2. ASSUME NEW u, NEW keep, sess' = Revoke(u, keep) PROVE Ages(s)
  BY <1>2, RevokeAges DEF Ages
<1>3. ASSUME NEW r \in Requests, AcceptSignIn(r) PROVE Ages(s)
  <2>1. PICK new \in Sessions : sess[new] = None /\ \A x \in Sessions \ {new} : sess'[x] = sess[x]
    BY <1>3, AcceptEffect
  <2> QED
    BY <2>1 DEF Ages
<1>4. ASSUME NEW r \in Requests, IdleOut(r) PROVE Ages(s)
  <2>1. req[r].sess \in Sessions
    BY <1>4 DEF IdleOut, TypeOK, RequestOK
  <2>2. sess'[s] \in {sess[s], [sess[s] EXCEPT !.revoked = TRUE]}
    BY <1>4, <2>1 DEF IdleOut, TypeOK
  <2>3. [sess[s] EXCEPT !.revoked = TRUE].exp = sess[s].exp
    BY <1>0 DEF Session
  <2>4. [sess[s] EXCEPT !.revoked = TRUE].seen = sess[s].seen
    BY <1>0 DEF Session
  <2>5. [sess[s] EXCEPT !.revoked = TRUE].revoked
    BY <1>0 DEF Session
  <2> QED
    BY <2>2, <2>3, <2>4, <2>5 DEF Ages
<1>5. ASSUME NEW r \in Requests, ReadCaller(r) PROVE Ages(s)
  <2>1. req[r].sess \in Sessions /\ req[r].phase = "identify"
    BY <1>5 DEF ReadCaller, TypeOK, RequestOK
  <2>2. \/ sess'[s] = sess[s]
        \/ sess'[s] = [sess[s] EXCEPT !.seen = req[r].t] /\ s = req[r].sess
    BY <1>5, <2>1 DEF ReadCaller, TypeOK
  <2>3. [sess[s] EXCEPT !.seen = req[r].t].exp = sess[s].exp
    BY <1>0 DEF Session
  <2>4. [sess[s] EXCEPT !.seen = req[r].t].revoked = sess[s].revoked
    BY <1>0 DEF Session
  <2> QED
    BY <2>1, <2>2, <2>3, <2>4 DEF Ages, Admitted
<1>6. ASSUME NEW r \in Requests, ChangePassword(r) PROVE Ages(s)
  <2> DEFINE q == req[r]
             after == Revoke(q.user, q.sess)
  <2>1. q.sess \in Sessions
    BY <1>6, ServingType DEF ChangePassword, AllOps, SelfOps
  <2>2. UNCHANGED sess \/ sess' = [after EXCEPT ![q.sess].via = q.arg.new]
    BY <1>6 DEF ChangePassword
  <2>3. /\ after[s].exp = sess[s].exp /\ after[s].seen = sess[s].seen
        /\ sess[s].revoked => after[s].revoked
        /\ after \in [Sessions -> Session \cup {None}] /\ after[s] # None
    BY RevokeAges, RevokeType
  <2> HIDE DEF after
  <2>4. [after[s] EXCEPT !.via = q.arg.new].exp = after[s].exp
    BY <2>3 DEF Session
  <2>5. [after[s] EXCEPT !.via = q.arg.new].seen = after[s].seen
    BY <2>3 DEF Session
  <2>6. [after[s] EXCEPT !.via = q.arg.new].revoked = after[s].revoked
    BY <2>3 DEF Session
  <2>7. UNCHANGED sess \/ sess'[s] \in {after[s], [after[s] EXCEPT !.via = q.arg.new]}
    BY <2>1, <2>2, <2>3
  <2> QED
    BY <1>1, <2>3, <2>4, <2>5, <2>6, <2>7 DEF Ages
<1> QED
  BY <1>1, <1>2, <1>3, <1>4, <1>5, <1>6
     DEF Next, Handle, Tick, vars, ReadForSignIn, RefuseSignIn, ReadSession, Logout, TotpEnroll,
         TotpVerify, ReadTarget, CreateUser, UpdateUser, SetPassword, DisableUser, Abort

\* A request passes the idle check only while the session is not idle.
LEMMA Admission ==
  ASSUME TypeOK, [Next]_vars, NEW s \in Sessions, sess[s] # None, Admitted(s)'
  PROVE  Admitted(s) \/ (now - sess[s].seen =< IdleLimit /\ UNCHANGED <<sess, now>>)
<1>1. PICK x \in Requests : req'[x].sess = s /\ req'[x].phase = "identify"
  BY DEF Admitted
<1>2. CASE req'[x] = req[x]
  BY <1>1, <1>2 DEF Admitted
<1>3. CASE req'[x] # req[x]
  <2>1. ASSUME NEW r \in Requests, ReadSession(r)
        PROVE Admitted(s) \/ (now - sess[s].seen =< IdleLimit /\ UNCHANGED <<sess, now>>)
    <3>1. PICK t \in Sessions, op \in AllOps, a \in Arg :
            req' = [req EXCEPT ![r] =
              [phase |-> IF now - sess[t].seen > IdleLimit THEN "idle" ELSE "identify",
               op |-> op, user |-> None, sess |-> t, row |-> None, t |-> now, arg |-> a]]
      BY <2>1, InputsAssumption DEF ReadSession, AllOps, TypeOK, Session
    <3>2. x = r
      BY <1>3, <3>1 DEF TypeOK
    <3>3. t = s /\ ~(now - sess[s].seen > IdleLimit)
      BY <1>1, <3>1, <3>2 DEF TypeOK
    <3>4. now \in Nat /\ sess[s].seen \in Nat /\ IdleLimit \in Nat
      BY LimitsAssumption DEF TypeOK, Session
    <3> QED
      BY <2>1, <3>3, <3>4 DEF ReadSession
  <2>2. ASSUME NEW r \in Requests, ReadForSignIn(r) \/ ReadTarget(r) \/ Answer(r) PROVE FALSE
    <3>1. CASE x # r
      BY <1>3, <2>2, <3>1 DEF ReadForSignIn, ReadTarget, Answer, TypeOK
    <3>2. CASE x = r
      <4>1. req[r] \in Request
        BY DEF TypeOK
      <4>2. CASE ReadForSignIn(r) \/ Answer(r)
        BY <1>1, <3>2, <4>2 DEF ReadForSignIn, Answer, Free, TypeOK
      <4>3. CASE ReadTarget(r)
        <5> DEFINE u == req[r].arg.user
                   loaded == [req[r] EXCEPT !.phase = "commit", !.user = u, !.row = acct[u]]
        <5>1. req'[r] \in {Free, loaded}
          BY <4>3 DEF ReadTarget, TypeOK
        <5>2. loaded.phase = "commit"
          BY <4>1 DEF Request
        <5> HIDE DEF loaded
        <5> QED
          BY <1>1, <3>2, <5>1, <5>2 DEF Free
      <4> QED BY <2>2, <4>2, <4>3
    <3> QED BY <3>1, <3>2
  <2>3. ASSUME NEW r \in Requests, ReadCaller(r) PROVE FALSE
    <3> DEFINE q == req[r]
               u == sess[q.sess].user
               onTarget == [q EXCEPT !.phase = "target", !.user = u]
               onCommit == [q EXCEPT !.phase = "commit", !.user = u, !.row = acct[u], !.t = now]
    <3>1. /\ req'[r] \in {Free, onTarget, onCommit}
          /\ \A y \in Requests \ {r} : req'[y] = req[y]
      BY <2>3 DEF ReadCaller, TypeOK
    <3>2. Free.phase = "free" /\ onTarget.phase = "target" /\ onCommit.phase = "commit"
      <4>1. q \in Request
        BY DEF TypeOK
      <4>2. onTarget.phase = "target"
        BY <4>1 DEF Request
      <4>3. onCommit.phase = "commit"
        BY <4>1 DEF Request
      <4> QED
        BY <4>2, <4>3 DEF Free
    <3> HIDE DEF onTarget, onCommit
    <3> QED
      BY <1>1, <1>3, <3>1, <3>2
  <2> QED
    BY <1>3, <2>1, <2>2, <2>3
       DEF Next, Handle, Tick, vars, RefuseSignIn, AcceptSignIn, IdleOut, Logout, ChangePassword,
           TotpEnroll, TotpVerify, CreateUser, UpdateUser, SetPassword, DisableUser, Abort
<1> QED BY <1>2, <1>3

\* What has ended stays ended.
LEMMA DeadStays ==
  ASSUME TypeOK, [Next]_vars, NEW s \in Sessions, sess[s] # None, Dead(s)
  PROVE  Dead(s)'
<1>1. /\ now \in Nat /\ now' \in Nat /\ now =< now' /\ IdleLimit \in Nat
      /\ sess[s].seen \in Nat /\ sess[s].exp \in Nat
  <2>1. now \in Nat /\ IdleLimit \in Nat /\ sess[s] \in Session
    BY LimitsAssumption DEF TypeOK
  <2>2. now' \in {now, now + 1}
    BY DEF Next, Handle, Tick, vars, ReadForSignIn, RefuseSignIn, AcceptSignIn, ReadSession,
       IdleOut, ReadCaller, Logout, ChangePassword, TotpEnroll, TotpVerify, ReadTarget,
       CreateUser, UpdateUser, SetPassword, DisableUser, Abort
  <2> QED
    BY <2>1, <2>2 DEF Session
<1>2. Ages(s)
  BY SessionsAge
<1>3. CASE sess[s].revoked
  BY <1>2, <1>3 DEF Ages, Dead
<1>4. CASE now > sess[s].exp
  BY <1>1, <1>2, <1>4 DEF Ages, Dead
<1>5. CASE now - sess[s].seen > IdleLimit /\ ~Admitted(s)
  <2>1. sess'[s].seen = sess[s].seen
    BY <1>2, <1>5 DEF Ages
  <2>2. ~Admitted(s)'
    BY <1>1, <1>5, Admission
  <2> QED
    BY <1>1, <1>5, <2>1, <2>2 DEF Dead
<1> QED
  BY <1>3, <1>4, <1>5 DEF Dead

LEMMA LifeInit == Init => Lifecycle!Init
<1> SUFFICES ASSUME Init, NEW s \in Sessions, sess[s] # None PROVE ~Dead(s)
  BY DEF Lifecycle!Init, life
<1>1. sess[s].seen = 0 /\ sess[s].exp = SessionTtl /\ ~sess[s].revoked /\ now = 0
  BY DEF Init
<1> QED
  BY <1>1, LimitsAssumption DEF Dead

LEMMA LifeStep == TypeOK /\ [Next]_vars => [Lifecycle!Next]_life
<1> SUFFICES ASSUME TypeOK, [Next]_vars PROVE Lifecycle!Next
  OBVIOUS
<1>1. life' \in [Sessions -> Lifecycle!Stages]
  BY DEF life, Lifecycle!Stages
<1>2. ASSUME NEW s \in Sessions PROVE life'[s] \in Lifecycle!Reachable(life[s])
  <2>1. CASE sess[s] = None
    BY <2>1 DEF life, Lifecycle!Reachable, Lifecycle!Stages
  <2>2. CASE sess[s] # None
    <3>1. sess'[s] # None
      BY <2>2, NothingIsDeleted
    <3>2. Dead(s) => Dead(s)'
      BY <2>2, DeadStays
    <3> QED
      BY <2>2, <3>1, <3>2 DEF life, Lifecycle!Reachable
  <2> QED BY <2>1, <2>2
<1> QED
  BY <1>1, <1>2 DEF Lifecycle!Next

\* AuthSessions implements SessionLife: once a session has been revoked, has expired
\* or is idle with no request past current_user's idle check, it never comes back.
THEOREM LifecycleImplemented == Spec => SessionsEndForGood
  BY TypeCorrect, LifeInit, LifeStep, PTL DEF Spec, SessionsEndForGood, Lifecycle!Spec

----------------------------------------------------------------------------
(* The second factor.  The pending secret of a row is never the one in       *)
(* force, in the table and in the copies of requests, because totp_enroll    *)
(* draws it fresh; so a confirmation always writes the secret it checked.    *)

Proper(a) == a.pending # None => a.pending # a.secret

FactorOK ==
  /\ \A u \in Users :
       /\ Proper(acct[u])
       /\ acct[u].enrolled => acct[u].secret \in confirmed
       /\ acct[u].state = "absent" => ~acct[u].enrolled
  /\ \A r \in Requests : req[r].row # None => Proper(req[r].row)

SameFactor(a, b) == a.enrolled = b.enrolled /\ a.secret = b.secret /\ a.pending = b.pending
FactorsKept == (\A u \in Users : SameFactor(acct'[u], acct[u])) /\ confirmed' = confirmed

\* What a commit leaves of the factor.
LEMMA CommitFactor ==
  ASSUME TypeOK, NEW r \in Requests, req[r].phase = "commit",
         NEW wanted \in Account, Commit(r, wanted)
  PROVE  LET q == req[r]
             cur == acct[q.user]
             new == acct'[q.user]
         IN  /\ q.user \in Users /\ \A u \in Users \ {q.user} : acct'[u] = acct[u]
             /\ new.enrolled = Col(cur.enrolled, q.row.enrolled, wanted.enrolled)
             /\ new.secret = Col(cur.secret, q.row.secret, wanted.secret)
             /\ new.pending = Col(cur.pending, q.row.pending, wanted.pending)
<1>1. req[r].user \in Users
  BY DEF TypeOK, RequestOK
<1> QED
  BY <1>1 DEF TypeOK, Commit, Flush

\* A handler that wants the factor it loaded does not touch the row's.
LEMMA CommitKeepsFactor ==
  ASSUME TypeOK, NEW r \in Requests, req[r].phase = "commit",
         NEW wanted \in Account, SameFactor(wanted, req[r].row),
         Commit(r, wanted) \/ \E hash \in Hash : CommitHash(r, wanted, hash)
  PROVE  \A u \in Users : SameFactor(acct'[u], acct[u])
<1> DEFINE q == req[r]
           flushed == Flush(acct[q.user], q.row, wanted)
<1>1. q.user \in Users /\ acct \in [Users -> Account]
  BY DEF TypeOK, RequestOK
<1>2. flushed \in Account /\ SameFactor(flushed, acct[q.user])
  <2>1. q.row \in Account
    BY DEF TypeOK, RequestOK
  <2> QED
    BY <1>1, <2>1, FlushType DEF Flush, Col, SameFactor
<1>3. ASSUME NEW hash \in Hash
      PROVE  SameFactor([flushed EXCEPT !.hash = hash], flushed)
  BY <1>2 DEF SameFactor, Account
<1>4. \/ acct' = [acct EXCEPT ![q.user] = flushed]
      \/ \E hash \in Hash : acct' = [acct EXCEPT ![q.user] = [flushed EXCEPT !.hash = hash]]
  BY DEF Commit, CommitHash
<1> HIDE DEF flushed
<1> QED
  BY <1>1, <1>2, <1>3, <1>4 DEF SameFactor

\* A copy is a row as it was when the request read it.
LEMMA CopiesAreRows ==
  ASSUME TypeOK, [Next]_vars, NEW x \in Requests, req'[x].row # None
  PROVE  req'[x].row = req[x].row \/ \E u \in Users : req'[x].row = acct[u]
<1>1. ASSUME NEW r \in Requests, Answer(r) PROVE req'[x] \in {req[x], Free}
  BY <1>1 DEF Answer, TypeOK
<1>2. ASSUME NEW r \in Requests, ReadForSignIn(r)
      PROVE  req'[x] = req[x] \/ \E u \in Users : req'[x].row = acct[u]
  <2>1. PICK u \in Users, a \in Arg :
          req' = [req EXCEPT ![r] = [phase |-> "commit", op |-> "login", user |-> u,
                    sess |-> None, row |-> acct[u], t |-> now, arg |-> a]]
    BY <1>2, InputsAssumption DEF ReadForSignIn, AllOps
  <2> QED
    BY <2>1 DEF TypeOK
<1>3. ASSUME NEW r \in Requests, ReadSession(r) PROVE req'[x] = req[x] \/ req'[x].row = None
  <2>1. PICK s \in Sessions, op \in AllOps, a \in Arg :
          req' = [req EXCEPT ![r] =
            [phase |-> IF now - sess[s].seen > IdleLimit THEN "idle" ELSE "identify",
             op |-> op, user |-> None, sess |-> s, row |-> None, t |-> now, arg |-> a]]
    BY <1>3, InputsAssumption DEF ReadSession, AllOps, TypeOK, Session
  <2> QED
    BY <2>1 DEF TypeOK
<1>4. ASSUME NEW r \in Requests, NEW phase, NEW user, NEW t,
             req' = [req EXCEPT ![r] = [req[r] EXCEPT !.phase = phase, !.user = user]]
      PROVE  req'[x].row = req[x].row
  <2>1. [req[r] EXCEPT !.phase = phase, !.user = user].row = req[r].row
    BY DEF TypeOK, Request
  <2> QED
    BY <1>4, <2>1 DEF TypeOK
<1>5. ASSUME NEW r \in Requests, ReadCaller(r)
      PROVE  \/ req'[x] = Free \/ req'[x].row = req[x].row
             \/ \E u \in Users : req'[x].row = acct[u]
  <2> DEFINE q == req[r]
             u == sess[q.sess].user
             onTarget == [q EXCEPT !.phase = "target", !.user = u]
             onCommit == [q EXCEPT !.phase = "commit", !.user = u, !.row = acct[u], !.t = now]
  <2>1. q \in Request /\ u \in Users
    BY <1>5 DEF TypeOK, RequestOK, ReadCaller, Session
  <2>2. onTarget.row = q.row /\ onCommit.row = acct[u]
    BY <2>1 DEF Request
  <2>3. req'[x] \in {req[x], Free} \/ (x = r /\ req'[x] \in {onTarget, onCommit})
    BY <1>5 DEF ReadCaller, TypeOK
  <2> HIDE DEF onTarget, onCommit, u
  <2> QED
    BY <2>1, <2>2, <2>3
<1>6. ASSUME NEW r \in Requests, ReadTarget(r)
      PROVE  req'[x] \in {req[x], Free} \/ \E u \in Users : req'[x].row = acct[u]
  <2> DEFINE u == req[r].arg.user
             loaded == [req[r] EXCEPT !.phase = "commit", !.user = u, !.row = acct[u]]
  <2>1. req[r] \in Request /\ u \in Users
    BY <1>6 DEF TypeOK, RequestOK, ReadTarget
  <2>2. loaded.row = acct[u]
    BY <2>1 DEF Request
  <2>3. req'[x] \in {req[x], Free} \/ (x = r /\ req'[x] = loaded)
    BY <1>6 DEF ReadTarget, TypeOK
  <2> HIDE DEF loaded
  <2> QED
    BY <2>1, <2>2, <2>3
<1>7. Free.row = None
  BY DEF Free
<1> QED
  BY <1>1, <1>2, <1>3, <1>5, <1>6, <1>7
     DEF Next, Handle, Tick, vars, RefuseSignIn, AcceptSignIn, IdleOut, Logout, ChangePassword,
         TotpEnroll, TotpVerify, CreateUser, UpdateUser, SetPassword, DisableUser, Abort

\* The steps that touch a factor: the two endpoints of totp, and a new account.
Enrolls(r, x) ==
  LET q == req[r] IN
  /\ Serving(r, "enroll") /\ x \in Secrets \ SecretsInUse
  /\ Commit(r, [q.row EXCEPT !.pending = x, !.tries = 0]) /\ confirmed' = confirmed \ {x}

FactorsKeptOr ==
  \/ FactorsKept
  \/ \E r \in Requests : CreateUser(r) \/ TotpVerify(r) \/ \E x \in Secrets : Enrolls(r, x)

LEMMA FactorSteps == TypeOK /\ [Next]_vars => FactorsKeptOr
<1> SUFFICES ASSUME TypeOK, [Next]_vars PROVE FactorsKeptOr
  OBVIOUS
<1>1. UNCHANGED acct => \A u \in Users : SameFactor(acct'[u], acct[u])
  BY DEF SameFactor
<1>2. ASSUME NEW a \in Account, NEW t \in Nat PROVE SameFactor(RegisterFailure(a, t), a)
  BY <1>2 DEF RegisterFailure, SameFactor, Account
<1>3. ASSUME NEW r \in Requests,
             ReadForSignIn(r) \/ ReadSession(r) \/ IdleOut(r) \/ ReadCaller(r) \/ Logout(r)
               \/ ReadTarget(r) \/ Abort(r)
      PROVE  FactorsKept
  BY <1>1, <1>3 DEF ReadForSignIn, ReadSession, IdleOut, ReadCaller, Logout, ReadTarget, Abort,
                    FactorsKept
<1>4. ASSUME NEW r \in Requests, RefuseSignIn(r) PROVE FactorsKept
  <2>1. req[r].phase = "commit" /\ req[r].row \in Account /\ req[r].t \in Nat
    BY <1>4, ServingType DEF RefuseSignIn, AllOps
  <2> QED
    BY <1>1, <1>2, <1>4, <2>1, FailureType, CommitKeepsFactor DEF RefuseSignIn, FactorsKept
<1>5. ASSUME NEW r \in Requests, AcceptSignIn(r) PROVE FactorsKept
  <2> DEFINE q == req[r]
             wanted == [q.row EXCEPT !.failed = 0, !.locked = 0,
                          !.state = IF @ = "pending" THEN "active" ELSE @]
             hash == NewHash(q.arg.pw, q.row.hash.temp)
  <2>1. q.phase = "commit" /\ q.row \in Account /\ q.arg.pw \in Passwords
    BY <1>5, ServingType DEF AcceptSignIn, PasswordRight, AllOps, Account, Hash
  <2>2. wanted \in Account /\ SameFactor(wanted, q.row)
    BY <2>1 DEF Account, SameFactor
  <2>3. hash \in Hash
    BY <2>1 DEF NewHash, Hash, Account
  <2>4. (Commit(r, wanted) \/ CommitHash(r, wanted, hash)) /\ confirmed' = confirmed
    BY <1>5 DEF AcceptSignIn
  <2> HIDE DEF wanted, hash
  <2> QED
    BY <2>1, <2>2, <2>3, <2>4, CommitKeepsFactor DEF FactorsKept
<1>6. ASSUME NEW r \in Requests, ChangePassword(r) PROVE FactorsKept
  <2> DEFINE q == req[r]
             wanted == [q.row EXCEPT !.must = FALSE, !.failed = 0]
             hash == NewHash(q.arg.new, FALSE)
  <2>1. q.phase = "commit" /\ q.row \in Account /\ q.t \in Nat /\ q.arg.new \in Passwords
    BY <1>6, ServingType DEF ChangePassword, AllOps, SelfOps
  <2>2. wanted \in Account /\ SameFactor(wanted, q.row) /\ hash \in Hash
    BY <2>1 DEF Account, SameFactor, NewHash, Hash
  <2>3. /\ \/ UNCHANGED acct \/ Commit(r, RegisterFailure(q.row, q.t)) \/ CommitHash(r, wanted, hash)
        /\ confirmed' = confirmed
    BY <1>6 DEF ChangePassword
  <2> HIDE DEF wanted, hash
  <2> QED
    BY <1>1, <1>2, <2>1, <2>2, <2>3, FailureType, CommitKeepsFactor DEF FactorsKept
<1>7. ASSUME NEW r \in Requests, TotpEnroll(r) PROVE FactorsKept \/ \E x \in Secrets : Enrolls(r, x)
  <2>1. req[r].phase = "commit" /\ req[r].row \in Account /\ req[r].t \in Nat
    BY <1>7, ServingType DEF TotpEnroll, AllOps, SelfOps
  <2>2. CASE UNCHANGED confirmed /\ (UNCHANGED acct \/ Commit(r, RegisterFailure(req[r].row, req[r].t)))
    BY <1>1, <1>2, <2>1, <2>2, FailureType, CommitKeepsFactor DEF FactorsKept
  <2>3. CASE \E x \in Secrets \ SecretsInUse :
                /\ Commit(r, [req[r].row EXCEPT !.pending = x, !.tries = 0])
                /\ confirmed' = confirmed \ {x}
    BY <1>7, <2>3 DEF TotpEnroll, Enrolls
  <2> QED
    BY <1>7, <2>2, <2>3 DEF TotpEnroll
<1>8. ASSUME NEW r \in Requests, UpdateUser(r) \/ SetPassword(r) \/ DisableUser(r) PROVE FactorsKept
  <2> DEFINE q == req[r]
             patched == [q.row EXCEPT !.state = IF q.arg.state = None THEN @ ELSE q.arg.state,
                                      !.mgr = IF q.arg.mgr = None THEN @ ELSE q.arg.mgr]
             reset == [q.row EXCEPT !.must = q.arg.temp, !.failed = 0, !.locked = 0]
             disabled == [q.row EXCEPT !.state = "disabled"]
             hash == NewHash(q.arg.new, q.arg.temp)
  <2>1. /\ q.phase = "commit" /\ q.row \in Account /\ q.arg \in Arg
        /\ SetPassword(r) => q.arg.new \in Passwords
    BY <1>8, ServingType DEF UpdateUser, SetPassword, DisableUser, AllOps, AdminOps
  <2>2. patched \in Account /\ SameFactor(patched, q.row)
    BY <2>1 DEF Account, Arg, SameFactor
  <2>3. reset \in Account /\ SameFactor(reset, q.row)
    BY <2>1 DEF Account, Arg, SameFactor
  <2>4. disabled \in Account /\ SameFactor(disabled, q.row)
    BY <2>1 DEF Account, SameFactor
  <2>5. SetPassword(r) => hash \in Hash
    BY <2>1 DEF NewHash, Hash, Arg
  <2>6. /\ confirmed' = confirmed
        /\ \/ Commit(r, patched) \/ Commit(r, disabled)
           \/ SetPassword(r) /\ CommitHash(r, reset, hash)
    BY <1>8 DEF UpdateUser, SetPassword, DisableUser
  <2> HIDE DEF patched, reset, disabled, hash
  <2> QED
    BY <2>1, <2>2, <2>3, <2>4, <2>5, <2>6, CommitKeepsFactor DEF FactorsKept
<1>9. CASE Tick \/ UNCHANGED vars
  BY <1>1, <1>9 DEF Tick, vars, FactorsKept, FactorsKeptOr
<1>10. ASSUME NEW r \in Requests, Handle(r) PROVE FactorsKeptOr
  BY <1>3, <1>4, <1>5, <1>6, <1>7, <1>8, <1>10 DEF Handle, FactorsKeptOr
<1> QED
  BY <1>9, <1>10 DEF Next, FactorsKeptOr

\* A confirmation puts the secret it checked in force, and leaves none pending; a wrong
\* code changes neither the secret nor whether there is one.
LEMMA VerifyEffect ==
  ASSUME TypeOK, NEW r \in Requests, TotpVerify(r), Proper(req[r].row)
  PROVE  LET q == req[r]
             cur == acct[q.user]
             new == acct'[q.user]
         IN  /\ q.user \in Users /\ \A u \in Users \ {q.user} : acct'[u] = acct[u]
             /\ confirmed \subseteq confirmed'
             /\ cur.enrolled => new.enrolled
             /\ \/ /\ (new.enrolled => cur.enrolled) /\ new.secret = cur.secret
                   /\ new.pending \in {None, cur.pending}
                \/ new.secret \in confirmed' /\ new.pending = None
<1> DEFINE q == req[r]
           discarded == [q.row EXCEPT !.pending = None, !.tries = 0]
           counted == [q.row EXCEPT !.tries = @ + 1]
           enrolled == [q.row EXCEPT !.secret = q.row.pending, !.pending = None, !.tries = 0,
                                     !.enrolled = TRUE]
<1>1. q.phase = "commit" /\ q.row \in Account /\ q.user \in Users /\ acct[q.user] \in Account
  BY ServingType DEF TotpVerify, AllOps, SelfOps, TypeOK
<1>2. /\ discarded \in Account /\ discarded.secret = q.row.secret
      /\ discarded.enrolled = q.row.enrolled /\ discarded.pending = None
  BY <1>1 DEF Account
<1>3. counted \in Account /\ SameFactor(counted, q.row)
  BY <1>1 DEF Account, SameFactor
<1>4. /\ enrolled \in Account /\ enrolled.secret = q.row.pending
      /\ enrolled.enrolled /\ enrolled.enrolled \in BOOLEAN /\ enrolled.pending = None
  BY <1>1 DEF Account
<1>5. \/ UNCHANGED <<acct, confirmed>>
      \/ (Commit(r, discarded) \/ Commit(r, counted)) /\ UNCHANGED confirmed
      \/ Commit(r, enrolled) /\ q.row.pending # None /\ confirmed' = confirmed \cup {q.row.pending}
  BY DEF TotpVerify
<1> HIDE DEF discarded, counted, enrolled
<1>6. CASE UNCHANGED <<acct, confirmed>>
  BY <1>1, <1>6
<1>7. CASE Commit(r, discarded) /\ UNCHANGED confirmed
  BY <1>1, <1>2, <1>7, CommitFactor DEF Col
<1>8. CASE Commit(r, counted) /\ UNCHANGED confirmed
  BY <1>1, <1>3, <1>8, CommitFactor DEF Col, SameFactor
<1>9. CASE Commit(r, enrolled) /\ q.row.pending # None /\ confirmed' = confirmed \cup {q.row.pending}
  <2>1. q.row.pending # q.row.secret
    BY <1>9 DEF Proper
  <2>2. /\ \A u \in Users \ {q.user} : acct'[u] = acct[u]
        /\ acct'[q.user].enrolled = Col(acct[q.user].enrolled, q.row.enrolled, enrolled.enrolled)
        /\ acct'[q.user].secret = Col(acct[q.user].secret, q.row.secret, enrolled.secret)
        /\ acct'[q.user].pending = Col(acct[q.user].pending, q.row.pending, enrolled.pending)
    BY <1>1, <1>4, <1>9, CommitFactor
  <2>3. acct'[q.user].secret = q.row.pending /\ acct'[q.user].pending = None
    BY <1>4, <1>9, <2>1, <2>2 DEF Col
  <2>4. acct[q.user].enrolled => acct'[q.user].enrolled
    BY <1>4, <2>2 DEF Col
  <2> QED
    BY <1>1, <1>9, <2>2, <2>3, <2>4
<1> QED
  BY <1>5, <1>6, <1>7, <1>8, <1>9

\* A new enrolment changes the pending secret only, to one that is nowhere in force.
LEMMA EnrollEffect ==
  ASSUME TypeOK, NEW r \in Requests, NEW x \in Secrets, Enrolls(r, x)
  PROVE  LET q == req[r]
             cur == acct[q.user]
             new == acct'[q.user]
         IN  /\ q.user \in Users /\ \A u \in Users \ {q.user} : acct'[u] = acct[u]
             /\ new.enrolled = cur.enrolled /\ new.secret = cur.secret /\ new.pending = x
             /\ \A u \in Users : acct[u].secret # x
<1> DEFINE q == req[r]
           wanted == [q.row EXCEPT !.pending = x, !.tries = 0]
<1>1. q.phase = "commit" /\ q.row \in Account /\ q.user \in Users /\ q.row # None
  BY ServingType, NoneAssumption DEF Enrolls, AllOps, SelfOps
<1>2. /\ wanted \in Account /\ wanted.enrolled = q.row.enrolled
      /\ wanted.secret = q.row.secret /\ wanted.pending = x
  BY <1>1 DEF Account
<1>3. \A u \in Users : acct[u].secret # x
  BY DEF Enrolls, SecretsInUse
<1>4. q.row.pending # x
  BY <1>1 DEF Enrolls, SecretsInUse
<1>5. Commit(r, wanted)
  BY DEF Enrolls
<1> HIDE DEF wanted
<1> QED
  BY <1>1, <1>2, <1>3, <1>4, <1>5, CommitFactor DEF Col

LEMMA FactorInit == Init => FactorOK
  BY DEF Init, FactorOK, Proper, Free

LEMMA FactorStep ==
  TypeOK /\ CopiesOK /\ FactorOK /\ [Next]_vars
    => FactorOK' /\ \A u \in Users : acct[u].enrolled => acct'[u].enrolled
<1> SUFFICES ASSUME TypeOK, CopiesOK, FactorOK, [Next]_vars
             PROVE  FactorOK' /\ \A u \in Users : acct[u].enrolled => acct'[u].enrolled
  OBVIOUS
<1> DEFINE RowOK(u) ==
             /\ Proper(acct'[u])
             /\ acct'[u].enrolled => acct'[u].secret \in confirmed'
             /\ acct'[u].state = "absent" => ~acct'[u].enrolled
             /\ acct[u].enrolled => acct'[u].enrolled
<1>1. \A r \in Requests : req'[r].row # None => Proper(req'[r].row)
  BY CopiesAreRows DEF FactorOK
<1>2. \A u \in Users : acct'[u].state = "absent" => acct[u].state = "absent"
  BY NothingIsDeleted
<1>3. ASSUME FactorsKept, NEW u \in Users PROVE RowOK(u)
  BY <1>2, <1>3 DEF FactorsKept, SameFactor, FactorOK, Proper
<1>4. ASSUME NEW r \in Requests, CreateUser(r), NEW u \in Users PROVE RowOK(u)
  <2>1. CASE acct'[u] = acct[u]
    BY <1>4, <2>1 DEF CreateUser, FactorOK, Proper
  <2>2. CASE acct'[u] # acct[u]
    <3>1. acct[u].state = "absent" /\ ~acct'[u].enrolled /\ acct'[u].pending = None
      BY <1>4, <2>2 DEF CreateUser, TypeOK
    <3> QED
      BY <3>1 DEF FactorOK, Proper
  <2> QED
    BY <2>1, <2>2
<1>5. ASSUME NEW r \in Requests, NEW x \in Secrets, Enrolls(r, x), NEW u \in Users PROVE RowOK(u)
  <2>1. /\ acct'[u].enrolled = acct[u].enrolled /\ acct'[u].secret = acct[u].secret
        /\ acct'[u].pending \in {acct[u].pending, x} /\ acct[u].secret # x
    BY <1>5, EnrollEffect
  <2>2. confirmed' = confirmed \ {x}
    BY <1>5 DEF Enrolls
  <2> QED
    BY <1>2, <2>1, <2>2 DEF FactorOK, Proper
<1>6. ASSUME NEW r \in Requests, TotpVerify(r), NEW u \in Users PROVE RowOK(u)
  <2>1. /\ Proper(req[r].row) /\ acct[req[r].user].state # "absent"
    <3>1. Serving(r, "verify") /\ req[r].row # None
      BY <1>6, ServingType, NoneAssumption DEF TotpVerify, AllOps, SelfOps
    <3> QED
      BY <3>1 DEF FactorOK, CopiesOK, CopyOK, Serving
  <2>2. /\ confirmed \subseteq confirmed' /\ (acct[u].enrolled => acct'[u].enrolled)
        /\ u # req[r].user => acct'[u] = acct[u]
    BY <1>6, <2>1, VerifyEffect
  <2>3. u = req[r].user =>
          \/ /\ (acct'[u].enrolled => acct[u].enrolled) /\ acct'[u].secret = acct[u].secret
             /\ acct'[u].pending \in {None, acct[u].pending}
          \/ acct'[u].secret \in confirmed' /\ acct'[u].pending = None
    BY <1>6, <2>1, VerifyEffect
  <2>4. Proper(acct'[u])
    BY <2>2, <2>3 DEF FactorOK, Proper
  <2>5. acct'[u].enrolled => acct'[u].secret \in confirmed'
    BY <2>2, <2>3 DEF FactorOK
  <2>6. acct'[u].state = "absent" => ~acct'[u].enrolled
    BY <1>2, <2>1, <2>2 DEF FactorOK
  <2> QED
    BY <2>2, <2>4, <2>5, <2>6
<1>7. ASSUME NEW u \in Users PROVE RowOK(u)
  <2> HIDE DEF RowOK
  <2> QED
    BY <1>3, <1>4, <1>5, <1>6, FactorSteps DEF FactorsKeptOr
<1> QED
  BY <1>1, <1>7 DEF FactorOK

LEMMA FactorCorrect == Spec => []FactorOK
  BY TypeCorrect, CopiesCorrect, FactorInit, FactorStep, PTL DEF Spec

\* The second factor in force is one the owner has shown a code of, however the steps of
\* enrolments, confirmations and changes by others overlap (totp_enroll, totp_verify).
THEOREM FactorIsConfirmed == Spec => []FactorConfirmed
<1>1. FactorOK => FactorConfirmed
  BY DEF FactorOK, FactorConfirmed
<1> QED
  BY <1>1, FactorCorrect, PTL

\* No commit, of whatever old copy, takes an enrolled account's factor out of force.
THEOREM FactorStays == Spec => FactorStaysInForce
<1> DEFINE Stays == \A u \in Users : acct[u].enrolled => acct'[u].enrolled /\ acct'[u].secret # None
<1>1. TypeOK /\ TypeOK' /\ CopiesOK /\ FactorOK /\ [Next]_vars => Stays
  <2> SUFFICES ASSUME TypeOK, TypeOK', CopiesOK, FactorOK, [Next]_vars,
                      NEW u \in Users, acct[u].enrolled
               PROVE  acct'[u].enrolled /\ acct'[u].secret # None
    OBVIOUS
  <2>1. acct'[u].enrolled /\ acct'[u].secret \in confirmed'
    BY FactorStep DEF FactorOK
  <2>2. confirmed' \subseteq Secrets /\ None \notin Secrets
    BY NoneAssumption DEF TypeOK
  <2> QED
    BY <2>1, <2>2
<1>2. TypeOK /\ TypeOK' /\ CopiesOK /\ FactorOK /\ [Next]_vars => [Stays]_vars
  BY <1>1
<1> QED
  BY <1>2, TypeCorrect, CopiesCorrect, FactorCorrect, PTL DEF Spec, FactorStaysInForce
=============================================================================
