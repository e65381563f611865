---------------------------- MODULE AuthSessions ----------------------------
(***************************************************************************)
(* Sign-in, server-side sessions, password changes, TOTP enrolment and the *)
(* administration of accounts (api/auth.py, api/admin_users.py, deps.py).  *)
(*                                                                         *)
(* A request is served by one coroutine with its own database session.     *)
(* Every await lets another request run, so a handler is cut into the      *)
(* steps between its awaits: it READS a row, decides on that copy, and     *)
(* WRITES at its commit.  The ORM writes the columns whose value it        *)
(* changed since it loaded them, whatever the row holds by then (Flush).   *)
(***************************************************************************)
EXTENDS Integers, FiniteSets

CONSTANTS
  Users,            \* account names, provisioned or not
  Managers, Members,  \* the accounts that exist when the run begins
  SignedIn,         \* those of them that hold a session by then
  Sessions,         \* rows the sessions table may come to hold (bound)
  Requests,         \* requests in flight at the same time (bound)
  Passwords,        \* passwords that satisfy the policy
  Secrets,          \* TOTP secrets
  None,             \* no value
  Inputs(_, _),     \* Inputs(u, op): what account u may send to endpoint op
  LockoutAttempts, LockoutTime, SessionTtl, IdleLimit,   \* config.py
  VerifyAttempts,   \* TOTP_VERIFY_ATTEMPTS
  OtpRequired,      \* otp_required
  MaxTime           \* bound on the clock

SelfOps   == {"use", "logout", "change", "enroll", "verify"}
AdminOps  == {"create", "patch", "reset", "disable"}
AllOps    == {"login"} \cup SelfOps \cup AdminOps
ActiveOps == {"use", "enroll", "verify"} \cup AdminOps    \* behind active_user

ASSUME AccountsAssumption == Managers \subseteq Users /\ Members \subseteq Users
                            /\ SignedIn \subseteq Managers \cup Members
ASSUME LimitsAssumption ==
  /\ LockoutAttempts \in Nat \ {0} /\ LockoutTime \in Nat \ {0}
  /\ SessionTtl \in Nat /\ IdleLimit \in Nat /\ MaxTime \in Nat
  /\ VerifyAttempts \in Nat \ {0, 1} /\ OtpRequired \in BOOLEAN

VARIABLES
  acct,       \* the users table
  sess,       \* the sessions table
  req,        \* the request each slot is serving
  now,        \* the clock
  raced,      \* history: sessions touched by a sign-in that straddled a password
              \* change or a disabling
  confirmed   \* history: secrets a code of which /totp/verify has accepted

vars == <<acct, sess, req, now, raced, confirmed>>

(***************************************************************************)
(* Rows.  hash.old is needs_rehash; hash.temp is history: an administrator *)
(* set this password and asked for it to be changed.  locked = 0 is NULL.  *)
(***************************************************************************)
Hash == [pw : Passwords, old : BOOLEAN, temp : BOOLEAN]

Account ==
  [state : {"absent", "pending", "active", "disabled"}, mgr : BOOLEAN,
   hash : Hash, must : BOOLEAN, failed : Nat, locked : Nat,
   enrolled : BOOLEAN, secret : Secrets \cup {None},
   pending : Secrets \cup {None}, tries : Nat]

\* via is history: the password that opened the session, or that it last set.
Session ==
  [user : Users, seen : Nat, exp : Nat, revoked : BOOLEAN, mfaOk : BOOLEAN,
   via : Passwords]

\* What a request carries; a pw of None is one that matches nothing.
Arg ==
  [user : Users \cup {None}, pw : Passwords \cup {None}, new : Passwords \cup {None},
   code : Secrets \cup {None}, temp : BOOLEAN,
   state : {"active", "disabled", None}, mgr : BOOLEAN \cup {None}]

Blank == [user |-> None, pw |-> None, new |-> None, code |-> None, temp |-> FALSE,
          state |-> None, mgr |-> None]

Request ==
  [phase : {"free", "idle", "identify", "target", "commit"},
   op : AllOps \cup {None}, user : Users \cup {None}, sess : Sessions \cup {None},
   row : Account \cup {None}, t : Nat, arg : Arg]

Free == [phase |-> "free", op |-> None, user |-> None, sess |-> None, row |-> None,
         t |-> 0, arg |-> Blank]

ASSUME NoneAssumption ==
  /\ None \notin Users \cup Sessions \cup Secrets \cup Passwords \cup AllOps
  /\ None \notin Account \cup Session
ASSUME InputsAssumption ==
  \A u \in Users, op \in AllOps : Inputs(u, op) \subseteq {a \in Arg :
    /\ op \in {"change", "create", "reset"} => a.new \in Passwords
    /\ op \in AdminOps => a.user \in Users
    /\ op = "login" => a.user = u}

----------------------------------------------------------------------------
(* What the handlers share. *)

Locked(a, t) == t < a.locked

\* A commit: a column whose wanted value equals the loaded one is not written.
\* The hash is written by the caller: a new hash always differs from the old.
Col(cur, loaded, wanted) == IF wanted = loaded THEN cur ELSE wanted

Flush_WholeRow(cur, loaded, wanted) == [wanted EXCEPT !.hash = cur.hash]

Flush(cur, loaded, wanted) ==
  [state    |-> Col(cur.state, loaded.state, wanted.state),
   mgr      |-> Col(cur.mgr, loaded.mgr, wanted.mgr),
   hash     |-> cur.hash,
   must     |-> Col(cur.must, loaded.must, wanted.must),
   failed   |-> Col(cur.failed, loaded.failed, wanted.failed),
   locked   |-> Col(cur.locked, loaded.locked, wanted.locked),
   enrolled |-> Col(cur.enrolled, loaded.enrolled, wanted.enrolled),
   secret   |-> Col(cur.secret, loaded.secret, wanted.secret),
   pending  |-> Col(cur.pending, loaded.pending, wanted.pending),
   tries    |-> Col(cur.tries, loaded.tries, wanted.tries)]

RegisterFailure_OffByOne(a, t) ==
  IF a.failed + 1 > LockoutAttempts
  THEN [a EXCEPT !.failed = 0, !.locked = t + LockoutTime]
  ELSE [a EXCEPT !.failed = @ + 1]

RegisterFailure(a, t) ==
  IF a.failed + 1 >= LockoutAttempts
  THEN [a EXCEPT !.failed = 0, !.locked = t + LockoutTime]
  ELSE [a EXCEPT !.failed = @ + 1]

\* revoke_sessions: one UPDATE over the rows committed by now.
Revoke(u, keep) ==
  [s \in Sessions |->
     IF sess[s] # None /\ sess[s].user = u /\ s # keep
     THEN [sess[s] EXCEPT !.revoked = TRUE] ELSE sess[s]]

Serving(r, op) == req[r].phase = "commit" /\ req[r].op = op
Answer(r) == req' = [req EXCEPT ![r] = Free]

\* The commit of request r, once its handler wants `wanted` in the row it loaded.
Commit(r, wanted) ==
  LET q == req[r] IN acct' = [acct EXCEPT ![q.user] = Flush(@, q.row, wanted)]

CommitHash(r, wanted, hash) ==
  LET q == req[r] IN
  acct' = [acct EXCEPT ![q.user] = [Flush(@, q.row, wanted) EXCEPT !.hash = hash]]

NewHash(p, temp) == [pw |-> p, old |-> FALSE, temp |-> temp]

----------------------------------------------------------------------------
(* Sign-in: read the account and decide, then commit. *)

ReadForSignIn_AnyAccount(r) ==
  /\ req[r] = Free
  /\ \E u \in Users : \E a \in Inputs(u, "login") :
       /\ acct[u].state # "absent" /\ ~Locked(acct[u], now)
       /\ req' = [req EXCEPT ![r] = [phase |-> "commit", op |-> "login", user |-> u,
                    sess |-> None, row |-> acct[u], t |-> now, arg |-> a]]
  /\ UNCHANGED <<acct, sess, now, raced, confirmed>>

ReadForSignIn(r) ==
  /\ req[r] = Free
  /\ \E u \in Users : \E a \in Inputs(u, "login") :
       /\ acct[u].state \notin {"absent", "disabled"} /\ ~Locked(acct[u], now)
       /\ req' = [req EXCEPT ![r] = [phase |-> "commit", op |-> "login", user |-> u,
                    sess |-> None, row |-> acct[u], t |-> now, arg |-> a]]
  /\ UNCHANGED <<acct, sess, now, raced, confirmed>>

PasswordRight(q) == q.arg.pw = q.row.hash.pw
CodeRight(q) == OtpRequired /\ q.row.enrolled => q.arg.code = q.row.secret

RefuseSignIn(r) ==
  /\ Serving(r, "login") /\ ~(PasswordRight(req[r]) /\ CodeRight(req[r]))
  /\ IF PasswordRight(req[r]) THEN UNCHANGED acct
     ELSE Commit(r, RegisterFailure(req[r].row, req[r].t))
  /\ Answer(r) /\ UNCHANGED <<sess, now, raced, confirmed>>

\* A legacy hash is replaced by a hash of the password just verified; the new
\* session is then paired with that password even if it was changed meanwhile.
AcceptSignIn(r) ==
  LET q == req[r]
      cur == acct[q.user]
      ofUser == {x \in Sessions : sess[x] # None /\ sess[x].user = q.user}
      wanted == [q.row EXCEPT !.failed = 0, !.locked = 0,
                   !.state = IF @ = "pending" THEN "active" ELSE @]
  IN
  /\ Serving(r, "login") /\ PasswordRight(q) /\ CodeRight(q)
  /\ IF q.row.hash.old
     THEN CommitHash(r, wanted, NewHash(q.arg.pw, q.row.hash.temp))
     ELSE Commit(r, wanted)
  /\ \E s \in Sessions :
       /\ sess[s] = None
       /\ sess' = [sess EXCEPT ![s] =
                     [user |-> q.user, seen |-> now, exp |-> q.t + SessionTtl,
                      revoked |-> FALSE, mfaOk |-> TRUE, via |-> q.arg.pw]]
       /\ raced' = raced \cup
            (IF q.arg.pw # cur.hash.pw /\ q.row.hash.old THEN ofUser ELSE {}) \cup
            (IF q.arg.pw # cur.hash.pw \/ cur.state = "disabled" THEN {s} ELSE {})
  /\ Answer(r) /\ UNCHANGED <<now, confirmed>>

----------------------------------------------------------------------------
(* current_user: read the session, then read the account and touch the     *)
(* session.                                                                *)

ReadSession(r) ==
  /\ req[r] = Free
  /\ \E s \in Sessions, op \in SelfOps \cup AdminOps :
       /\ sess[s] # None /\ ~sess[s].revoked /\ now =< sess[s].exp
       /\ \E a \in Inputs(sess[s].user, op) :
            req' = [req EXCEPT ![r] =
              [phase |-> IF now - sess[s].seen > IdleLimit THEN "idle" ELSE "identify",
               op |-> op, user |-> None, sess |-> s, row |-> None, t |-> now, arg |-> a]]
  /\ UNCHANGED <<acct, sess, now, raced, confirmed>>

IdleOut(r) ==
  /\ req[r].phase = "idle"
  /\ sess' = [sess EXCEPT ![req[r].sess].revoked = TRUE]
  /\ Answer(r) /\ UNCHANGED <<acct, now, raced, confirmed>>

\* active_user and require_capability decide on this copy of the account.
\* last_seen_at takes the time the session was read.
ReadCaller_WritesRow(r) ==
  LET q == req[r] IN
  /\ q.phase = "identify"
  /\ sess' = [sess EXCEPT ![q.sess].seen = q.t, ![q.sess].revoked = FALSE]
  /\ Answer(r) /\ UNCHANGED <<acct, now, raced, confirmed>>

ReadCaller(r) ==
  LET q == req[r]
      u == sess[q.sess].user
      a == acct[u]
      admitted == /\ a.state \notin {"absent", "disabled"}
                  /\ OtpRequired /\ a.enrolled => sess[q.sess].mfaOk
      allowed == /\ q.op \in ActiveOps => ~a.must
                 /\ q.op \in AdminOps => a.mgr
  IN
  /\ q.phase = "identify"
  /\ sess' = IF admitted THEN [sess EXCEPT ![q.sess].seen = q.t] ELSE sess
  /\ req' = [req EXCEPT ![r] =
       IF ~(admitted /\ allowed) \/ q.op = "use" THEN Free
       ELSE IF q.op \in AdminOps THEN [q EXCEPT !.phase = "target", !.user = u]
       ELSE [q EXCEPT !.phase = "commit", !.user = u, !.row = a, !.t = now]]
  /\ UNCHANGED <<acct, now, raced, confirmed>>

----------------------------------------------------------------------------
(* A user's own account. *)

Logout(r) ==
  /\ Serving(r, "logout")
  /\ sess' = Revoke(req[r].user, None)
  /\ Answer(r) /\ UNCHANGED <<acct, now, raced, confirmed>>

ChangePassword_KeepsAll(r) ==
  LET q == req[r] IN
  /\ Serving(r, "change") /\ PasswordRight(q) /\ q.arg.new # q.arg.pw
  /\ CommitHash(r, [q.row EXCEPT !.must = FALSE, !.failed = 0], NewHash(q.arg.new, FALSE))
  /\ sess' = [sess EXCEPT ![q.sess].via = q.arg.new]
  /\ Answer(r) /\ UNCHANGED <<now, raced, confirmed>>

ChangePassword(r) ==
  LET q == req[r] IN
  /\ Serving(r, "change")
  /\ \/ /\ Locked(q.row, q.t) \/ (PasswordRight(q) /\ q.arg.new = q.arg.pw)
        /\ UNCHANGED <<acct, sess>>
     \/ /\ ~Locked(q.row, q.t) /\ ~PasswordRight(q)
        /\ Commit(r, RegisterFailure(q.row, q.t)) /\ UNCHANGED sess
     \/ /\ ~Locked(q.row, q.t) /\ PasswordRight(q) /\ q.arg.new # q.arg.pw
        /\ CommitHash(r, [q.row EXCEPT !.must = FALSE, !.failed = 0], NewHash(q.arg.new, FALSE))
        /\ sess' = [Revoke(q.user, q.sess) EXCEPT ![q.sess].via = q.arg.new]
  /\ Answer(r) /\ UNCHANGED <<now, raced, confirmed>>

\* totp.new_secret() is fresh: no row and no request in flight holds it.
SecretsInUse ==
  LET held == {acct[u] : u \in Users} \cup
              {req[r].row : r \in {x \in Requests : req[x].row # None}}
  IN  {a.secret : a \in held} \cup {a.pending : a \in held}

TotpEnroll_Replaces(r) ==
  LET q == req[r] IN
  /\ Serving(r, "enroll") /\ ~Locked(q.row, q.t) /\ PasswordRight(q)
  /\ \E x \in Secrets \ SecretsInUse :
       /\ Commit(r, [q.row EXCEPT !.pending = x, !.secret = x, !.tries = 0])
       /\ confirmed' = confirmed \ {x}
  /\ Answer(r) /\ UNCHANGED <<sess, now, raced>>

TotpEnroll(r) ==
  LET q == req[r]
      allowed == PasswordRight(q) /\ (q.row.enrolled => q.arg.code = q.row.secret)
  IN
  /\ Serving(r, "enroll")
  /\ \/ Locked(q.row, q.t) /\ UNCHANGED <<acct, confirmed>>
     \/ /\ ~Locked(q.row, q.t) /\ ~allowed
        /\ Commit(r, RegisterFailure(q.row, q.t)) /\ UNCHANGED confirmed
     \/ /\ ~Locked(q.row, q.t) /\ allowed
        /\ \E x \in Secrets \ SecretsInUse :
             /\ Commit(r, [q.row EXCEPT !.pending = x, !.tries = 0])
             /\ confirmed' = confirmed \ {x}
  /\ Answer(r) /\ UNCHANGED <<sess, now, raced>>

TotpVerify(r) ==
  LET q == req[r] IN
  /\ Serving(r, "verify")
  /\ \/ q.row.pending = None /\ UNCHANGED <<acct, confirmed>>
     \/ /\ q.row.pending # None /\ q.arg.code # q.row.pending
        /\ Commit(r, IF q.row.tries + 1 >= VerifyAttempts
                     THEN [q.row EXCEPT !.pending = None, !.tries = 0]
                     ELSE [q.row EXCEPT !.tries = @ + 1])
        /\ UNCHANGED confirmed
     \/ /\ q.row.pending # None /\ q.arg.code = q.row.pending
        /\ Commit(r, [q.row EXCEPT !.secret = q.row.pending, !.pending = None, !.tries = 0,
                                   !.enrolled = TRUE])
        /\ confirmed' = confirmed \cup {q.row.pending}
  /\ Answer(r) /\ UNCHANGED <<sess, now, raced>>

----------------------------------------------------------------------------
(* The administrator's handlers read the target's row, then commit. *)

ReadTarget_KeepsCaller(r) ==
  LET q == req[r] IN
  /\ q.phase = "target"
  /\ req' = [req EXCEPT ![r] = [q EXCEPT !.phase = "commit"]]
  /\ UNCHANGED <<acct, sess, now, raced, confirmed>>

ReadTarget(r) ==
  LET q == req[r]
      u == q.arg.user
      self == u = q.user
      refused == \/ q.op = "create" /\ acct[u].state # "absent"
                 \/ q.op # "create" /\ acct[u].state = "absent"
                 \/ q.op \in {"reset", "disable"} /\ self
                 \/ q.op = "patch" /\ q.arg.state = "disabled" /\ self
  IN
  /\ q.phase = "target"
  /\ req' = [req EXCEPT ![r] = IF refused THEN Free
               ELSE [q EXCEPT !.phase = "commit", !.user = u, !.row = acct[u]]]
  /\ UNCHANGED <<acct, sess, now, raced, confirmed>>

\* The unique index on username refuses the second of two concurrent inserts.
CreateUser(r) ==
  LET q == req[r] IN
  /\ Serving(r, "create")
  /\ acct' = IF acct[q.user].state # "absent" THEN acct ELSE
       [acct EXCEPT ![q.user] =
          [state |-> "pending", mgr |-> FALSE, hash |-> NewHash(q.arg.new, q.arg.temp),
           must |-> q.arg.temp, failed |-> 0, locked |-> 0, enrolled |-> FALSE,
           secret |-> None, pending |-> None, tries |-> 0]]
  /\ Answer(r) /\ UNCHANGED <<sess, now, raced, confirmed>>

UpdateUser(r) ==
  LET q == req[r] IN
  /\ Serving(r, "patch")
  /\ Commit(r, [q.row EXCEPT !.state = IF q.arg.state = None THEN @ ELSE q.arg.state,
                             !.mgr = IF q.arg.mgr = None THEN @ ELSE q.arg.mgr])
  /\ sess' = IF q.arg.state = "disabled" THEN Revoke(q.user, None) ELSE sess
  /\ Answer(r) /\ UNCHANGED <<now, raced, confirmed>>

SetPassword(r) ==
  LET q == req[r] IN
  /\ Serving(r, "reset")
  /\ CommitHash(r, [q.row EXCEPT !.must = q.arg.temp, !.failed = 0, !.locked = 0],
                NewHash(q.arg.new, q.arg.temp))
  /\ sess' = Revoke(q.user, None)
  /\ Answer(r) /\ UNCHANGED <<now, raced, confirmed>>

DisableUser_KeepsSessions(r) ==
  LET q == req[r] IN
  /\ Serving(r, "disable")
  /\ Commit(r, [q.row EXCEPT !.state = "disabled"])
  /\ Answer(r) /\ UNCHANGED <<sess, now, raced, confirmed>>

DisableUser(r) ==
  LET q == req[r] IN
  /\ Serving(r, "disable")
  /\ Commit(r, [q.row EXCEPT !.state = "disabled"])
  /\ sess' = Revoke(q.user, None)
  /\ Answer(r) /\ UNCHANGED <<now, raced, confirmed>>

----------------------------------------------------------------------------
\* The client goes away, the process dies or the database fails before the
\* commit: the transaction is rolled back and the request leaves nothing.
Abort(r) ==
  /\ req[r] # Free
  /\ Answer(r) /\ UNCHANGED <<acct, sess, now, raced, confirmed>>

Tick ==
  /\ now < MaxTime
  /\ now' = now + 1
  /\ UNCHANGED <<acct, sess, req, raced, confirmed>>

----------------------------------------------------------------------------
Init ==
  /\ \E pw \in [Users -> Passwords], old \in BOOLEAN :
       acct = [u \in Users |->
         [state |-> IF u \in Managers \cup Members THEN "active" ELSE "absent",
          mgr |-> u \in Managers, hash |-> [pw |-> pw[u], old |-> old, temp |-> FALSE],
          must |-> FALSE, failed |-> 0, locked |-> 0, enrolled |-> FALSE, secret |-> None, pending |-> None, tries |-> 0]]
  /\ \E holder \in [Sessions -> SignedIn \cup {None}] :
       /\ \A u \in SignedIn : \E s \in Sessions : \A x \in Sessions : holder[x] = u <=> x = s
       /\ sess = [s \in Sessions |-> IF holder[s] = None THEN None ELSE
            [user |-> holder[s], seen |-> 0, exp |-> SessionTtl, revoked |-> FALSE,
             mfaOk |-> TRUE, via |-> acct[holder[s]].hash.pw]]
  /\ req = [r \in Requests |-> Free]
  /\ now = 0 /\ raced = {} /\ confirmed = {}

Handle(r) ==
  \/ ReadForSignIn(r) \/ RefuseSignIn(r) \/ AcceptSignIn(r)
  \/ ReadSession(r) \/ IdleOut(r) \/ ReadCaller(r)
  \/ Logout(r) \/ ChangePassword(r) \/ TotpEnroll(r) \/ TotpVerify(r)
  \/ ReadTarget(r) \/ CreateUser(r) \/ UpdateUser(r) \/ SetPassword(r) \/ DisableUser(r)
  \/ Abort(r)

Next == Tick \/ \E r \in Requests : Handle(r)

Spec == Init /\ [][Next]_vars

----------------------------------------------------------------------------
(* What must hold. *)

\* A request at its commit holds a copy of a row, one past current_user's first
\* read holds a session, and each carries what its endpoint takes.
RequestOK(q) ==
  q.phase # "free" =>
    /\ q.op \in AllOps
    /\ q.phase \in {"idle", "identify"} => q.op # "login"
    /\ q.phase = "target" => q.op \in AdminOps
    /\ q.phase \in {"target", "commit"} => q.user \in Users
    /\ q.phase = "commit" => q.row \in Account
    /\ q.op # "login" => q.sess \in Sessions /\ sess[q.sess] # None
    /\ q.op \in AdminOps => q.arg.user \in Users
    /\ q.op \in {"change", "create", "reset"} => q.arg.new \in Passwords

\* Types of the rows and of the requests in flight.
TypeOK ==
  /\ acct \in [Users -> Account]
  /\ sess \in [Sessions -> Session \cup {None}]
  /\ req \in [Requests -> Request]
  /\ now \in Nat /\ raced \subseteq Sessions /\ confirmed \subseteq Secrets
  /\ \A r \in Requests : RequestOK(req[r])

Live(s) == sess[s] # None /\ ~sess[s].revoked

\* A live session was opened by, or has itself set, the account's current
\* password; the only exceptions are the sessions of a sign-in that read the
\* account before a password change and committed after it.  It is about every
\* caller of revoke_sessions: a path that changes a password and leaves an older
\* session alive breaks it.
StaleSessionsAreRaces ==
  \A s \in Sessions \ raced : Live(s) => sess[s].via = acct[sess[s].user].hash.pw

\* A disabled account holds no live session, with the same exception: whoever
\* disables an account ends its sessions, and none is opened on it afterwards.
DisabledSessionsAreRaces ==
  \A s \in Sessions \ raced : Live(s) => acct[sess[s].user].state # "disabled"

\* StaleSessionsAreRaces without the exception, which is what set_password and change_password
\* say: "The account's sessions are revoked", "every other session is signed out".
NoSessionOutlivesPassword ==
  \A s \in Sessions : Live(s) => sess[s].via = acct[sess[s].user].hash.pw

\* set_password: "by default the user must choose their own password at the next
\* sign-in".  A password an administrator set with that default stays marked.
TemporaryPasswordIsChanged ==
  \A u \in Users : acct[u].hash.temp => acct[u].must

\* The failure counter never reaches the threshold, also when handlers that read
\* it before each other's commits write it (_register_failure, SetPassword, login).
FailedBelowLimit == \A u \in Users : acct[u].failed < LockoutAttempts

\* What a request holds at its commit: a copy whose failure counter is below the
\* threshold, an account that exists, no disabled account for a sign-in, and for a
\* user's own endpoints the account of the session the request came with.
CopyOK(q) ==
  q.phase = "commit" =>
    /\ q.row.failed < LockoutAttempts
    /\ q.op # "create" => q.row.state # "absent" /\ acct[q.user].state # "absent"
    /\ q.op = "login" => q.row.state # "disabled"
    /\ q.op \in SelfOps => q.user = sess[q.sess].user

CopiesOK ==
  /\ \A r \in Requests : CopyOK(req[r])
  /\ \A s \in Sessions : sess[s] # None => acct[sess[s].user].state # "absent"

\* A session is gone for good once it is revoked, expired, or idle beyond the limit
\* with no request past current_user's idle check.
Admitted(s) == \E r \in Requests : req[r].sess = s /\ req[r].phase = "identify"
Dead(s) ==
  \/ sess[s].revoked
  \/ now > sess[s].exp
  \/ now - sess[s].seen > IdleLimit /\ ~Admitted(s)

life == [s \in Sessions |-> IF sess[s] = None THEN "none"
                            ELSE IF Dead(s) THEN "ended" ELSE "live"]
Lifecycle == INSTANCE SessionLife WITH Sessions <- Sessions, life <- life

\* The sessions table implements the one-way lifecycle of SessionLife: no
\* interleaving of touches, revocations and the clock brings a session back.
SessionsEndForGood == Lifecycle!Spec

\* The second factor in force is one the owner has shown a code of; starting an
\* enrolment never puts an unconfirmed secret in force (totp_enroll's docstring).
FactorConfirmed ==
  \A u \in Users : acct[u].enrolled => acct[u].secret \in confirmed

\* An enrolled account stays enrolled, with a secret, whatever commits of requests
\* that read the account before the enrolment come after it.
FactorStaysInForce ==
  [][\A u \in Users : acct[u].enrolled => acct'[u].enrolled /\ acct'[u].secret # None]_vars
====
