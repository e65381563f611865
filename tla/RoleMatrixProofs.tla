-------------------------- MODULE RoleMatrixProofs --------------------------
(* The role matrix, the last manager and the start-up: proofs for any        *)
(* accounts, roles, capabilities, requests in flight and restarts.           *)
EXTENDS RoleMatrix, TLAPS

Boots == {"admin", "print", "tenants", "sweep", "roles", "load", "serving"}
Words == {"none", "own", "temp", "committed", "unknown", "generated"}
User == [role : {"absent", "manager"} \cup Roles, disabled : BOOLEAN, pw : Words,
         must : BOOLEAN, live : SUBSET {"before", "since"}]
Matrix == [Roles -> {Unset} \cup SUBSET Capability]
Request == [pc : {"idle", "in", "row", "saved", "read", "commit"}, who : Accounts,
            target : Accounts, change : Changes \cup {"none"},
            dirty : SUBSET {"role", "disabled", "must", "capabilities"},
            caps : SUBSET Capability, read : Matrix]

TypeOK ==
  /\ boot \in Boots /\ rows \in Matrix /\ override \in Matrix
  /\ user \in [Accounts -> User] /\ req \in [Requests -> Request]
  /\ raced \in BOOLEAN /\ excuse \in BOOLEAN

\* Requests are served after the start only.
Quiet == boot # "serving" => \A q \in Requests : req[q] = Idle

\* An edit that has read the matrix read it as it is now, unless another one overtook it;
\* with no edit under way what was read last is in force.
Current ==
  (boot = "serving" /\ ~raced) =>
    /\ \A q \in Requests : req[q].pc = "read" => req[q].read = rows
    /\ (\A q \in Requests : ~InFlight(q)) => override = Clean(rows)

\* The matrix has a row for each role or none at all; it is whole from seed_roles on, and so
\* is whatever an edit has read of it.
Whole(matrix) == \A r \in Roles : matrix[r] # Unset
Seeded ==
  /\ Whole(rows) \/ \A r \in Roles : rows[r] = Unset
  /\ boot \in {"load", "serving"} => Whole(rows)
  /\ boot = "serving" => Whole(override)
  /\ \A q \in Requests : req[q].pc = "read" => Whole(req[q].read)

\* An account the sweep has been over, or that no leaked password was ever given.
Retired(u) == u.pw # "temp" /\ (u.pw = "committed" => u.must /\ "before" \notin u.live)
Clear ==
  /\ "sweep" \in marks => \A a \in Accounts : Retired(user[a])
  /\ boot \in {"roles", "load", "serving"} => "sweep" \in marks

\* A change about to be committed writes columns of its own, and is not one that nobody may
\* make to himself; an edit about to be committed is one of a role.
Refused == Resets \cup {"disable"}
Sound(r) ==
  /\ r.pc = "commit" => /\ r.change \in Changes /\ r.dirty \subseteq Columns(r.change)
                        /\ r.target = r.who => r.change \notin Refused
  /\ r.pc = "row" => r.change \in Roles
Polite == \A q \in Requests : Sound(req[q])

\* Somebody can manage the portal; or the first account is still to come, or its password
\* still to be printed.
Managed ==
  ~excuse =>
    \/ \E a \in Accounts : Able(a)
    \/ boot = "admin" /\ \A a \in Accounts : user[a].role = "absent"
    \/ boot = "print" /\ user[First].role = "manager" /\ ~user[First].disabled

IInv == TypeOK /\ Quiet /\ Current /\ Seeded /\ Clear /\ Polite /\ Managed

----------------------------------------------------------------------------
(* The operators. *)

LEMMA RowIsSet == ASSUME NEW x \in SUBSET Capability PROVE x # Unset
  BY RoleAssumption DEF Unset

LEMMA DefaultIsWhole == Default \in Matrix /\ Whole(Default)
<1>1. ASSUME NEW r \in Roles PROVE Default[r] \in SUBSET Capability
  BY RoleAssumption DEF Capability
<1> QED
  BY <1>1, RowIsSet, RoleAssumption DEF Matrix, Whole

LEMMA EmptyIsMatrix == NoRows \in Matrix /\ \A r \in Roles : NoRows[r] = Unset
  BY DEF NoRows, Matrix

\* set_override leaves no role out that has a row.
LEMMA CleanKeepsRows ==
  ASSUME NEW matrix \in Matrix
  PROVE  Clean(matrix) \in Matrix /\ (Whole(matrix) => Whole(Clean(matrix)))
<1>1. ASSUME NEW r \in Roles, matrix[r] # Unset
      PROVE  matrix[r] \cap RoleCaps \in SUBSET Capability
  BY <1>1 DEF Capability
<1> QED
  BY <1>1, RowIsSet DEF Clean, Matrix, Whole

LEMMA IdleType == First \in Accounts /\ Idle \in Request /\ Idle.pc = "idle"
  BY RoleAssumption, EmptyIsMatrix DEF Idle, Request

LEMMA ChangesDiffer ==
  /\ "restore" \notin Resets \cup Roles /\ "disable" \notin Resets \cup Roles
  /\ Resets \cap Roles = {}
  BY RoleAssumption DEF Resets

\* A change of an account leaves a row, and brings no leaked password back: what it
\* changes of a password or a session is a new password and no session.
LEMMA WrittenType ==
  ASSUME NEW u \in User, NEW change \in Changes, NEW dirty \in SUBSET Columns(change)
  PROVE  LET v == Written(change, dirty, u) IN v \in User /\ (Retired(u) => Retired(v))
<1> DEFINE v == Written(change, dirty, u)
<1>1. v.role \in {"absent", "manager"} \cup Roles
  <2>1. u.role \in {"absent", "manager"} \cup Roles
    BY DEF User
  <2>2. "role" \in dirty => change = "restore" \/ change \in Roles
    BY ChangesDiffer DEF Columns, Changes, Resets
  <2> QED
    BY <2>1, <2>2 DEF Written
<1>2. v.disabled \in BOOLEAN /\ v.must \in BOOLEAN
  BY DEF Written, User
<1>3. v.pw \in Words /\ v.live \in SUBSET {"before", "since"}
  BY DEF Written, User, Words
<1>4. v \in User
  <2>1. v = [role |-> v.role, disabled |-> v.disabled, pw |-> v.pw, must |-> v.must, live |-> v.live]
    BY DEF Written
  <2> HIDE DEF v
  <2> QED
    BY <1>1, <1>2, <1>3, <2>1 DEF User
<1>5. ASSUME Retired(u) PROVE Retired(v)
  <2>1. CASE change \in Resets
    BY <2>1 DEF Written, Retired
  <2>2. CASE change \notin Resets
    <3>1. v.pw = u.pw /\ v.live \subseteq u.live /\ v.must = u.must
      <4>1. "must" \notin dirty
        BY <2>2 DEF Columns
      <4> QED
        BY <2>2, <4>1 DEF Written
    <3> QED
      BY <1>5, <3>1 DEF Retired
  <2> QED
    BY <2>1, <2>2
<1> QED
  BY <1>4, <1>5

\* What a manager does to himself, when it is none of the changes refused and does not
\* change his role, leaves him able.
LEMMA WrittenAble ==
  ASSUME NEW u \in User, NEW change \in Changes, NEW dirty \in SUBSET Columns(change),
         change \notin Refused, ~(change \in Roles /\ dirty # {}),
         u.role = "manager", ~u.disabled
  PROVE  LET v == Written(change, dirty, u) IN v.role = "manager" /\ ~v.disabled /\ v.pw = u.pw
<1>1. CASE change = "restore"
  BY <1>1, ChangesDiffer DEF Written
<1>2. CASE dirty = {}
  BY <1>2 DEF Written, Refused
<1> QED
  BY <1>1, <1>2 DEF Changes, Refused

----------------------------------------------------------------------------
(* The start. *)

LEMMA InitHolds == Init => IInv
<1> SUFFICES ASSUME Init PROVE IInv
  OBVIOUS
<1>1. TypeOK
  <2>1. Absent \in User
    BY DEF Absent, User, Words
  <2>2. [role : {"manager"} \cup Roles, disabled : {FALSE}, pw : {"own", "temp", "committed"},
         must : {FALSE}, live : {{"before"}}] \subseteq User
    <3>1. {"before"} \in SUBSET {"before", "since"}
      OBVIOUS
    <3> QED
      BY <3>1 DEF User, Words
  <2>3. user \in [Accounts -> User]
    BY <2>1, <2>2 DEF Init, OldUsers
  <2> QED
    BY <2>3, EmptyIsMatrix, IdleType DEF Init, TypeOK, Boots
<1>2. Quiet /\ Current /\ Clear
  BY DEF Init, Quiet, Current, Clear
<1>3. Seeded /\ Polite
  BY EmptyIsMatrix, IdleType DEF Init, Seeded, Polite, Sound
<1>4. Managed
  BY DEF Init, Managed, Absent
<1> QED
  BY <1>1, <1>2, <1>3, <1>4 DEF IInv

\* While the process starts no request is under way, so what it does to the tables is all
\* there is to look at.
LEMMA StartsQuietly ==
  ASSUME IInv, Starts,
         boot' \in Boots, rows' \in Matrix, override' \in Matrix, user' \in [Accounts -> User],
         excuse' \in BOOLEAN, Seeded', Clear', Managed',
         boot' = "serving" => override' = Clean(rows')
  PROVE  IInv'
<1>1. boot # "serving" /\ UNCHANGED <<req, raced>>
  BY DEF Starts, SeedAdmin, PrintPassword, SeedTenants, Sweep, SeedRoles, LoadAtStart, Booting
<1>2. \A q \in Requests : req'[q] = Idle
  BY <1>1 DEF IInv, Quiet
<1>3. Quiet' /\ Polite' /\ Current'
  BY <1>2, IdleType DEF Quiet, Polite, Sound, Current
<1>4. TypeOK'
  BY <1>1 DEF IInv, TypeOK
<1> QED
  BY <1>3, <1>4 DEF IInv

LEMMA StartStep ==
  ASSUME IInv, Starts
  PROVE  IInv'
<1> USE DEF Booting
<1>0. TypeOK /\ Seeded /\ Clear /\ Managed /\ First \in Accounts
  BY IdleType DEF IInv
<1>1. boot # "serving" /\ \A q \in Requests : req'[q].pc # "read"
  <2>1. boot # "serving" /\ UNCHANGED req
    BY DEF Starts, SeedAdmin, PrintPassword, SeedTenants, Sweep, SeedRoles, LoadAtStart
  <2> QED
    BY <2>1, IdleType DEF IInv, Quiet
<1>2. CASE SeedAdmin
  <2> DEFINE some == \E a \in Accounts : user[a].role # "absent"
  <2>1. CASE some
    <3>1. boot' = "tenants" /\ UNCHANGED <<user, rows, override, marks, excuse>> /\ boot = "admin"
      BY <1>2, <2>1 DEF SeedAdmin
    <3>2. Seeded' /\ Clear'
      BY <1>0, <1>1, <3>1 DEF Seeded, Clear
    <3>3. Managed'
      BY <1>0, <2>1, <3>1 DEF Managed, Able, CanSignIn
    <3> QED
      BY <1>0, <3>1, <3>2, <3>3, StartsQuietly DEF TypeOK, Boots
  <2>2. CASE ~some
    <3>1. PICK generated \in BOOLEAN :
            /\ user' = [user EXCEPT ![First] = [Absent EXCEPT !.role = "manager", !.must = generated,
                                                 !.pw = IF generated THEN "unknown" ELSE "own"]]
            /\ boot' = IF generated THEN "print" ELSE "tenants"
      BY <1>2, <2>2 DEF SeedAdmin
    <3> DEFINE new == [Absent EXCEPT !.role = "manager", !.must = generated,
                                     !.pw = IF generated THEN "unknown" ELSE "own"]
    <3>2. Absent \in User /\ ~Absent.disabled
      BY DEF Absent, User, Words
    <3>3. new \in User /\ new.role = "manager" /\ ~new.disabled /\ Retired(new)
          /\ (~generated => new.pw = "own")
      BY <3>2 DEF User, Words, Retired
    <3> HIDE DEF new
    <3>4. user' \in [Accounts -> User] /\ user'[First] = new /\ UNCHANGED <<rows, override, marks, excuse>>
      BY <1>0, <1>2, <3>1, <3>3 DEF TypeOK, SeedAdmin, new
    <3>5. \A a \in Accounts : user'[a] \in {user[a], new}
      BY <1>0, <3>1 DEF TypeOK, new
    <3>6. Seeded' /\ Clear'
      BY <1>0, <1>1, <3>1, <3>3, <3>4, <3>5 DEF Seeded, Clear
    <3>7. Managed'
      BY <1>0, <3>1, <3>3, <3>4 DEF Managed, Able, CanSignIn
    <3> QED
      BY <1>0, <3>1, <3>4, <3>6, <3>7, StartsQuietly DEF TypeOK, Boots
  <2> QED
    BY <2>1, <2>2
<1>3. CASE PrintPassword
  <2>1. /\ boot = "print" /\ boot' = "tenants" /\ UNCHANGED <<rows, override, marks, excuse>>
        /\ user' = [user EXCEPT ![First].pw = "generated"]
    BY <1>3 DEF PrintPassword
  <2>2. /\ user' \in [Accounts -> User]
        /\ user'[First].role = user[First].role /\ user'[First].disabled = user[First].disabled
        /\ user'[First].pw = "generated" /\ \A a \in Accounts \ {First} : user'[a] = user[a]
    BY <1>0, <2>1 DEF TypeOK, User, Words
  <2>3. Seeded' /\ Clear'
    BY <1>0, <1>1, <2>1, <2>2 DEF Seeded, Clear, Retired
  <2>4. Managed'
    BY <1>0, <2>1, <2>2 DEF Managed, Able, CanSignIn
  <2> QED
    BY <1>0, <2>1, <2>2, <2>3, <2>4, StartsQuietly DEF TypeOK, Boots
<1>4. CASE SeedTenants
  <2>1. boot = "tenants" /\ boot' = "sweep" /\ UNCHANGED <<user, rows, override, excuse>>
    BY <1>4 DEF SeedTenants
  <2>2. "sweep" \in marks' <=> "sweep" \in marks
    BY <1>4 DEF SeedTenants
  <2>3. Seeded' /\ Clear'
    BY <1>0, <1>1, <2>1, <2>2 DEF Seeded, Clear
  <2>4. Managed'
    BY <1>0, <2>1 DEF Managed, Able, CanSignIn
  <2> QED
    BY <1>0, <2>1, <2>3, <2>4, StartsQuietly DEF TypeOK, Boots
<1>5. CASE Sweep
  <2>1. boot = "sweep" /\ boot' = "roles" /\ UNCHANGED <<rows, override>> /\ "sweep" \in marks'
    BY <1>5 DEF Sweep
  <2>2. CASE "sweep" \in marks
    <3>1. UNCHANGED <<user, excuse>>
      BY <1>5, <2>2 DEF Sweep
    <3> QED
      BY <1>0, <1>1, <2>1, <2>2, <3>1, StartsQuietly
         DEF TypeOK, Boots, Seeded, Clear, Managed, Able, CanSignIn
  <2>3. CASE "sweep" \notin marks
    <3>1. /\ user' = [a \in Accounts |-> Swept(user[a])]
          /\ excuse' = (excuse \/ \E a \in Accounts : user[a].pw = "temp")
      BY <1>5, <2>3 DEF Sweep
    <3>2. ASSUME NEW u \in User
          PROVE  /\ Swept(u) \in User /\ Retired(Swept(u))
                 /\ u.pw # "temp" => Swept(u).pw = u.pw /\ Swept(u).role = u.role
                                     /\ Swept(u).disabled = u.disabled
      <4>1. CASE u.pw = "temp"
        <5>1. [u EXCEPT !.pw = "none", !.must = TRUE, !.live = {}] \in User
          BY DEF User, Words
        <5> QED
          BY <4>1, <5>1 DEF Swept, User, Retired
      <4>2. CASE u.pw = "committed"
        <5>1. [u EXCEPT !.must = TRUE, !.live = {}] \in User
          BY DEF User
        <5> QED
          BY <4>2, <5>1 DEF Swept, User, Retired
      <4>3. CASE u.pw \notin {"temp", "committed"}
        BY <4>3 DEF Swept, Retired
      <4> QED
        BY <4>1, <4>2, <4>3
    <3>3. user' \in [Accounts -> User] /\ excuse' \in BOOLEAN /\ \A a \in Accounts : Retired(user'[a])
      BY <1>0, <3>1, <3>2 DEF TypeOK
    <3>4. Managed'
      <4>1. ASSUME NEW a \in Accounts, Able(a), user[a].pw # "temp" PROVE Able(a)'
        BY <1>0, <3>1, <3>2, <4>1 DEF TypeOK, Able, CanSignIn
      <4> QED
        BY <1>0, <2>1, <3>1, <4>1 DEF Managed
    <3> QED
      BY <1>0, <1>1, <2>1, <3>3, <3>4, StartsQuietly DEF TypeOK, Boots, Seeded, Clear
  <2> QED
    BY <2>2, <2>3
<1>6. CASE SeedRoles
  <2>1. /\ boot = "roles" /\ boot' = "load" /\ UNCHANGED <<override, user, marks, excuse>>
        /\ rows' = IF \E r \in Roles : rows[r] # Unset THEN rows ELSE Default
    BY <1>6 DEF SeedRoles
  <2>2. rows' \in Matrix /\ Whole(rows')
    BY <1>0, <2>1, DefaultIsWhole DEF TypeOK, Seeded, Whole
  <2>3. Seeded'
    BY <1>0, <1>1, <2>1, <2>2 DEF Seeded
  <2>4. Clear' /\ Managed'
    BY <1>0, <2>1 DEF Clear, Managed, Able, CanSignIn
  <2> QED
    BY <1>0, <2>1, <2>2, <2>3, <2>4, StartsQuietly DEF TypeOK, Boots
<1>7. CASE LoadAtStart
  <2>1. /\ boot = "load" /\ boot' = "serving" /\ override' = Clean(rows)
        /\ UNCHANGED <<rows, user, marks, excuse>>
    BY <1>7 DEF LoadAtStart
  <2>2. override' \in Matrix /\ Whole(override')
    BY <1>0, <2>1, CleanKeepsRows DEF TypeOK, Seeded
  <2>3. Seeded'
    BY <1>0, <1>1, <2>1, <2>2 DEF Seeded
  <2>4. Clear' /\ Managed'
    BY <1>0, <2>1 DEF Clear, Managed, Able, CanSignIn
  <2>5. override' = Clean(rows')
    BY <2>1 DEF Clean
  <2> QED
    BY <1>0, <2>1, <2>2, <2>3, <2>4, <2>5, StartsQuietly DEF TypeOK, Boots
<1> QED
  BY <1>2, <1>3, <1>4, <1>5, <1>6, <1>7 DEF Starts

----------------------------------------------------------------------------
(* The requests. *)

\* A request that moves on and touches no table: it still has the rows as they are if it
\* has read them, and is still under way if it was.
LEMMA RequestStep ==
  ASSUME IInv, boot = "serving", NEW q \in Requests, NEW r \in Request,
         req' = [req EXCEPT ![q] = r],
         UNCHANGED <<stored, boot, override, restarts, raced, excuse>>,
         r.pc = "read" => r.read = rows,
         InFlight(q) => r.pc \in {"saved", "read"},
         Sound(r)
  PROVE  IInv'
<1>1. /\ req' \in [Requests -> Request] /\ req'[q] = r
      /\ \A p \in Requests \ {q} : req'[p] = req[p]
  BY DEF IInv, TypeOK
<1>2. TypeOK'
  BY <1>1 DEF IInv, TypeOK, stored
<1>3. Quiet' /\ Clear' /\ Managed'
  BY DEF IInv, Quiet, Clear, Managed, Able, CanSignIn, stored
<1>4. Seeded' /\ Polite'
  BY <1>1 DEF IInv, Seeded, Polite, stored
<1>5. Current'
  <2> SUFFICES ASSUME ~raced
               PROVE  /\ \A p \in Requests : req'[p].pc = "read" => req'[p].read = rows
                      /\ (\A p \in Requests : ~InFlight(p)') => override = Clean(rows)
    BY DEF Current, Clean, stored
  <2> QED
    BY <1>1 DEF IInv, Current, InFlight
<1> QED
  BY <1>2, <1>3, <1>4, <1>5 DEF IInv

\* Who has a request under way is served.
LEMMA Serving == ASSUME IInv, NEW q \in Requests, req[q].pc # "idle" PROVE boot = "serving"
  BY IdleType DEF IInv, Quiet

LEMMA EnterStep ==
  ASSUME IInv, NEW q \in Requests, NEW a \in Accounts, Enter(q, a)
  PROVE  IInv'
<1> DEFINE r == [Idle EXCEPT !.pc = "in", !.who = a]
<1>1. r \in Request /\ r.pc = "in" /\ Sound(r)
  BY IdleType DEF Request, Sound
<1> HIDE DEF r
<1>2. req' = [req EXCEPT ![q] = r] /\ boot = "serving" /\ ~InFlight(q)
  BY DEF Enter, InFlight, r
<1> QED
  BY <1>1, <1>2, RequestStep DEF Enter

LEMMA ReadMatrixStep ==
  ASSUME IInv, NEW q \in Requests, ReadMatrix(q)
  PROVE  IInv'
<1> DEFINE r == [req[q] EXCEPT !.pc = "read", !.read = rows]
<1>1. req[q] \in Request /\ rows \in Matrix
  BY DEF IInv, TypeOK
<1>2. r \in Request /\ r.pc = "read" /\ r.read = rows /\ Sound(r)
  BY <1>1 DEF Request, Sound
<1>3. req' = [req EXCEPT ![q] = r]
  BY DEF ReadMatrix, IInv, TypeOK
<1> HIDE DEF r
<1> QED
  BY <1>2, <1>3, Serving, RequestStep DEF ReadMatrix

LEMMA LoadTargetStep ==
  ASSUME IInv, NEW q \in Requests, NEW t \in Accounts, NEW change \in Changes,
         LoadTarget(q, t, change)
  PROVE  IInv'
<1> DEFINE dirty == Dirty(change, user[t])
           r == [req[q] EXCEPT !.pc = "commit", !.target = t, !.change = change, !.dirty = dirty]
<1>1. boot = "serving" /\ ~InFlight(q)
  BY Serving DEF LoadTarget, InFlight
<1>2. CASE t = req[q].who /\ change \in Refused
  <2>1. req' = [req EXCEPT ![q] = Idle] /\ Sound(Idle)
    BY <1>2, IdleType DEF LoadTarget, Refused, Sound
  <2> QED
    BY <1>1, <2>1, IdleType, RequestStep DEF LoadTarget
<1>3. CASE ~(t = req[q].who /\ change \in Refused)
  <2>1. req[q] \in Request /\ dirty \subseteq Columns(change)
    BY DEF IInv, TypeOK, Dirty
  <2>2. Columns(change) \subseteq {"role", "disabled", "must"}
    BY DEF Columns
  <2>3. req' = [req EXCEPT ![q] = r]
    BY <1>3 DEF LoadTarget, IInv, TypeOK, Refused
  <2> HIDE DEF dirty
  <2>4. /\ r \in Request /\ r.pc = "commit" /\ r.target = t /\ r.who = req[q].who
        /\ r.change = change /\ r.dirty = dirty
    BY <2>1, <2>2 DEF Request
  <2> HIDE DEF r
  <2>5. Sound(r)
    BY <1>3, <2>1, <2>4 DEF Sound
  <2> QED
    BY <1>1, <2>3, <2>4, <2>5, RequestStep DEF LoadTarget
<1> QED
  BY <1>2, <1>3

LEMMA SelectRowStep ==
  ASSUME IInv, NEW q \in Requests, NEW r \in Roles, NEW caps \in SUBSET Capability,
         SelectRow(q, r, caps)
  PROVE  IInv'
<1> DEFINE wanted == caps \ (Grantable \cup ManagerOnly)
           dirty == IF rows[r] = wanted THEN {} ELSE {"capabilities"}
           s == [Idle EXCEPT !.pc = "row", !.change = r, !.caps = wanted, !.dirty = dirty]
<1>1. boot = "serving" /\ ~InFlight(q)
  BY Serving DEF SelectRow, InFlight
<1>2. req' = [req EXCEPT ![q] = s]
  BY DEF SelectRow
<1>3. wanted \in SUBSET Capability /\ dirty \in SUBSET {"capabilities"} /\ r \in Changes
  BY DEF Changes
<1> HIDE DEF wanted, dirty
<1>4. s \in Request /\ s.pc = "row" /\ s.change = r
  BY <1>3, IdleType DEF Request
<1> HIDE DEF s
<1>5. Sound(s)
  BY <1>4 DEF Sound
<1> QED
  BY <1>1, <1>2, <1>4, <1>5, RequestStep DEF SelectRow

\* An edit: nobody else is between its read and its load, or raced records it.
LEMMA CommitRowStep ==
  ASSUME IInv, NEW q \in Requests, CommitRow(q)
  PROVE  IInv'
<1> DEFINE r == req[q].change
           row == req[q].caps
           saved == [Idle EXCEPT !.pc = "saved"]
<1>1. boot = "serving" /\ UNCHANGED <<user, tenants, marks, boot, override, excuse>>
  BY Serving DEF CommitRow
<1>2. saved \in Request /\ saved.pc = "saved" /\ Sound(saved)
  BY IdleType DEF Request, Sound
<1> HIDE DEF saved
<1>3. /\ req' \in [Requests -> Request] /\ req'[q] = saved
      /\ \A p \in Requests \ {q} : req'[p] = req[p]
  BY <1>2 DEF CommitRow, IInv, TypeOK, saved
<1>4. row \in SUBSET Capability /\ row # Unset /\ r \in Roles
  <2>1. row \in SUBSET Capability
    BY DEF IInv, TypeOK, Request
  <2>2. r \in Roles
    BY DEF CommitRow, IInv, Polite, Sound
  <2> QED
    BY <2>1, <2>2, RowIsSet
<1>5. rows' \in {rows, [rows EXCEPT ![r] = row]}
  BY DEF CommitRow
<1> HIDE DEF row, r
<1>6. rows' \in Matrix /\ (Whole(rows) => Whole(rows')) /\ (Whole(rows') \/ rows' = rows \/ boot # "serving")
  <2>1. rows \in Matrix /\ (boot = "serving" => Whole(rows))
    BY DEF IInv, TypeOK, Seeded
  <2> QED
    BY <1>4, <1>5, <2>1 DEF Matrix, Whole
<1>7. /\ raced' \in BOOLEAN
      /\ ~raced' => \A p \in Requests \ {q} : (req[p].pc = "read" => rows' = rows) /\ (~raced \/ ~InFlight(p))
  BY DEF CommitRow
<1>8. TypeOK' /\ Quiet'
  BY <1>1, <1>3, <1>6, <1>7 DEF IInv, TypeOK, Quiet
<1>9. Current'
  <2> SUFFICES ASSUME ~raced'
               PROVE  /\ \A p \in Requests : req'[p].pc = "read" => req'[p].read = rows'
                      /\ ~ \A p \in Requests : ~InFlight(p)'
    BY DEF Current
  <2>1. ASSUME NEW p \in Requests, req'[p].pc = "read" PROVE req'[p].read = rows'
    <3>1. p # q /\ req'[p] = req[p]
      BY <1>2, <1>3, <2>1
    <3>2. rows' = rows /\ ~raced
      BY <1>7, <2>1, <3>1 DEF InFlight
    <3> QED
      BY <1>1, <2>1, <3>1, <3>2 DEF IInv, Current
  <2> QED
    BY <1>2, <1>3, <2>1 DEF InFlight
<1>10. Seeded' /\ Clear' /\ Polite'
  <2>1. Seeded'
    BY <1>1, <1>2, <1>3, <1>6 DEF IInv, Seeded
  <2> QED
    BY <1>1, <1>2, <1>3, <2>1 DEF IInv, Clear, Polite
<1>11. Managed'
  BY <1>1 DEF IInv, Managed, Able, CanSignIn
<1> QED
  BY <1>8, <1>9, <1>10, <1>11 DEF IInv

\* The load: what was read is the rows as they are, unless raced.
LEMMA SetOverrideStep ==
  ASSUME IInv, NEW q \in Requests, SetOverride(q)
  PROVE  IInv'
<1>1. boot = "serving" /\ UNCHANGED <<stored, boot, raced, excuse>>
  BY Serving DEF SetOverride
<1>2. /\ req' \in [Requests -> Request] /\ req'[q].pc = "idle" /\ Sound(req'[q])
      /\ \A p \in Requests \ {q} : req'[p] = req[p]
  BY IdleType DEF SetOverride, IInv, TypeOK, Sound
<1>3. req[q].read \in Matrix /\ Whole(req[q].read) /\ override' = Clean(req[q].read)
  BY DEF SetOverride, IInv, TypeOK, Request, Seeded
<1>4. override' \in Matrix /\ Whole(override')
  BY <1>3, CleanKeepsRows
<1>5. TypeOK' /\ Quiet'
  BY <1>1, <1>2, <1>4 DEF IInv, TypeOK, Quiet, stored
<1>6. Current'
  <2> SUFFICES ASSUME ~raced
               PROVE  /\ \A p \in Requests : req'[p].pc = "read" => req'[p].read = rows
                      /\ override' = Clean(rows)
    BY <1>1 DEF Current, Clean, stored
  <2>1. \A p \in Requests : req[p].pc = "read" => req[p].read = rows
    BY <1>1 DEF IInv, Current
  <2> QED
    BY <1>2, <1>3, <2>1 DEF SetOverride
<1>7. Seeded' /\ Clear' /\ Polite'
  BY <1>1, <1>2, <1>4 DEF IInv, Seeded, Clear, Polite, stored
<1>8. Managed'
  BY <1>1 DEF IInv, Managed, Able, CanSignIn, stored
<1> QED
  BY <1>5, <1>6, <1>7, <1>8 DEF IInv

\* A change of an account: a caller who is still able keeps being so, for it is either
\* somebody else's account or one of the changes he may make to his own.
LEMMA CommitTargetStep ==
  ASSUME IInv, NEW q \in Requests, CommitTarget(q)
  PROVE  IInv'
<1> DEFINE t == req[q].target
           who == req[q].who
           change == req[q].change
           dirty == req[q].dirty
<1>1. /\ boot = "serving" /\ UNCHANGED <<rows, tenants, marks, boot, override, raced>>
      /\ req[q].pc = "commit" /\ user' = [user EXCEPT ![t] = Written(change, dirty, @)]
      /\ excuse' = (excuse \/ (t = who /\ change \in Roles /\ dirty # {}) \/ ~Able(who))
  BY Serving DEF CommitTarget
<1>2. /\ req' \in [Requests -> Request] /\ req'[q].pc = "idle" /\ Sound(req'[q])
      /\ \A p \in Requests \ {q} : req'[p] = req[p]
  BY IdleType DEF CommitTarget, IInv, TypeOK, Sound
<1>3. t \in Accounts /\ who \in Accounts /\ user[t] \in User
  BY DEF IInv, TypeOK, Request
<1>4. change \in Changes /\ dirty \in SUBSET Columns(change) /\ (t = who => change \notin Refused)
  BY <1>1 DEF IInv, Polite, Sound
<1> HIDE DEF t, who, change, dirty
<1>5. /\ user'[t] = Written(change, dirty, user[t]) /\ \A a \in Accounts \ {t} : user'[a] = user[a]
      /\ user' \in [Accounts -> User]
  BY <1>1, <1>3, <1>4, WrittenType DEF IInv, TypeOK
<1>6. TypeOK' /\ Quiet'
  BY <1>1, <1>2, <1>5 DEF IInv, TypeOK, Quiet
<1>7. Current'
  <2> SUFFICES ASSUME ~raced
               PROVE  /\ \A p \in Requests : req'[p].pc = "read" => req'[p].read = rows
                      /\ (\A p \in Requests : ~InFlight(p)') => override = Clean(rows)
    BY <1>1 DEF Current, Clean
  <2> QED
    BY <1>1, <1>2 DEF IInv, Current, InFlight
<1>8. Seeded' /\ Polite'
  BY <1>1, <1>2 DEF IInv, Seeded, Polite
<1>9. Clear'
  <2>1. Retired(user[t]) => Retired(user'[t])
    BY <1>3, <1>4, <1>5, WrittenType
  <2> QED
    BY <1>1, <1>3, <1>5, <2>1 DEF IInv, Clear
<1>10. Managed'
  <2> PICK a \in Accounts : a = who
    BY <1>3
  <2> SUFFICES ASSUME ~excuse' PROVE Able(a)'
    BY DEF Managed
  <2>1. Able(who) /\ ~(t = who /\ change \in Roles /\ dirty # {})
    BY <1>1
  <2>2. CASE t # who
    BY <1>3, <1>5, <2>1, <2>2 DEF Able, CanSignIn
  <2>3. CASE t = who
    BY <1>3, <1>4, <1>5, <2>1, <2>3, WrittenAble DEF Able, CanSignIn
  <2> QED
    BY <2>2, <2>3
<1> QED
  BY <1>6, <1>7, <1>8, <1>9, <1>10 DEF IInv

\* A step of one account that touches its password, its mark and its sessions: a new
\* session of an account that may still have a leaked password is since the sweep.
LEMMA AccountStep ==
  ASSUME IInv, boot = "serving", NEW a \in Accounts, NEW u \in User, user' = [user EXCEPT ![a] = u],
         UNCHANGED <<rows, tenants, marks, boot, override, req, restarts, raced, excuse>>,
         Retired(u), u.role = user[a].role, u.disabled = user[a].disabled,
         u.pw \in {user[a].pw, "own"}
  PROVE  IInv'
<1>1. /\ user' \in [Accounts -> User] /\ \A b \in Accounts \ {a} : user'[b] = user[b]
      /\ user'[a] = u
  BY DEF IInv, TypeOK
<1>2. TypeOK' /\ Quiet' /\ Polite'
  BY <1>1 DEF IInv, TypeOK, Quiet, Polite
<1>3. Seeded' /\ Current'
  BY DEF IInv, Seeded, Current, Clean, InFlight
<1>4. Clear'
  BY <1>1 DEF IInv, Clear
<1>5. Managed'
  BY <1>1 DEF IInv, Managed, Able, CanSignIn
<1> QED
  BY <1>2, <1>3, <1>4, <1>5 DEF IInv

LEMMA SessionStep ==
  ASSUME IInv, NEW a \in Accounts, SignIn(a) \/ SessionsEnd(a) \/ OwnPassword(a)
  PROVE  IInv'
<1>1. boot = "serving" /\ user[a] \in User /\ Retired(user[a]) /\ "sweep" \in marks
  BY DEF SignIn, SessionsEnd, OwnPassword, IInv, TypeOK, Clear
<1>2. ASSUME NEW live \in SUBSET {"before", "since"}, Sessions(a, live),
             "before" \in live => "before" \in user[a].live
      PROVE  IInv'
  <2> DEFINE u == [user[a] EXCEPT !.live = live]
  <2>1. /\ u \in User /\ Retired(u) /\ u.role = user[a].role /\ u.disabled = user[a].disabled
        /\ u.pw = user[a].pw
    BY <1>1, <1>2 DEF User, Retired
  <2>2. user' = [user EXCEPT ![a] = u]
    BY <1>2 DEF Sessions, IInv, TypeOK
  <2> HIDE DEF u
  <2> QED
    BY <1>1, <1>2, <2>1, <2>2, AccountStep DEF Sessions
<1>3. CASE SignIn(a)
  <2>1. Sessions(a, user[a].live \cup {"since"})
    BY <1>1, <1>3 DEF SignIn
  <2>2. user[a].live \cup {"since"} \in SUBSET {"before", "since"}
    BY <1>1 DEF User
  <2> QED
    BY <1>2, <2>1, <2>2
<1>4. CASE SessionsEnd(a)
  <2>1. PICK some \in SUBSET user[a].live : Sessions(a, some)
    BY <1>4 DEF SessionsEnd
  <2> QED
    BY <1>1, <1>2, <2>1 DEF User
<1>5. CASE OwnPassword(a)
  <2>1. PICK own \in user[a].live :
          user' = [user EXCEPT ![a].pw = "own", ![a].must = FALSE, ![a].live = {own}]
    BY <1>5 DEF OwnPassword
  <2> DEFINE u == [user[a] EXCEPT !.pw = "own", !.must = FALSE, !.live = {own}]
  <2>2. /\ u \in User /\ Retired(u) /\ u.role = user[a].role /\ u.disabled = user[a].disabled
        /\ u.pw = "own"
    BY <1>1 DEF User, Words, Retired
  <2>3. user' = [user EXCEPT ![a] = u]
    BY <2>1 DEF IInv, TypeOK
  <2> HIDE DEF u
  <2> QED
    BY <1>1, <1>5, <2>2, <2>3, AccountStep DEF OwnPassword
<1> QED
  BY <1>3, <1>4, <1>5

\* A restart keeps what was committed and drops the rest.
LEMMA RestartStep ==
  ASSUME IInv, Restart
  PROVE  IInv'
<1>1. /\ UNCHANGED stored /\ boot' = "admin" /\ override' = NoRows
      /\ (\A q \in Requests : req'[q] = Idle) /\ excuse' = (excuse \/ boot = "print")
      /\ req' \in [Requests -> Request] /\ raced' = FALSE
  BY IdleType DEF Restart
<1>2. TypeOK' /\ Quiet'
  BY <1>1, EmptyIsMatrix DEF IInv, TypeOK, Quiet, Boots, stored
<1>3. Current' /\ Seeded' /\ Polite'
  BY <1>1, IdleType DEF IInv, Current, Seeded, Polite, Sound, stored
<1>4. Clear' /\ Managed'
  BY <1>1 DEF IInv, Clear, Managed, Able, CanSignIn, stored
<1> QED
  BY <1>2, <1>3, <1>4 DEF IInv

LEMMA NextStep == IInv /\ [Next]_vars => IInv'
<1> SUFFICES ASSUME IInv, [Next]_vars PROVE IInv'
  OBVIOUS
<1>1. CASE Starts
  BY <1>1, StartStep
<1>2. ASSUME NEW q \in Requests, NEW a \in Accounts, Enter(q, a) PROVE IInv'
  BY <1>2, EnterStep
<1>3. ASSUME NEW q \in Requests, NEW r \in Roles, NEW caps \in SUBSET Capability, SelectRow(q, r, caps)
      PROVE  IInv'
  BY <1>3, SelectRowStep
<1>4. ASSUME NEW q \in Requests, CommitRow(q) \/ ReadMatrix(q) \/ SetOverride(q) \/ CommitTarget(q)
      PROVE  IInv'
  BY <1>4, CommitRowStep, ReadMatrixStep, SetOverrideStep, CommitTargetStep
<1>5. ASSUME NEW q \in Requests, NEW t \in Accounts, NEW change \in Changes, LoadTarget(q, t, change)
      PROVE  IInv'
  BY <1>5, LoadTargetStep
<1>6. ASSUME NEW a \in Accounts, SignIn(a) \/ SessionsEnd(a) \/ OwnPassword(a) PROVE IInv'
  BY <1>6, SessionStep
<1>7. CASE Restart
  BY <1>7, RestartStep
<1>8. CASE ClearTenants \/ UNCHANGED vars
  <2>1. UNCHANGED <<boot, rows, override, user, marks, req, raced, excuse>>
    BY <1>8 DEF ClearTenants, vars
  <2>2. (TypeOK /\ Quiet /\ Seeded /\ Clear /\ Polite)' /\ Managed'
    BY <2>1 DEF IInv, TypeOK, Quiet, Seeded, Clear, Polite, Managed, Able, CanSignIn
  <2>3. Current'
    BY <2>1 DEF IInv, Current, Clean, InFlight
  <2> QED
    BY <2>2, <2>3 DEF IInv
<1> QED
  BY <1>1, <1>2, <1>3, <1>4, <1>5, <1>6, <1>7, <1>8 DEF Next

----------------------------------------------------------------------------
(* What is proved. *)

LEMMA Invariant == Spec => []IInv
<1>1. Init => IInv
  BY InitHolds
<1>2. IInv /\ [Next]_vars => IInv'
  BY NextStep
<1> QED
  BY <1>1, <1>2, PTL DEF Spec

\* With no edit under way and none that another one overtook, the capabilities in force
\* are those of the last rows committed (admin_roles.set_role, roles_store.load_override).
THEOREM MatrixCurrent == Spec => []MatrixIsCurrent
<1>1. IInv => MatrixIsCurrent
  BY DEF IInv, Current, MatrixIsCurrent
<1> QED
  BY <1>1, Invariant, PTL

\* The portal is never left without somebody who can manage it, but in the four ways that
\* excuse names (admin_users.py, seed_admin, retire_leaked_passwords).
THEOREM ManagersStay == Spec => []ManagersRemain
<1>1. IInv => ManagersRemain
  BY DEF IInv, Managed, ManagersRemain, Able, EffectiveCapabilities
<1> QED
  BY <1>1, Invariant, PTL

\* The portal serves only with every step of the start-up done, whatever earlier starts
\* were cut off and whoever has signed in since (lifespan, retire_leaked_passwords,
\* seed_roles, login).
THEOREM StartCompletes == Spec => []StartIsComplete
<1>1. IInv => StartIsComplete
  BY DEF IInv, Seeded, Whole, Clear, Retired, StartIsComplete
<1> QED
  BY <1>1, Invariant, PTL

=============================================================================
