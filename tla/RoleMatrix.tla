----------------------------- MODULE RoleMatrix -----------------------------
(***************************************************************************)
(* The core's start-up (lifespan in main.py, seed.py, seed_roles), the     *)
(* role -> capability matrix (rbac.py, roles_store.py, admin_roles.py) and *)
(* the requests of managers that change the matrix or one another.         *)
(*                                                                         *)
(* The process may die at any await; the database keeps what was           *)
(* committed, the override in memory and the requests are lost.            *)
(***************************************************************************)
EXTENDS Naturals, FiniteSets

CONSTANTS
  Accounts,     \* user names; First is the one seed_admin makes
  First,
  Roles,        \* the roles the matrix can edit (every role but LOCKED_ROLE)
  RoleCaps,     \* capabilities an edit may give a role
  ManagerOnly,  \* MANAGER_ONLY
  Grantable,    \* GRANTABLE, given to a user, never to a role
  Default,      \* ROLE_CAPABILITIES of the editable roles
  Requests,     \* requests that can be in flight together
  MaxRestarts   \* bound on the restarts

Capability == RoleCaps \cup ManagerOnly \cup Grantable
Unset == {"no row"}   \* a role without a row, or without an entry in _OVERRIDE

ASSUME RoleAssumption ==
  /\ First \in Accounts /\ MaxRestarts \in Nat
  /\ Default \in [Roles -> SUBSET RoleCaps] /\ "no row" \notin Capability
  /\ Roles \cap {"absent", "manager", "none", "disable", "restore", "password", "permanent"} = {}

VARIABLES
  boot,       \* where the start-up is; "serving" after it
  rows,       \* role_caps
  override,   \* rbac._OVERRIDE, in memory
  user,       \* users: role, disabled, password, must_change_password, live sessions
  tenants,    \* whether the tenants table has rows
  marks,      \* audit kinds that stand for something done once per database
  req,        \* requests of managers
  restarts,   \* counter, for the bound
  raced,      \* history: an edit committed between the read and the load of another
  excuse      \* history: something that may leave the portal without a manager happened

vars == <<boot, rows, override, user, tenants, marks, req, restarts, raced, excuse>>
stored == <<rows, user, tenants, marks>>

\* The live sessions of an account, as far as they were opened "before" the sweep of the
\* leaked passwords or "since".
Absent == [role |-> "absent", disabled |-> FALSE, pw |-> "none", must |-> FALSE, live |-> {}]
NoRows == [r \in Roles |-> Unset]
Idle == [pc |-> "idle", who |-> First, target |-> First, change |-> "none", dirty |-> {},
         caps |-> {}, read |-> NoRows]

\* A manager who can still sign in.
CanSignIn(a) == user[a].role # "absent" /\ ~user[a].disabled /\ user[a].pw \notin {"none", "unknown"}
Able(a) == user[a].role = "manager" /\ CanSignIn(a)

\* A new database, or one that an earlier build filled: its accounts may still have
\* the passwords that build was committed with.
OldUsers == [Accounts -> [role : {"manager"} \cup Roles, disabled : {FALSE},
                          pw : {"own", "temp", "committed"}, must : {FALSE}, live : {{"before"}}]]
Init ==
  /\ boot = "admin" /\ override = NoRows /\ rows = NoRows /\ marks = {}
  /\ \/ user = [a \in Accounts |-> Absent] /\ tenants = FALSE
     \/ user \in OldUsers /\ (\E a \in Accounts : Able(a)) /\ tenants = TRUE
  /\ req = [q \in Requests |-> Idle]
  /\ restarts = 0 /\ raced = FALSE /\ excuse = FALSE

----------------------------------------------------------------------------
(* Start-up, in the order of lifespan. *)

Booting == UNCHANGED <<req, restarts, raced>>

\* seed_admin: only into an empty table.  A configured password is used unless it is
\* known to have leaked; a generated one is nobody's until it is printed.
SeedAdmin ==
  /\ boot = "admin"
  /\ IF \E a \in Accounts : user[a].role # "absent"
     THEN boot' = "tenants" /\ UNCHANGED user
     ELSE \E generated \in BOOLEAN :
            /\ user' = [user EXCEPT ![First] = [Absent EXCEPT !.role = "manager", !.must = generated,
                                                 !.pw = IF generated THEN "unknown" ELSE "own"]]
            /\ boot' = IF generated THEN "print" ELSE "tenants"
  /\ UNCHANGED <<rows, override, tenants, marks, excuse>> /\ Booting

PrintPassword ==
  /\ boot = "print" /\ boot' = "tenants"
  /\ user' = [user EXCEPT ![First].pw = "generated"]
  /\ UNCHANGED <<rows, override, tenants, marks, excuse>> /\ Booting

\* seed_tenants: once per database, the rows and the mark in one commit.
SeedTenants ==
  /\ boot = "tenants" /\ boot' = "sweep"
  /\ IF tenants \/ "tenants" \in marks THEN UNCHANGED <<tenants, marks>>
                                       ELSE tenants' = TRUE /\ marks' = marks \cup {"tenants"}
  /\ UNCHANGED <<rows, override, user, excuse>> /\ Booting

Swept(u) ==
  CASE u.pw = "temp" -> [u EXCEPT !.pw = "none", !.must = TRUE, !.live = {}]
    [] u.pw = "committed" -> [u EXCEPT !.must = TRUE, !.live = {}]
    [] OTHER -> u

Sweep_MarkFirst ==
  /\ boot = "sweep"
  /\ IF "sweep" \in marks
     THEN boot' = "roles" /\ UNCHANGED <<user, marks, excuse>>
     ELSE \/ marks' = marks \cup {"sweep"} /\ UNCHANGED <<boot, user, excuse>>
          \/ /\ boot' = "roles" /\ marks' = marks \cup {"sweep"}
             /\ user' = [a \in Accounts |-> Swept(user[a])]
             /\ excuse' = (excuse \/ \E a \in Accounts : user[a].pw = "temp")
  /\ UNCHANGED <<rows, override, tenants>> /\ Booting

\* retire_leaked_passwords: every account and the mark in one commit.
Sweep ==
  /\ boot = "sweep" /\ boot' = "roles"
  /\ IF "sweep" \in marks
     THEN UNCHANGED <<user, marks, excuse>>
     ELSE /\ user' = [a \in Accounts |-> Swept(user[a])]
          /\ marks' = marks \cup {"sweep"}
          /\ excuse' = (excuse \/ \E a \in Accounts : user[a].pw = "temp")
  /\ UNCHANGED <<rows, override, tenants>> /\ Booting

\* seed_roles: a table with any row in it is left alone.
SeedRoles ==
  /\ boot = "roles" /\ boot' = "load"
  /\ rows' = IF \E r \in Roles : rows[r] # Unset THEN rows ELSE Default
  /\ UNCHANGED <<override, user, tenants, marks, excuse>> /\ Booting

\* set_override keeps the capabilities a role may have, of the roles that have a row.
Clean(matrix) == [r \in Roles |-> IF matrix[r] = Unset THEN Unset ELSE matrix[r] \cap RoleCaps]

LoadAtStart ==
  /\ boot = "load" /\ boot' = "serving"
  /\ override' = Clean(rows)
  /\ UNCHANGED <<rows, user, tenants, marks, excuse>> /\ Booting

----------------------------------------------------------------------------
(* Sessions. *)

Sessions(a, live) ==
  /\ user' = [user EXCEPT ![a].live = live]
  /\ UNCHANGED <<rows, tenants, marks, boot, override, req, restarts, raced, excuse>>

\* login, with the right password: also of an account that has to change it first.
SignIn(a) ==
  /\ boot = "serving" /\ CanSignIn(a)
  /\ Sessions(a, user[a].live \cup {IF "sweep" \in marks THEN "since" ELSE "before"})

\* logout, or the session expires or was idle for too long.
SessionsEnd(a) ==
  /\ boot = "serving"
  /\ \E some \in SUBSET user[a].live : some # user[a].live /\ Sessions(a, some)

\* change_password, of an account that must or may choose its own: the session it is done
\* from stays.
OwnPassword(a) ==
  /\ boot = "serving" /\ ~user[a].disabled
  /\ \E own \in user[a].live :
       user' = [user EXCEPT ![a].pw = "own", ![a].must = FALSE, ![a].live = {own}]
  /\ UNCHANGED <<rows, tenants, marks, boot, override, req, restarts, raced, excuse>>

----------------------------------------------------------------------------
(* Requests. *)

\* effective_capabilities: a manager's do not come from the matrix.
Base(role) == IF override[role] = Unset THEN Default[role] ELSE override[role]
EffectiveCapabilities(role, grants) ==
  (IF role = "manager" THEN Capability ELSE Base(role)) \cup (grants \cap Grantable)

\* require_capability: the caller's row as the request began.
Enter(q, a) ==
  /\ boot = "serving" /\ req[q].pc = "idle"
  /\ user[a].role # "absent" /\ user[a].live # {} /\ ~user[a].disabled /\ ~user[a].must
  /\ ManagerOnly \subseteq EffectiveCapabilities(user[a].role, {})
  /\ req' = [req EXCEPT ![q] = [Idle EXCEPT !.pc = "in", !.who = a]]
  /\ UNCHANGED <<stored, boot, override, restarts, raced, excuse>>

InFlight(q) == req[q].pc \in {"saved", "read"}

\* set_role and save_role: unknown capabilities, grants and manager-only ones are
\* dropped; the row is read, and is written only if that changes it ...
SelectRow(q, r, caps) ==
  LET wanted == caps \ (Grantable \cup ManagerOnly) IN
  /\ req[q].pc = "in"
  /\ req' = [req EXCEPT ![q] = [Idle EXCEPT !.pc = "row", !.change = r, !.caps = wanted,
                                 !.dirty = IF rows[r] = wanted THEN {} ELSE {"capabilities"}]]
  /\ UNCHANGED <<stored, boot, override, restarts, raced, excuse>>

\* ... and that is committed.
CommitRow(q) ==
  LET r == req[q].change IN
  /\ req[q].pc = "row"
  /\ rows' = IF req[q].dirty = {} THEN rows ELSE [rows EXCEPT ![r] = req[q].caps]
  /\ req' = [req EXCEPT ![q] = [Idle EXCEPT !.pc = "saved"]]
  /\ raced' = \E p \in Requests \ {q} :
                (req[p].pc = "read" /\ rows' # rows) \/ (raced /\ InFlight(p))
  /\ UNCHANGED <<user, tenants, marks, boot, override, restarts, excuse>>

\* load_override: the select, in a session of its own ...
ReadMatrix(q) ==
  /\ req[q].pc = "saved"
  /\ req' = [req EXCEPT ![q].pc = "read", ![q].read = rows]
  /\ UNCHANGED <<stored, boot, override, restarts, raced, excuse>>

\* ... and, when that session is closed, set_override.
SetOverride_Nothing(q) ==
  /\ req[q].pc = "read"
  /\ req' = [req EXCEPT ![q] = Idle]
  /\ UNCHANGED <<stored, boot, override, restarts, raced, excuse>>

SetOverride(q) ==
  /\ req[q].pc = "read"
  /\ override' = Clean(req[q].read)
  /\ req' = [req EXCEPT ![q] = Idle]
  /\ UNCHANGED <<stored, boot, restarts, raced, excuse>>

\* A role stands for a change to it; "password" and "permanent" set one that has to be
\* changed at the next sign-in, or not.
Resets == {"password", "permanent"}
Changes == {"disable", "restore"} \cup Resets \cup Roles
Columns(change) ==
  CASE change = "disable" -> {"disabled"}
    [] change = "restore" -> {"role", "disabled"}
    [] change \in Resets -> {"must"}
    [] OTHER -> {"role"}

\* The ORM writes the columns that differ from the row it loaded; a new hash always does,
\* and sessions are revoked by a statement.
Written(change, dirty, u) ==
  [role |-> IF "role" \notin dirty THEN u.role ELSE IF change = "restore" THEN "manager" ELSE change,
   disabled |-> IF "disabled" \in dirty THEN change = "disable" ELSE u.disabled,
   pw |-> IF change \in Resets THEN "own" ELSE u.pw,
   must |-> IF "must" \in dirty THEN change = "password" ELSE u.must,
   live |-> IF change \in Resets \cup {"disable"} THEN {} ELSE u.live]
Dirty(change, u) ==
  {col \in Columns(change) : Written(change, Columns(change), u)[col] # u[col]}

LoadTarget_NoRefusal(q, t, change) ==
  /\ req[q].pc = "in" /\ user[t].role # "absent"
  /\ req' = [req EXCEPT ![q].pc = "commit", ![q].target = t, ![q].change = change,
                        ![q].dirty = Dirty(change, user[t])]
  /\ UNCHANGED <<stored, boot, override, restarts, raced, excuse>>

\* disable_user, update_user, set_password: the target is loaded, and a change to the
\* caller's own account refused where it would disable it or skip the old password.
LoadTarget(q, t, change) ==
  /\ req[q].pc = "in" /\ user[t].role # "absent"
  /\ req' = IF t = req[q].who /\ change \in Resets \cup {"disable"}
            THEN [req EXCEPT ![q] = Idle]
            ELSE [req EXCEPT ![q].pc = "commit", ![q].target = t, ![q].change = change,
                             ![q].dirty = Dirty(change, user[t])]
  /\ UNCHANGED <<stored, boot, override, restarts, raced, excuse>>

CommitTarget(q) ==
  LET t == req[q].target  change == req[q].change  dirty == req[q].dirty IN
  /\ req[q].pc = "commit"
  /\ user' = [user EXCEPT ![t] = Written(change, dirty, @)]
  /\ req' = [req EXCEPT ![q] = Idle]
  /\ excuse' = (excuse \/ (t = req[q].who /\ change \in Roles /\ dirty # {}) \/ ~Able(req[q].who))
  /\ UNCHANGED <<rows, tenants, marks, boot, override, restarts, raced>>

\* Outside the program: the tenant rows of a marked database are cleared on purpose.
ClearTenants ==
  /\ boot = "serving" /\ tenants /\ "tenants" \in marks
  /\ tenants' = FALSE
  /\ UNCHANGED <<rows, user, marks, boot, override, req, restarts, raced, excuse>>

\* The process dies and starts again.  A generated password not printed is lost.
Restart ==
  /\ restarts < MaxRestarts /\ restarts' = restarts + 1
  /\ boot' = "admin" /\ override' = NoRows
  /\ req' = [q \in Requests |-> Idle] /\ raced' = FALSE
  /\ excuse' = (excuse \/ boot = "print")
  /\ UNCHANGED stored

Starts == SeedAdmin \/ PrintPassword \/ SeedTenants \/ Sweep \/ SeedRoles \/ LoadAtStart

Next ==
  \/ Starts
  \/ \E q \in Requests :
       \/ \E a \in Accounts : Enter(q, a)
       \/ \E r \in Roles, caps \in SUBSET Capability : SelectRow(q, r, caps)
       \/ CommitRow(q) \/ ReadMatrix(q) \/ SetOverride(q)
       \/ \E t \in Accounts, change \in Changes : LoadTarget(q, t, change)
       \/ CommitTarget(q)
  \/ \E a \in Accounts : SignIn(a) \/ SessionsEnd(a) \/ OwnPassword(a)
  \/ ClearTenants \/ Restart

Spec == Init /\ [][Next]_vars

----------------------------------------------------------------------------
(* Properties. *)

\* When no edit of the matrix is under way, the capabilities in force are those of the
\* last rows committed, unless an edit was committed between the read and the load of
\* another that has not been followed by an edit alone (load_override closes its
\* session before set_override), or a restart.
MatrixIsCurrent ==
  (boot = "serving" /\ ~raced /\ \A q \in Requests : ~InFlight(q)) => override = Clean(rows)

\* No edit leaves the portal without somebody who can manage it ("the matrix editor can
\* never lock everyone out", rbac.py:79), and no change of accounts either, but for the
\* ways this code has: a manager demotes himself; a change commits after its caller
\* lost the role; the sweep retires the password of the last manager; the process dies
\* before it prints the generated password.
ManagersRemain ==
  (boot = "serving" /\ ~excuse) =>
    \E a \in Accounts : Able(a) /\ EffectiveCapabilities(user[a].role, {}) = Capability

\* Whatever steps of earlier starts were cut off, the portal serves only after all of
\* them: no account keeps the shared password; one with a committed password has to change
\* it, whatever sign-ins there have been, and no session of it is from before the sweep;
\* and every role has a row or its default.
StartIsComplete ==
  boot = "serving" =>
    /\ \A a \in Accounts : /\ user[a].role # "absent" => user[a].pw # "temp"
                           /\ user[a].pw = "committed" => user[a].must /\ "before" \notin user[a].live
    /\ \A r \in Roles : rows[r] # Unset /\ override[r] # Unset

=============================================================================
