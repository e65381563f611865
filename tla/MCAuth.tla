------------------------------- MODULE MCAuth -------------------------------
(* Instances of AuthSessions for TLC. *)
EXTENDS AuthSessions, TLC

CONSTANTS Admin, Analyst

\* Passwords: an administrator resets, disables and enables an analyst, who signs in
\* (on up to two sessions) and changes the password.  The clock stands still.
PasswordInputs(u, op) ==
  IF u = Admin THEN
    CASE op = "reset" ->
           {[Blank EXCEPT !.user = Analyst, !.new = p, !.temp = TRUE] : p \in Passwords}
      [] op = "disable" -> {[Blank EXCEPT !.user = Analyst]}
      [] op = "patch" -> {[Blank EXCEPT !.user = Analyst, !.state = "active"]}
      [] OTHER -> {}
  ELSE
    CASE op = "login" -> {[Blank EXCEPT !.user = u, !.pw = p] : p \in Passwords}
      [] op = "change" -> {[Blank EXCEPT !.pw = x[1], !.new = x[2]] :
                             x \in {y \in Passwords \X Passwords : y[1] # y[2]}}
      [] OTHER -> {}

\* Sessions over time: an administrator creates an analyst, who signs in, uses the
\* portal and signs out, and disables and enables the account, or gives up the
\* manager role.
SessionInputs(u, op) ==
  IF u = Admin THEN
    CASE op = "create" -> {[Blank EXCEPT !.user = Analyst, !.new = p] : p \in Passwords}
      [] op = "patch" -> {[Blank EXCEPT !.user = Analyst, !.state = x] : x \in {"active", "disabled"}}
                          \cup {[Blank EXCEPT !.user = Admin, !.mgr = FALSE]}
      [] OTHER -> {}
  ELSE
    CASE op = "login" -> {[Blank EXCEPT !.user = u, !.pw = p] : p \in Passwords}
      [] op \in {"use", "logout"} -> {Blank}
      [] OTHER -> {}

\* The second factor and the failure counter: one analyst.
FactorInputs(u, op) ==
  CASE op \in {"login", "enroll"} ->
         {[Blank EXCEPT !.user = u, !.pw = p, !.code = c] :
            p \in Passwords, c \in Secrets \cup {None}} \cup {[Blank EXCEPT !.user = u]}
    [] op = "verify" -> {[Blank EXCEPT !.code = c] : c \in Secrets \cup {None}}
    [] OTHER -> {}

Symmetry == Permutations(Passwords) \cup Permutations(Sessions) \cup Permutations(Requests)
              \cup Permutations(Secrets)
====
