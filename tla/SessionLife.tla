---------------------------- MODULE SessionLife ----------------------------
(***************************************************************************)
(* What server-side sessions promise (api/auth.py: "Sessions are           *)
(* server-side; the cookie holds only an opaque token"): a session is      *)
(* opened at most once, and once it has ended no request is admitted on it *)
(* again.  Any number of sessions may end in one step.                     *)
(***************************************************************************)
CONSTANT Sessions
VARIABLE life

Stages == {"none", "live", "ended"}

Reachable(stage) ==
  CASE stage = "none" -> Stages
    [] stage = "live" -> {"live", "ended"}
    [] OTHER -> {"ended"}

Init == life \in [Sessions -> {"none", "live"}]

Next ==
  /\ life' \in [Sessions -> Stages]
  /\ \A s \in Sessions : life'[s] \in Reachable(life[s])

Spec == Init /\ [][Next]_life
====
