-------------------------- MODULE BoundedStaleness --------------------------
(***************************************************************************)
(* What a caller of a cached search is promised about the age of rows: an  *)
(* answer shows the source as it was at some moment after, or less than    *)
(* Slack before, the caller asked, over a window whose end is less than    *)
(* Slack away from the one asked for.  An answer may fail to come.         *)
(* QueryRuns (the core) and SoarConnector (mcp-soar) implement this.       *)
(***************************************************************************)
EXTENDS Integers

CONSTANTS Requests, Slack, None   \* Slack is a number of ticks, None is none

VARIABLES
  now,     \* the clock
  asked,   \* when each open request asked, or None
  end,     \* the end of the window it asked for
  shown    \* its answer, until it asks again: when its rows were read, where their window ended

vars == <<now, asked, end, shown>>

Init ==
  /\ now \in Nat /\ asked = [q \in Requests |-> None] /\ end = [q \in Requests |-> None]
  /\ shown = [q \in Requests |-> None]

Tick == now' = now + 1 /\ UNCHANGED <<asked, end, shown>>

Ask(q) ==
  /\ asked[q] = None
  /\ asked' = [asked EXCEPT ![q] = now]
  /\ end' \in {[end EXCEPT ![q] = e] : e \in 0..now}
  /\ shown' = [shown EXCEPT ![q] = None] /\ UNCHANGED now

Near(e, wanted) == wanted - Slack < e /\ e < wanted + Slack

Close(q) == asked' = [asked EXCEPT ![q] = None] /\ end' = [end EXCEPT ![q] = None]

Answer(q) ==
  /\ asked[q] # None
  /\ \E at, e \in 0..now :
       /\ asked[q] - Slack < at /\ Near(e, end[q])
       /\ shown' = [shown EXCEPT ![q] = [at |-> at, end |-> e]]
  /\ Close(q) /\ UNCHANGED now

\* Refused, failed, or with no tenant to ask for.
Refuse(q) == asked[q] # None /\ Close(q) /\ UNCHANGED <<now, shown>>

Next == Tick \/ \E q \in Requests : Ask(q) \/ Answer(q) \/ Refuse(q)

Spec == Init /\ [][Next]_vars
=============================================================================
