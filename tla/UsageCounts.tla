----------------------------- MODULE UsageCounts -----------------------------
(***************************************************************************)
(* api/usage.py: page views are counted in a row for each day, page and    *)
(* role.  A request reads the row, then writes the count it read plus one, *)
(* or inserts the first; a report deletes old days.                        *)
(***************************************************************************)
EXTENDS Integers, FiniteSets, FiniteSetsExt

CONSTANTS
  Requests,   \* requests that can be in flight together
  Kinds,      \* pairs of a page and a role
  Tries,      \* attempts of a request: range(2)
  KeepDays,   \* KEEP_DAYS
  LastDay,    \* bound on the days
  MaxViews    \* bound on the views

\* What the proofs ask of the constants.
ConstantsOK == Tries \in Nat /\ Tries >= 2 /\ KeepDays \in Nat /\ LastDay \in Nat

VARIABLES
  day,
  rows,      \* UsageCount: a function whose domain is the keys that have a row
  request,   \* what each request is doing
  views,     \* counter, for the bound
  counted,   \* history: the views of each key that have been answered
  raced      \* history: keys of which two requests have read the row before either wrote it

vars == <<day, rows, request, views, counted, raced>>

Keys == (0..LastDay) \X Kinds
NoRow == 0
Idle == [pc |-> "idle", key |-> <<0, CHOOSE k \in Kinds : TRUE>>, seen |-> NoRow, left |-> 0]
Busy == {q \in Requests : request[q].pc # "idle"}

Init ==
  /\ day = 0 /\ rows = <<>> /\ request = [q \in Requests |-> Idle] /\ views = 0
  /\ counted = [k \in Keys |-> 0] /\ raced = {}

----------------------------------------------------------------------------
\* record_view: the day is read once.
View(q, kind) ==
  /\ request[q].pc = "idle" /\ views < MaxViews /\ views' = views + 1
  /\ request' = [request EXCEPT ![q] = [pc |-> "read", key |-> <<day, kind>>, seen |-> NoRow, left |-> Tries]]
  /\ UNCHANGED <<day, rows, counted, raced>>

Read(q) ==
  LET k == request[q].key IN
  /\ request[q].pc = "read"
  /\ request' = [request EXCEPT ![q].pc = "commit",
                                ![q].seen = IF k \in DOMAIN rows THEN rows[k] ELSE NoRow]
  /\ raced' = raced \cup {x \in {k} \cap DOMAIN rows :
                  \E o \in Busy : request[o].pc = "commit" /\ request[o].key = x /\ request[o].seen # NoRow}
  /\ UNCHANGED <<day, rows, views, counted>>

Write(k, n) == rows' = [x \in DOMAIN rows \cup {k} |-> IF x = k THEN n ELSE rows[x]]

Commit_GivesUp(q) ==
  LET r == request[q]  k == r.key IN
  /\ r.pc = "commit"
  /\ IF r.seen = NoRow /\ k \in DOMAIN rows THEN UNCHANGED rows ELSE Write(k, r.seen + 1)
  /\ request' = [request EXCEPT ![q] = Idle]
  /\ counted' = [counted EXCEPT ![k] = @ + 1]
  /\ UNCHANGED <<day, views, raced>>

\* The update writes the number it computed; an insert that lost the race to another is
\* rolled back, and the whole is tried once more, then given up without an error.
Commit(q) ==
  LET r == request[q]  k == r.key
      lost == r.seen = NoRow /\ k \in DOMAIN rows IN
  /\ r.pc = "commit"
  /\ IF lost THEN UNCHANGED rows ELSE Write(k, r.seen + 1)
  /\ IF lost /\ r.left > 1
     THEN request' = [request EXCEPT ![q].pc = "read", ![q].left = @ - 1] /\ UNCHANGED counted
     ELSE /\ request' = [request EXCEPT ![q] = Idle]
          /\ counted' = [counted EXCEPT ![k] = @ + 1]
  /\ UNCHANGED <<day, views, raced>>

\* usage_report: days out of the retention are deleted by whoever asks.
Report ==
  /\ \E k \in DOMAIN rows : k[1] < day - KeepDays
  /\ rows' = [k \in {x \in DOMAIN rows : x[1] >= day - KeepDays} |-> rows[k]]
  /\ UNCHANGED <<day, request, views, counted, raced>>

\* No request is older than the retention.
NextDay ==
  /\ day < LastDay /\ \A q \in Busy : request[q].key[1] >= day + 1 - KeepDays
  /\ day' = day + 1
  /\ UNCHANGED <<rows, request, views, counted, raced>>

Next ==
  \/ \E q \in Requests :
       \/ \E kind \in Kinds : View(q, kind)
       \/ Read(q) \/ Commit(q)
  \/ Report \/ NextDay

Spec == Init /\ [][Next]_vars

----------------------------------------------------------------------------
Kept == {k \in Keys : k[1] >= day - KeepDays}
Count(k) == IF k \in DOMAIN rows THEN rows[k] ELSE 0

\* Every day kept has the views that were answered; a view is lost only when two have read
\* the same row before either wrote it, never to the race for the first row of a day, and
\* no view counts twice, whatever a report deletes.
ViewsAreCounted ==
  \A k \in Kept :
    /\ Count(k) <= counted[k]
    /\ k \notin raced => Count(k) = counted[k]
=============================================================================
