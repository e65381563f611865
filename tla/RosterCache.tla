----------------------------- MODULE RosterCache -----------------------------
(***************************************************************************)
(* mcp-roster: the roster list of SOAR, parsed (roster.py) and kept for a  *)
(* minute in a cache of two fields (http_api.py) that request threads read *)
(* and write one after the other.  Time is counted in ticks.               *)
(*                                                                         *)
(* The list is a header and rows; a row is a name and its codes.           *)
(***************************************************************************)
EXTENDS Integers, Sequences, FiniteSets

CONSTANTS
  Threads,       \* request threads
  Lists,         \* contents the list can have: header, and rows
  NoDate,        \* a cell of the header that is not a date
  CodeOf,        \* _CODE: what a cell of a row says; other cells say nothing
  CacheSeconds,  \* 60 s, in ticks
  Limit,         \* bound on the clock
  MaxAsks,       \* bound on the requests
  MaxEdits,      \* bound on the changes of the list
  None

\* What the proofs ask of the constants.
ConstantsOK ==
  /\ CacheSeconds \in Nat \ {0} /\ None \notin Nat
  /\ \A l \in Lists : Len(l.header) \in Nat

VARIABLES
  now,
  list,      \* the list in SOAR
  cache,     \* _cache: roster and at
  thread,    \* what each thread is doing, and its answer
  asks, edits,   \* counters, for the bounds
  shown,     \* history: when the list had which content
  overlap    \* history: two threads have fetched the list at the same time

vars == <<now, list, cache, thread, asks, edits, shown, overlap>>

Free == [pc |-> "free", asked |-> None, at |-> None, got |-> None]
Fetching == {t \in Threads : thread[t].pc \in {"fetch", "put", "stamp"}}

Init ==
  /\ now = 0 /\ list \in Lists /\ cache = [roster |-> None, at |-> None]
  /\ thread = [t \in Threads |-> Free] /\ asks = 0 /\ edits = 0
  /\ shown = {<<0, list>>} /\ overlap = FALSE

----------------------------------------------------------------------------
(* roster.py. *)

\* The columns that have a date, in their order.
Columns(header) ==
  LET all == {c \in 1..Len(header) : header[c] # NoDate} IN
  [i \in 1..Cardinality(all) |-> CHOOSE c \in all : Cardinality({x \in all : x < c}) = i - 1]

Code(cell) == IF cell \in DOMAIN CodeOf THEN CodeOf[cell] ELSE ""

Parse_ByPosition(l) ==
  LET cols == Columns(l.header) IN
  [days |-> [i \in DOMAIN cols |-> l.header[cols[i]]],
   people |-> {[u |-> r[1], s |-> [i \in DOMAIN cols |-> IF i + 1 <= Len(r) THEN Code(r[i + 1]) ELSE ""]] :
                 r \in {x \in l.rows : x # <<>> /\ x[1] # ""}}]

\* A code counts for the date above it; cells a row is too short for are empty.
Parse(l) ==
  LET cols == Columns(l.header) IN
  [days |-> [i \in DOMAIN cols |-> l.header[cols[i]]],
   people |-> {[u |-> r[1], s |-> [i \in DOMAIN cols |-> IF cols[i] <= Len(r) THEN Code(r[cols[i]]) ELSE ""]] :
                 r \in {x \in l.rows : x # <<>> /\ x[1] # ""}}]

\* on_shift: the people of each window on a date; nobody when the roster has no such date.
OnShift(roster, date) ==
  LET idx == {i \in DOMAIN roster.days : roster.days[i] = date} IN
  [w \in {"M", "E", "N"} |->
     IF idx = {} THEN {}
     ELSE {p.u : p \in {q \in roster.people : q.s[CHOOSE i \in idx : \A j \in idx : i <= j] = w}}]

----------------------------------------------------------------------------
(* _roster. *)

Be(t, r) == thread' = [thread EXCEPT ![t] = r]
Still == UNCHANGED <<now, list, edits, shown>>

Ask(t) ==
  /\ thread[t].pc \in {"free", "answered"} /\ asks < MaxAsks /\ asks' = asks + 1
  /\ Be(t, [Free EXCEPT !.pc = "look", !.asked = now])
  /\ UNCHANGED <<cache, overlap>> /\ Still

\* Both fields are looked at; what is returned is read after that.
Look(t) ==
  /\ thread[t].pc = "look"
  /\ IF cache.roster # None /\ cache.at # None /\ now - cache.at < CacheSeconds
     THEN Be(t, [thread[t] EXCEPT !.pc = "return"]) /\ UNCHANGED overlap
     ELSE Be(t, [thread[t] EXCEPT !.pc = "fetch", !.at = now]) /\ overlap' = (overlap \/ Fetching # {})
  /\ UNCHANGED <<cache, asks>> /\ Still

Return(t) ==
  /\ thread[t].pc = "return"
  /\ Be(t, [thread[t] EXCEPT !.pc = "answered", !.got = cache.roster])
  /\ UNCHANGED <<cache, asks, overlap>> /\ Still

Fetch(t) ==
  /\ thread[t].pc = "fetch"
  /\ Be(t, [thread[t] EXCEPT !.pc = "put", !.got = Parse(list)])
  /\ UNCHANGED <<cache, asks, overlap>> /\ Still

\* A SoarError; nothing is cached.
FetchFails(t) ==
  /\ thread[t].pc = "fetch" /\ Be(t, Free)
  /\ UNCHANGED <<cache, asks, overlap>> /\ Still

Put(t) ==
  /\ thread[t].pc = "put"
  /\ cache' = [cache EXCEPT !.roster = thread[t].got] /\ Be(t, [thread[t] EXCEPT !.pc = "stamp"])
  /\ UNCHANGED <<asks, overlap>> /\ Still

Stamp_Now(t) ==
  /\ thread[t].pc = "stamp"
  /\ cache' = [cache EXCEPT !.at = now] /\ Be(t, [thread[t] EXCEPT !.pc = "answered"])
  /\ UNCHANGED <<asks, overlap>> /\ Still

\* The time before the fetch.
Stamp(t) ==
  /\ thread[t].pc = "stamp"
  /\ cache' = [cache EXCEPT !.at = thread[t].at] /\ Be(t, [thread[t] EXCEPT !.pc = "answered"])
  /\ UNCHANGED <<asks, overlap>> /\ Still

----------------------------------------------------------------------------
Edit(l) ==
  /\ edits < MaxEdits /\ edits' = edits + 1 /\ l # list
  /\ list' = l /\ shown' = shown \cup {<<now, l>>}
  /\ UNCHANGED <<now, cache, thread, asks, overlap>>

Tick ==
  /\ now < Limit /\ now' = now + 1 /\ shown' = shown \cup {<<now + 1, list>>}
  /\ UNCHANGED <<list, cache, thread, asks, edits, overlap>>

Next ==
  \/ \E t \in Threads : Ask(t) \/ Look(t) \/ Return(t) \/ Fetch(t) \/ FetchFails(t) \/ Put(t) \/ Stamp(t)
  \/ \E l \in Lists : Edit(l)
  \/ Tick

Spec == Init /\ [][Next]_vars

----------------------------------------------------------------------------
\* Who the list itself puts on a window: a code under the first cell with the date.
Listed(l, date) ==
  LET under == {c \in 1..Len(l.header) : l.header[c] = date} IN
  [w \in {"M", "E", "N"} |->
     {r[1] : r \in {x \in l.rows : x # <<>> /\ x[1] # "" /\
                      \E c \in under : /\ \A o \in under : c <= o
                                       /\ c <= Len(x) /\ Code(x[c]) = w}}]

Dates == (UNION {{l.header[c] : c \in 1..Len(l.header)} : l \in Lists}) \ {NoDate}

\* Who is told to be on shift is so by the list as it was at a time less than a minute
\* before the question, or later, under the very date: unless two threads have fetched
\* the list at the same time, and the slower one has put its own beside the other's time.
OnShiftIsRecent ==
  \A t \in Threads : thread[t].pc = "answered" /\ ~overlap =>
    \E s \in shown : /\ thread[t].asked - s[1] < CacheSeconds
                     /\ \A d \in Dates : OnShift(thread[t].got, d) = Listed(s[2], d)
=============================================================================
