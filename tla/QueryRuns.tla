------------------------------ MODULE QueryRuns ------------------------------
(***************************************************************************)
(* Running catalog queries (datasources/service.py) for the dashboards     *)
(* (api/data.py, api/metrics.py) and the assistant: the scope of the       *)
(* caller, the filter rendered into the SPL, the search, the cache and the *)
(* filter on the rows, while managers edit tenants and the query.          *)
(*                                                                         *)
(* A row is the value of the field that names its tenant: a SOAR label or  *)
(* a tenant id.  Time is counted in ticks; the source is read at one tick. *)
(* A value that looks like a number is one once the rows are read, and is  *)
(* compared as that number is written: 007 and 7 read the same.            *)
(***************************************************************************)
EXTENDS Integers, FiniteSets

CONSTANTS
  Requests,      \* requests that can be in flight together
  Tenants,       \* tenant ids, in the order of their names
  Labels,        \* labels a tenant can be given; the seeded ones are the ids
  Unsafe,        \* labels spl.quoted leaves out
  Asking,        \* who asks, and for what: allowed_customer_ids ({} with cross_tenant is
                 \* all) and the tenant picked (None is all)
  Numeric,       \* labels that look like numbers
  Str,           \* str() of what _typed makes of a value: "7" of "007", the others' own
  Texts,         \* texts the query can have: their SPL, and whether they have a scope_field
  CacheSeconds,  \* q.cache_seconds, in ticks
  Keep,          \* after so many ticks a write of the cache drops an entry: 3600 s
  Limit,         \* bound on the clock
  MaxAsks,       \* bound on the requests
  MaxEdits,      \* bound on the edits of tenants and of the query
  None

ASSUME RunsAssumption ==
  /\ Tenants \subseteq Labels /\ Unsafe \subseteq Labels \ Tenants
  /\ Asking \subseteq (SUBSET Tenants) \X (Tenants \cup {None})
  /\ Numeric \subseteq Labels /\ Str = [l \in Labels |-> Str[l]] /\ \A l \in Labels \ Numeric : Str[l] = l
  /\ Texts \subseteq [spl : {"labels", "ids", "loose", "global"}, field : BOOLEAN]
  /\ CacheSeconds \in Nat \ {0} /\ Keep \in Nat /\ Limit \in Nat
  /\ MaxAsks \in Nat /\ MaxEdits \in Nat
  /\ None \notin Nat /\ None \notin Labels

VARIABLES
  now,
  tenant,   \* tenants: label and archived
  text,     \* the text stored for the query
  cache,    \* service._cache: a function whose domain is the keys in it
  req,      \* what each request is doing, and its answer
  asks, edits,   \* counters, for the bounds
  reach,    \* history: the rows a caller could be shown at some time since he asked
  held      \* history: the rows of tenants he could be shown all that time

db == <<tenant, text>>
vars == <<now, db, cache, req, asks, edits, reach, held>>

Free == [pc |-> "free", who |-> {}, pick |-> None, text |-> None, asked |-> None, end |-> None,
         ids |-> {}, map |-> {}, stamp |-> None, rows |-> {}, at |-> None, until |-> None]

\* A row's value and the tenant it is shown as: a label of that tenant, or its id.
LabelOf(t) == <<tenant[t].label, t>>
InScope(who, pick) ==
  {t \in Tenants : /\ ~tenant[t].archived
                   /\ who = {} \/ t \in who
                   /\ pick = None \/ t = pick}
Named(who, pick) == {LabelOf(t) : t \in InScope(who, pick)}
Shown(who, pick) == UNION {{LabelOf(t), <<t, t>>} : t \in InScope(who, pick)}

Open(q) == req[q].pc \in {"scope", "search", "found"}

Init ==
  /\ now = 0 /\ text \in Texts /\ cache = <<>>
  /\ tenant = [t \in Tenants |-> [label |-> t, archived |-> FALSE]]
  /\ req = [q \in Requests |-> Free] /\ asks = 0 /\ edits = 0
  /\ reach = [q \in Requests |-> {}] /\ held = [q \in Requests |-> {}]

----------------------------------------------------------------------------
(* Rendering and the cache. *)

\* spl.render with spl.quoted: what the tokens of the SPL become.  A loose one names
\* the token but does not filter by it; a global one has none.
Rendered(r) ==
  CASE r.text.spl = "ids" -> r.ids
    [] r.text.spl \in {"labels", "loose"} -> {p[1] : p \in r.map} \ Unsafe
    [] OTHER -> {}

\* The rows Splunk finds for it: one for each label it knows, which the filter leaves.
Found(spl, filter) == IF spl \in {"labels", "ids"} THEN filter \cap Labels ELSE Labels

Key_ByQuery(r) ==
  [filter |-> {}, spl |-> r.text.spl, start |-> r.end = 0, bucket |-> r.end \div CacheSeconds]

\* The key of _execute: the rendered SPL, the start of the window, the bucket its end
\* falls into; not the scope_field.  A window that ends at 0 is a past month; the others
\* end now.
Key(r) ==
  [filter |-> Rendered(r), spl |-> r.text.spl, start |-> r.end = 0,
   bucket |-> r.end \div CacheSeconds]

Hit(r) == Key(r) \in DOMAIN cache /\ now - cache[Key(r)].stamp < CacheSeconds

\* label_to_id: of tenants that share a label, one is named for it.
Maps(ids) ==
  {m \in SUBSET {LabelOf(t) : t \in ids} :
     \A l \in {tenant[t].label : t \in ids} : Cardinality({p \in m : p[1] = l}) = 1}

Keep_AllRows(r, rows) == {<<v, v>> : v \in rows}
\* The filter on scope_field, if there is one: a row counts for the tenant whose label its
\* value reads as, or whose id it is, and goes when that tenant is not in scope; a number
\* is no id.  Without a scope_field all rows are shown, and nothing attributes them.
Kept(r, rows) ==
  IF ~r.text.field THEN {<<v, None>> : v \in rows}
  ELSE {row \in rows \X Tenants : <<Str[row[1]], row[2]>> \in r.map}
       \cup {<<v, v>> : v \in {w \in (rows \cap r.ids) \ Numeric : \A p \in r.map : p[1] # w}}

----------------------------------------------------------------------------
(* A run. *)

\* run_query: the period is resolved and the catalog read; the caller's scope is that of
\* the row his session was checked with.
Ask(q, who, pick, end) ==
  /\ req[q].pc \in {"free", "answered"} /\ asks < MaxAsks /\ asks' = asks + 1
  /\ req' = [req EXCEPT ![q] = [Free EXCEPT !.pc = "scope", !.who = who, !.pick = pick,
                                            !.text = text, !.asked = now, !.end = end]]
  /\ reach' = [reach EXCEPT ![q] = Shown(who, pick)]
  /\ held' = [held EXCEPT ![q] = Named(who, pick)]
  /\ UNCHANGED <<now, db, cache, edits>>

Answered(q, r, rows, at, until) ==
  /\ req' = [req EXCEPT ![q] = [Free EXCEPT !.pc = "answered", !.who = r.who, !.pick = r.pick,
                                !.text = r.text, !.rows = Kept(r, rows), !.at = at, !.until = until]]
  /\ UNCHANGED <<reach, held>>

\* The request is over: nothing more is asked of its history.
Over(q) ==
  /\ req' = [req EXCEPT ![q] = Free]
  /\ reach' = [reach EXCEPT ![q] = {}] /\ held' = [held EXCEPT ![q] = {}]

\* resolve_scope, then _run_spl up to the search: a refusal, nothing to ask for, a hit,
\* or a search sent with the clock read before it.
Resolve(q) ==
  LET ids == InScope(req[q].who, req[q].pick) IN
  /\ req[q].pc = "scope"
  /\ \E map \in Maps(ids) :
       LET r == [req[q] EXCEPT !.ids = ids, !.map = map] IN
       IF \/ ids = {} /\ r.pick # None
          \/ r.text.spl = "global" /\ (r.who # {} \/ r.pick # None)
          \/ ids = {} /\ r.text.spl # "global"
       THEN Over(q)
       ELSE IF Hit(r)
       THEN LET e == cache[Key(r)] IN Answered(q, r, e.rows, e.at, e.until)
       ELSE /\ req' = [req EXCEPT ![q] = [r EXCEPT !.pc = "search", !.stamp = now]]
            /\ UNCHANGED <<reach, held>>
  /\ UNCHANGED <<now, db, cache, asks, edits>>

\* Splunk runs the rendered search over the window asked for.
Search(q) ==
  LET r == req[q] IN
  /\ r.pc = "search"
  /\ req' = [req EXCEPT ![q] = [r EXCEPT !.pc = "found", !.at = now,
                                         !.rows = Found(r.text.spl, Rendered(r))]]
  /\ UNCHANGED <<now, db, cache, asks, edits, reach, held>>

\* A ConnectorError: the search is not cached, and the caller is told.
Fail(q) ==
  /\ req[q].pc = "search"
  /\ Over(q) /\ UNCHANGED <<now, db, cache, asks, edits>>

Finish_StampAfter(q) ==
  LET r == req[q] IN
  /\ r.pc = "found"
  /\ cache' = [k \in DOMAIN cache \cup {Key(r)} |->
                 IF k = Key(r) THEN [stamp |-> now, at |-> r.at, until |-> r.end, rows |-> r.rows]
                               ELSE cache[k]]
  /\ Answered(q, r, r.rows, r.at, r.end)
  /\ UNCHANGED <<now, db, asks, edits>>

\* The rows come back: old entries are dropped, the rows are cached before this caller's
\* filter and under the time before the search, then filtered.
Finish(q) ==
  LET r == req[q]
      young == {k \in DOMAIN cache : r.stamp - cache[k].stamp < Keep} IN
  /\ r.pc = "found"
  /\ cache' = [k \in young \cup {Key(r)} |->
                 IF k = Key(r) THEN [stamp |-> r.stamp, at |-> r.at, until |-> r.end, rows |-> r.rows]
                               ELSE cache[k]]
  /\ Answered(q, r, r.rows, r.at, r.end)
  /\ UNCHANGED <<now, db, asks, edits>>

----------------------------------------------------------------------------
(* Around the runs. *)

Edit == edits < MaxEdits /\ edits' = edits + 1 /\ UNCHANGED <<now, cache, req, asks>>

Witnessed ==
  /\ reach' = [q \in Requests |-> IF Open(q) THEN reach[q] \cup Shown(req[q].who, req[q].pick)'
                                            ELSE reach[q]]
  /\ held' = [q \in Requests |-> IF Open(q) THEN held[q] \cap Named(req[q].who, req[q].pick)'
                                           ELSE held[q]]

\* update_tenant: any label, also one another tenant has.
SetLabel(t, l) ==
  /\ Edit /\ l # tenant[t].label
  /\ tenant' = [tenant EXCEPT ![t].label = l] /\ UNCHANGED text /\ Witnessed

\* archive_tenant, and update_tenant back to active.
Archive(t) ==
  /\ Edit /\ tenant' = [tenant EXCEPT ![t].archived = ~@] /\ UNCHANGED text /\ Witnessed

EditText(x) == Edit /\ x # text /\ text' = x /\ UNCHANGED <<tenant, reach, held>>

Tick == now < Limit /\ now' = now + 1 /\ UNCHANGED <<db, cache, req, asks, edits, reach, held>>

Next ==
  \/ Tick
  \/ \E q \in Requests :
       \/ \E a \in Asking, end \in {0, now} : Ask(q, a[1], a[2], end)
       \/ Resolve(q) \/ Search(q) \/ Fail(q) \/ Finish(q)
  \/ \E t \in Tenants, l \in Labels : SetLabel(t, l)
  \/ \E t \in Tenants : Archive(t)
  \/ \E x \in Texts : EditText(x)

Spec == Init /\ [][Next]_vars

----------------------------------------------------------------------------
(* Properties. *)

Answers == {q \in Requests : req[q].pc = "answered"}

\* A caller is shown rows of tenants he could be shown since he asked, each under the
\* tenant whose label its value reads as, whatever other callers have cached and however
\* the query and the tenants were edited meanwhile: an archived tenant does not come back
\* from the cache.  Only callers of all tenants see the rows of a global query.  Of a loose
\* text with no scope_field nothing is promised (NoRowOutOfReach).
RowsAreInReach ==
  \A q \in Answers : LET r == req[q] IN
    /\ r.text.spl = "global" => r.who = {} /\ r.pick = None
    /\ r.text.field => \A row \in r.rows : <<Str[row[1]], row[2]>> \in reach[q]
    /\ ~r.text.field /\ r.text.spl \in {"labels", "ids"} =>
         \A row \in r.rows : \E p \in reach[q] : p[1] = row[1]

\* No tenant is missing from an answer for being cached, shared or filtered: every label
\* the caller could be shown all the time has its rows, unless spl.quoted drops it or the
\* filter on the rows reads it as another number.
RowsAreComplete ==
  \A q \in Answers : LET r == req[q] IN r.text.spl \in {"labels", "loose"} =>
    \A p \in held[q] : p[1] \notin Unsafe /\ (r.text.field => Str[p[1]] = p[1]) =>
      \E row \in r.rows : row[1] = p[1]

\* As the docstrings have it, "$tenant_labels$ ... their SOAR labels" (spl.py:9), of all of
\* them, with the rows "filtered again after" (service.py:6-7): also a label that quoted
\* drops, or that looks like a number.
EveryLabelIsAsked ==
  \A q \in Answers : req[q].text.spl = "labels" =>
    \A p \in held[q] : \E row \in req[q].rows : row[1] = p[1]

\* "tenant_token queries filter inside the SPL with the caller's tenants" (service.py:6): no
\* row of another tenant is shown, also by a text that only names the token, or for a
\* label that is another way to write the number.
NoRowOutOfReach ==
  \A q \in Answers : req[q].text.spl # "global" =>
    \A row \in req[q].rows : \E p \in reach[q] : p[1] = row[1] /\ row[2] \in {p[2], None}

\* When and for which end of the window each open request asked, and what is shown.
asking == [q \in Requests |-> IF Open(q) THEN req[q].asked ELSE None]
wanted == [q \in Requests |-> IF Open(q) THEN req[q].end ELSE None]
answer == [q \in Requests |-> IF q \in Answers THEN [at |-> req[q].at, end |-> req[q].until] ELSE None]

Freshness == INSTANCE BoundedStaleness WITH
  Requests <- Requests, Slack <- CacheSeconds, None <- None,
  now <- now, asked <- asking, end <- wanted, shown <- answer

\* The age of what is shown: QueryRuns implements BoundedStaleness.
AnswersAreFresh == Freshness!Spec
=============================================================================
