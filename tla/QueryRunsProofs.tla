--------------------------- MODULE QueryRunsProofs ---------------------------
(* What answers of the catalog hold: proofs for any callers, tenants, labels, *)
(* texts, cache times and number of requests and edits.                       *)
EXTENDS QueryRuns, FiniteSetTheorems, TLAPS

Row == Labels \X Tenants
Time == Nat \cup {None}
Value == Labels \cup (Labels \X (Tenants \cup {None}))
Request ==
  [pc : {"free", "scope", "search", "found", "answered"}, who : SUBSET Tenants,
   pick : Tenants \cup {None}, text : Texts \cup {None}, asked : Time, end : Time,
   ids : SUBSET Tenants, map : SUBSET Row, stamp : Time,
   rows : SUBSET Value, at : Time, until : Time]

TypeOK ==
  /\ now \in Nat /\ text \in Texts
  /\ tenant \in [Tenants -> [label : Labels, archived : BOOLEAN]]
  /\ req \in [Requests -> Request]
  /\ reach \in [Requests -> SUBSET Row] /\ held \in [Requests -> SUBSET Row]

\* An entry was read after its stamp, over a window of its bucket, and holds what Splunk
\* finds for its filter.
EntryOK(k) ==
  LET e == cache[k] IN
  /\ e.stamp \in Nat /\ e.at \in Nat /\ e.until \in Nat
  /\ e.stamp <= e.at /\ e.at <= now /\ e.until <= now
  /\ k.bucket = e.until \div CacheSeconds
  /\ e.rows = Found(k.spl, k.filter)

\* The clock was read in the order asked, stamp, at.
Timed(q) ==
  LET r == req[q] IN
  /\ Open(q) => /\ r.asked \in Nat /\ r.asked <= now
                /\ r.end \in Nat /\ r.end <= now
  /\ r.pc \in {"search", "found"} => r.stamp \in Nat /\ r.asked <= r.stamp /\ r.stamp <= now
  /\ r.pc = "found" => r.at \in Nat /\ r.stamp <= r.at /\ r.at <= now

\* What a request asks for is within the reach of its caller, and names all he holds.
ScopedBy(r, could, always) ==
  /\ r.map \subseteq could
  /\ \A t \in r.ids : <<t, t>> \in could
  /\ \A p \in always : \E m \in r.map : m[1] = p[1]
  /\ r.text.spl = "global" => r.who = {} /\ r.pick = None

AnswerOf(r, could, always) ==
  /\ r.text.spl = "global" => r.who = {} /\ r.pick = None
  /\ r.text.field => \A row \in r.rows : <<Str[row[1]], row[2]>> \in could
  /\ ~r.text.field /\ r.text.spl \in {"labels", "ids"} =>
       \A row \in r.rows : \E p \in could : p[1] = row[1]
  /\ r.text.spl \in {"labels", "loose"} =>
       \A p \in always : p[1] \notin Unsafe /\ (r.text.field => Str[p[1]] = p[1]) =>
         \E row \in r.rows : row[1] = p[1]

Scoped(q) ==
  LET r == req[q] IN
  /\ r.pc = "scope" => /\ Shown(r.who, r.pick) \subseteq reach[q]
                       /\ held[q] \subseteq Named(r.who, r.pick)
                       /\ r.text \in Texts
  /\ r.pc \in {"search", "found"} => ScopedBy(r, reach[q], held[q]) /\ r.text \in Texts
  /\ r.pc = "found" => r.rows = Found(r.text.spl, Rendered(r))
  /\ r.pc = "answered" => AnswerOf(r, reach[q], held[q])

CacheOK == \A k \in DOMAIN cache : EntryOK(k)
IInv == TypeOK /\ CacheOK /\ \A q \in Requests : Timed(q) /\ Scoped(q)

----------------------------------------------------------------------------
(* Facts about the operators. *)

LEMMA FreeType == Free \in Request /\ Free.pc = "free" /\ Free.rows = {}
  BY DEF Free, Request, Time

LEMMA FoundLabels ==
  ASSUME NEW x, NEW filter PROVE Found(x, filter) \subseteq Labels
  BY DEF Found

\* Numbers of one bucket are less than its width apart.
LEMMA SameBucket ==
  ASSUME NEW c \in Nat \ {0}, NEW x \in Nat, NEW y \in Nat, x \div c = y \div c
  PROVE  x - c < y /\ y < x + c
<1>1. x = (c * (x \div c)) + (x % c) /\ x % c \in 0..(c - 1)
  BY SMT
<1>2. y = (c * (y \div c)) + (y % c) /\ y % c \in 0..(c - 1)
  BY SMT
<1>3. c * (x \div c) = c * (y \div c)
  BY Zenon
<1>4. c * (x \div c) \in Int
  BY SMT
<1> QED
  BY <1>1, <1>2, <1>3, <1>4

LEMMA ScopeTypes ==
  ASSUME TypeOK, NEW who, NEW pick
  PROVE  /\ InScope(who, pick) \subseteq Tenants
         /\ Named(who, pick) \subseteq Shown(who, pick)
         /\ Shown(who, pick) \subseteq Row
         /\ \A t \in InScope(who, pick) : <<t, t>> \in Shown(who, pick)
<1> DEFINE scope == InScope(who, pick)
<1>1. scope \subseteq Tenants
  BY DEF InScope
<1>2. \A t \in Tenants : LabelOf(t) \in Row /\ <<t, t>> \in Row
  BY RunsAssumption DEF TypeOK, LabelOf, Row
<1>3. Named(who, pick) = {LabelOf(t) : t \in scope}
  BY DEF Named
<1>4. Shown(who, pick) = UNION {{LabelOf(t), <<t, t>>} : t \in scope}
  BY DEF Shown
<1> HIDE DEF scope
<1>5. \A t \in scope : LabelOf(t) \in Shown(who, pick) /\ <<t, t>> \in Shown(who, pick)
  BY <1>4
<1>6. Shown(who, pick) \subseteq Row
  BY <1>1, <1>2, <1>4
<1>7. Named(who, pick) \subseteq Shown(who, pick)
  BY <1>3, <1>5
<1> QED
  BY <1>1, <1>5, <1>6, <1>7 DEF scope

\* A map of labels names each label of the scope, and nothing else.
LEMMA MapsCover ==
  ASSUME NEW ids, NEW m \in Maps(ids)
  PROVE  /\ \A t \in ids : \E p \in m : p[1] = tenant[t].label
         /\ m \subseteq {LabelOf(t) : t \in ids}
<1>1. m \subseteq {LabelOf(t) : t \in ids}
  BY DEF Maps
<1>2. ASSUME NEW t \in ids PROVE \E p \in m : p[1] = tenant[t].label
  <2> DEFINE named == {p \in m : p[1] = tenant[t].label}
  <2>1. Cardinality(named) = 1
    BY DEF Maps
  <2>2. named # {}
    BY <2>1, FS_EmptySet
  <2> QED
    BY <2>2
<1> QED
  BY <1>1, <1>2

\* The filter on the rows keeps what is in reach, and all that was found of the map.
LEMMA KeptAnswers ==
  ASSUME NEW r \in Request, NEW could \in SUBSET Row, NEW always \in SUBSET Row,
         ScopedBy(r, could, always), r.text \in Texts,
         NEW rows, rows = Found(r.text.spl, Rendered(r)),
         NEW s, s.text = r.text, s.who = r.who, s.pick = r.pick, s.rows = Kept(r, rows)
  PROVE  AnswerOf(s, could, always)
<1>0. rows \subseteq Labels /\ r.map \subseteq Row /\ r.ids \subseteq Tenants
  BY FoundLabels DEF Request
<1>1. r.text.spl = "global" => s.who = {} /\ s.pick = None
  BY DEF ScopedBy
<1>2. ASSUME r.text.field, NEW row \in s.rows PROVE <<Str[row[1]], row[2]>> \in could
  <2>1. CASE <<Str[row[1]], row[2]>> \in r.map
    BY <2>1 DEF ScopedBy
  <2>2. CASE \E v \in (rows \cap r.ids) \ Numeric : row = <<v, v>>
    <3>1. PICK v \in (rows \cap r.ids) \ Numeric : row = <<v, v>>
      BY <2>2
    <3>2. Str[v] = v
      BY <1>0, RunsAssumption
    <3>3. <<v, v>> \in could
      BY DEF ScopedBy
    <3> QED
      BY <3>1, <3>2, <3>3
  <2> QED
    BY <1>2, <2>1, <2>2 DEF Kept
<1>3. ASSUME ~r.text.field, r.text.spl \in {"labels", "ids"}, NEW row \in s.rows
      PROVE  \E p \in could : p[1] = row[1]
  <2>1. row[1] \in rows
    BY <1>3 DEF Kept
  <2>2. row[1] \in Rendered(r)
    BY <1>3, <2>1 DEF Found
  <2>3. CASE r.text.spl = "ids"
    <3>1. <<row[1], row[1]>> \in could
      BY <2>2, <2>3 DEF Rendered, ScopedBy
    <3> QED
      BY <3>1
  <2>4. CASE r.text.spl = "labels"
    BY <2>2, <2>4 DEF Rendered, ScopedBy
  <2> QED
    BY <1>3, <2>3, <2>4
<1>4. ASSUME r.text.spl \in {"labels", "loose"}, NEW p \in always, p[1] \notin Unsafe,
             r.text.field => Str[p[1]] = p[1]
      PROVE  \E row \in s.rows : row[1] = p[1]
  <2>1. PICK m \in r.map : m[1] = p[1]
    BY DEF ScopedBy
  <2>2. m \in Row /\ m = <<m[1], m[2]>> /\ m[1] \in Labels /\ m[2] \in Tenants
    BY <1>0 DEF Row
  <2>3. m[1] \in Rendered(r)
    BY <1>4, <2>1 DEF Rendered
  <2>4. p[1] \in rows
    BY <1>4, <2>1, <2>2, <2>3 DEF Found
  <2>5. CASE r.text.field
    <3>1. <<p[1], m[2]>> \in rows \X Tenants /\ <<Str[p[1]], m[2]>> \in r.map
      BY <1>4, <2>1, <2>2, <2>4, <2>5
    <3>2. <<p[1], m[2]>> \in s.rows
      BY <2>5, <3>1 DEF Kept
    <3> QED
      BY <3>2
  <2>6. CASE ~r.text.field
    <3>1. <<p[1], None>> \in s.rows
      BY <2>4, <2>6 DEF Kept
    <3> QED
      BY <3>1
  <2> QED
    BY <2>5, <2>6
<1> QED
  BY <1>1, <1>2, <1>3, <1>4 DEF AnswerOf

----------------------------------------------------------------------------
(* Steps that leave a request alone. *)

\* The clock does not go back, and nothing else of q changes.
Untouched(q) ==
  /\ now' \in Nat /\ now <= now' /\ tenant' = tenant
  /\ req'[q] = req[q] /\ reach'[q] = reach[q] /\ held'[q] = held[q]

LEMMA UntouchedRequest ==
  ASSUME TypeOK, NEW q \in Requests, Timed(q), Scoped(q), Untouched(q)
  PROVE  Timed(q)' /\ Scoped(q)'
<1> DEFINE r == req[q]
<1>1. r' = r /\ Open(q)' = Open(q)
  BY DEF Untouched, Open
<1>2. Timed(q)'
  <2>1. Open(q) => r.asked <= now' /\ r.end <= now'
    BY DEF Untouched, Timed, TypeOK
  <2>2. r.pc \in {"search", "found"} => r.stamp <= now'
    BY DEF Untouched, Timed, TypeOK
  <2>3. r.pc = "found" => r.at <= now'
    BY DEF Untouched, Timed, TypeOK
  <2> QED
    BY <1>1, <2>1, <2>2, <2>3 DEF Timed
<1>3. Shown(r.who, r.pick)' = Shown(r.who, r.pick) /\ Named(r.who, r.pick)' = Named(r.who, r.pick)
  BY <1>1 DEF Untouched, Shown, Named, LabelOf, InScope
<1>4. Scoped(q)'
  BY <1>1, <1>3 DEF Untouched, Scoped
<1> QED
  BY <1>2, <1>4

LEMMA CacheKept ==
  ASSUME CacheOK, TypeOK, cache' = cache, now' \in Nat, now <= now'
  PROVE  CacheOK'
<1> SUFFICES ASSUME NEW k \in DOMAIN cache PROVE EntryOK(k)'
  BY DEF CacheOK
<1>1. EntryOK(k)
  BY DEF CacheOK
<1> QED
  BY <1>1 DEF EntryOK, TypeOK

\* A step of one request: the others keep what they have.
Only(q) ==
  /\ UNCHANGED <<now, db>>
  /\ \A p \in Requests \ {q} : req'[p] = req[p] /\ reach'[p] = reach[p] /\ held'[p] = held[p]

LEMMA OthersKept ==
  ASSUME IInv, NEW q \in Requests, Only(q), Timed(q)', Scoped(q)', TypeOK', CacheOK'
  PROVE  IInv'
<1> SUFFICES ASSUME NEW p \in Requests \ {q} PROVE Timed(p)' /\ Scoped(p)'
  BY DEF IInv
<1>1. Untouched(p)
  BY DEF Untouched, Only, db, IInv, TypeOK
<1> QED
  BY <1>1, UntouchedRequest DEF IInv

\* The request of q is set, and the cache left alone.
LEMMA SetRequest ==
  ASSUME IInv, NEW q \in Requests, NEW r \in Request,
         req' = [req EXCEPT ![q] = r], UNCHANGED <<now, db, cache, reach, held>>
  PROVE  TypeOK' /\ CacheOK' /\ Only(q) /\ req'[q] = r
<1>1. req' \in [Requests -> Request] /\ req'[q] = r
  BY DEF IInv, TypeOK
<1>2. TypeOK'
  BY <1>1 DEF IInv, TypeOK, db
<1>3. Only(q)
  BY DEF Only, IInv, TypeOK
<1>4. CacheOK'
  BY CacheKept DEF IInv, TypeOK
<1> QED
  BY <1>1, <1>2, <1>3, <1>4

LEMMA OverKeeps ==
  ASSUME IInv, NEW q \in Requests, Over(q), UNCHANGED <<now, db, cache>>
  PROVE  IInv'
<1>1. req' \in [Requests -> Request] /\ req'[q] = Free
  BY FreeType DEF Over, IInv, TypeOK
<1>2. TypeOK'
  BY <1>1 DEF Over, IInv, TypeOK, db, Row
<1>3. Only(q)
  BY DEF Only, Over, IInv, TypeOK
<1>4. CacheOK'
  BY CacheKept DEF IInv, TypeOK
<1>5. Timed(q)' /\ Scoped(q)'
  BY <1>1, FreeType DEF Timed, Scoped, Open
<1> QED
  BY <1>2, <1>3, <1>4, <1>5, OthersKept

LEMMA KeptType ==
  ASSUME NEW r \in Request, NEW rows, rows \subseteq Labels
  PROVE  Kept(r, rows) \subseteq Labels \X (Tenants \cup {None})
<1>1. r.ids \subseteq Tenants
  BY DEF Request
<1> QED
  BY <1>1 DEF Kept

LEMMA AnsweredKeeps ==
  ASSUME IInv, NEW q \in Requests, NEW r \in Request, ScopedBy(r, reach[q], held[q]),
         r.text \in Texts, NEW rows, rows = Found(r.text.spl, Rendered(r)),
         NEW at \in Nat, NEW until \in Nat, Answered(q, r, rows, at, until),
         UNCHANGED <<now, db>>, CacheOK'
  PROVE  IInv'
<1> DEFINE s == [Free EXCEPT !.pc = "answered", !.who = r.who, !.pick = r.pick, !.text = r.text,
                             !.rows = Kept(r, rows), !.at = at, !.until = until]
<1>1. Kept(r, rows) \subseteq Labels \X (Tenants \cup {None})
  BY KeptType, FoundLabels
<1>2. s \in Request
  <2>1. Kept(r, rows) \in SUBSET Value /\ at \in Time /\ until \in Time
    BY <1>1 DEF Value, Time
  <2>2. r.who \in SUBSET Tenants /\ r.pick \in Tenants \cup {None} /\ r.text \in Texts \cup {None}
    BY DEF Request
  <2> DEFINE asker == [Free EXCEPT !.pc = "answered", !.who = r.who, !.pick = r.pick, !.text = r.text]
  <2>3. asker \in Request
    BY <2>2, FreeType DEF Request
  <2>4. s = [asker EXCEPT !.rows = Kept(r, rows), !.at = at, !.until = until]
    OBVIOUS
  <2> HIDE DEF asker, s
  <2> QED
    BY <2>1, <2>3, <2>4 DEF Request
<1>3. s.pc = "answered" /\ s.text = r.text /\ s.who = r.who /\ s.pick = r.pick /\ s.rows = Kept(r, rows)
  BY DEF Free
<1>4. req' = [req EXCEPT ![q] = s] /\ UNCHANGED <<reach, held>>
  BY DEF Answered
<1> HIDE DEF s
<1>5. req' \in [Requests -> Request] /\ req'[q] = s
  BY <1>2, <1>4 DEF IInv, TypeOK
<1>6. TypeOK'
  BY <1>4, <1>5 DEF IInv, TypeOK, db
<1>7. Only(q)
  BY <1>4 DEF Only, IInv, TypeOK
<1>8. AnswerOf(s, reach[q], held[q])
  BY <1>3, KeptAnswers DEF IInv, TypeOK
<1>9. Timed(q)' /\ Scoped(q)'
  BY <1>3, <1>4, <1>5, <1>8 DEF Timed, Scoped, Open
<1> QED
  BY <1>6, <1>7, <1>9, OthersKept

----------------------------------------------------------------------------
(* The steps. *)

LEMMA InitOK == Init => IInv
<1> SUFFICES ASSUME Init PROVE IInv
  OBVIOUS
<1>1. \A q \in Requests : req[q] = Free
  BY DEF Init
<1>2. TypeOK
  BY FreeType, RunsAssumption DEF Init, TypeOK
<1>3. CacheOK
  BY DEF Init, CacheOK
<1> QED
  BY <1>1, <1>2, <1>3, FreeType DEF IInv, Timed, Scoped, Open

LEMMA TickOK == IInv /\ Tick => IInv'
<1> SUFFICES ASSUME IInv, Tick PROVE IInv'
  OBVIOUS
<1>1. now' \in Nat /\ now <= now'
  BY DEF Tick, IInv, TypeOK
<1>2. TypeOK'
  BY <1>1 DEF Tick, IInv, TypeOK, db
<1>3. CacheOK'
  BY <1>1, CacheKept DEF Tick, IInv
<1>4. \A q \in Requests : Untouched(q)
  BY <1>1 DEF Tick, Untouched, db
<1> QED
  BY <1>2, <1>3, <1>4, UntouchedRequest DEF IInv

LEMMA AskOK ==
  ASSUME IInv, NEW q \in Requests, NEW a \in Asking, NEW e \in {0, now}, Ask(q, a[1], a[2], e)
  PROVE  IInv'
<1> DEFINE r == [Free EXCEPT !.pc = "scope", !.who = a[1], !.pick = a[2],
                             !.text = text, !.asked = now, !.end = e]
<1>1. a[1] \in SUBSET Tenants /\ a[2] \in Tenants \cup {None}
  BY RunsAssumption
<1>2. r \in Request
  <2>1. text \in Texts /\ now \in Nat /\ e \in Nat
    BY DEF IInv, TypeOK
  <2> QED
    BY <1>1, <2>1, FreeType DEF Request, Time
<1>3. r.pc = "scope" /\ r.who = a[1] /\ r.pick = a[2] /\ r.text \in Texts /\ r.asked = now /\ r.end = e
  BY DEF Free, IInv, TypeOK
<1>4. /\ req' = [req EXCEPT ![q] = r] /\ UNCHANGED <<now, db, cache>>
      /\ reach' = [reach EXCEPT ![q] = Shown(a[1], a[2])]
      /\ held' = [held EXCEPT ![q] = Named(a[1], a[2])]
  BY DEF Ask
<1> HIDE DEF r
<1>5. req' \in [Requests -> Request] /\ req'[q] = r
  BY <1>2, <1>4 DEF IInv, TypeOK
<1>6. Shown(a[1], a[2]) \subseteq Row /\ Named(a[1], a[2]) \subseteq Row
  BY ScopeTypes DEF IInv
<1>7. TypeOK'
  BY <1>4, <1>5, <1>6 DEF IInv, TypeOK, db
<1>8. CacheOK'
  BY <1>4, CacheKept DEF IInv, TypeOK
<1>9. Only(q)
  BY <1>4 DEF Only, IInv, TypeOK
<1>10. reach'[q] = Shown(a[1], a[2]) /\ held'[q] = Named(a[1], a[2])
  BY <1>4 DEF IInv, TypeOK
<1>11. Shown(r.who, r.pick)' = Shown(a[1], a[2]) /\ Named(r.who, r.pick)' = Named(a[1], a[2])
  BY <1>3, <1>4 DEF Shown, Named, InScope, LabelOf, db, r
<1>12. Scoped(q)'
  <2>1. req'[q].who = a[1] /\ req'[q].pick = a[2]
    BY <1>3, <1>5
  <2>2. /\ Shown(req[q].who, req[q].pick)' = Shown(a[1], a[2])
        /\ Named(req[q].who, req[q].pick)' = Named(a[1], a[2])
    BY <2>1, <1>4 DEF Shown, Named, InScope, LabelOf, db
  <2> QED
    BY <1>3, <1>5, <1>10, <2>2 DEF Scoped
<1>13. Timed(q)'
  BY <1>3, <1>4, <1>5 DEF Timed, Open, IInv, TypeOK
<1> QED
  BY <1>7, <1>8, <1>9, <1>12, <1>13, OthersKept

LEMMA SearchOK == ASSUME IInv, NEW q \in Requests, Search(q) PROVE IInv'
<1> DEFINE r == req[q]
           rows == Found(r.text.spl, Rendered(r))
           s == [r EXCEPT !.pc = "found", !.at = now, !.rows = rows]
<1>0. Timed(q) /\ Scoped(q) /\ r.pc = "search" /\ r \in Request /\ now \in Nat
  BY DEF Search, IInv, TypeOK
<1>1. rows \subseteq Value
  BY FoundLabels DEF Value
<1>2. /\ req' = [req EXCEPT ![q] = s] /\ UNCHANGED <<now, db, cache, reach, held>>
  BY DEF Search
<1> HIDE DEF rows
<1>3. s \in Request
  BY <1>0, <1>1 DEF Request, Time
<1>4. /\ s.pc = "found" /\ s.at = now /\ s.rows = rows /\ s.who = r.who /\ s.pick = r.pick
      /\ s.text = r.text /\ s.asked = r.asked /\ s.end = r.end /\ s.ids = r.ids /\ s.map = r.map
      /\ s.stamp = r.stamp
  BY <1>0 DEF Request
<1> HIDE DEF s
<1>5. TypeOK' /\ CacheOK' /\ Only(q) /\ req'[q] = s
  BY <1>2, <1>3, SetRequest
<1>6. Timed(q)'
  BY <1>0, <1>2, <1>4, <1>5 DEF Timed, Open
<1>7. Scoped(q)'
  <2>1. Rendered(s) = Rendered(r)
    BY <1>4 DEF Rendered
  <2>2. s.rows = Found(s.text.spl, Rendered(s)) /\ ScopedBy(s, reach[q], held[q]) /\ s.text \in Texts
    BY <1>0, <1>4, <2>1 DEF Scoped, ScopedBy, rows
  <2> QED
    BY <1>2, <1>4, <1>5, <2>2 DEF Scoped, ScopedBy, Rendered
<1> QED
  BY <1>5, <1>6, <1>7, OthersKept

LEMMA FailOK == ASSUME IInv, NEW q \in Requests, Fail(q) PROVE IInv'
  BY OverKeeps DEF Fail

LEMMA ResolveOK == ASSUME IInv, NEW q \in Requests, Resolve(q) PROVE IInv'
<1> DEFINE o == req[q]
           ids == InScope(o.who, o.pick)
           R(map) == [o EXCEPT !.ids = ids, !.map = map]
<1>0. /\ o.pc = "scope" /\ o \in Request /\ Timed(q) /\ Scoped(q) /\ now \in Nat
      /\ UNCHANGED <<now, db, cache>>
  BY DEF Resolve, IInv, TypeOK
<1>1. PICK map \in Maps(ids) :
        \/ Over(q)
        \/ /\ R(map).text.spl = "global" => R(map).who = {} /\ R(map).pick = None
           /\ \/ /\ Hit(R(map))
                 /\ LET e == cache[Key(R(map))] IN Answered(q, R(map), e.rows, e.at, e.until)
              \/ /\ req' = [req EXCEPT ![q] = [R(map) EXCEPT !.pc = "search", !.stamp = now]]
                 /\ UNCHANGED <<reach, held>>
  BY DEF Resolve
<1> DEFINE r == R(map)
<1>2. ids \subseteq Tenants /\ (\A t \in ids : <<t, t>> \in Shown(o.who, o.pick))
      /\ Named(o.who, o.pick) \subseteq Shown(o.who, o.pick) /\ Shown(o.who, o.pick) \subseteq Row
  BY ScopeTypes DEF IInv
<1>3. map \subseteq Named(o.who, o.pick)
  BY MapsCover DEF Named
<1>4. map \subseteq Row
  BY <1>2, <1>3
<1>5. /\ r \in Request /\ r.pc = "scope" /\ r.who = o.who /\ r.pick = o.pick /\ r.text = o.text
      /\ r.asked = o.asked /\ r.end = o.end /\ r.ids = ids /\ r.map = map
  BY <1>0, <1>2, <1>4 DEF Request
<1>6. \A p \in held[q] : \E m \in map : m[1] = p[1]
  <2> SUFFICES ASSUME NEW p \in held[q] PROVE \E m \in map : m[1] = p[1]
    OBVIOUS
  <2>1. PICK t \in ids : p = LabelOf(t)
    BY <1>0 DEF Scoped, Named
  <2> QED
    BY <2>1, MapsCover DEF LabelOf
<1>7. CASE Over(q)
  BY <1>0, <1>7, OverKeeps
<1> HIDE DEF R, ids
<1>8. ASSUME r.text.spl = "global" => r.who = {} /\ r.pick = None
      PROVE  ScopedBy(r, reach[q], held[q]) /\ r.text \in Texts
  BY <1>0, <1>2, <1>3, <1>5, <1>6, <1>8 DEF Scoped, ScopedBy
<1>9. CASE /\ r.text.spl = "global" => r.who = {} /\ r.pick = None
           /\ Hit(r) /\ Answered(q, r, cache[Key(r)].rows, cache[Key(r)].at, cache[Key(r)].until)
  <2> DEFINE e == cache[Key(r)]
  <2>1. EntryOK(Key(r))
    BY <1>9 DEF Hit, IInv, CacheOK
  <2>2. Key(r).spl = r.text.spl /\ Key(r).filter = Rendered(r)
    BY DEF Key
  <2>3. e.rows = Found(r.text.spl, Rendered(r)) /\ e.at \in Nat /\ e.until \in Nat
    BY <2>1, <2>2 DEF EntryOK
  <2>4. CacheOK'
    BY <1>0, CacheKept DEF IInv
  <2>5. Answered(q, r, e.rows, e.at, e.until) /\ UNCHANGED <<now, db>>
    BY <1>0, <1>9
  <2> HIDE DEF e
  <2> QED
    BY <1>5, <1>8, <1>9, <2>3, <2>4, <2>5, AnsweredKeeps
<1>10. CASE /\ r.text.spl = "global" => r.who = {} /\ r.pick = None
            /\ req' = [req EXCEPT ![q] = [r EXCEPT !.pc = "search", !.stamp = now]]
            /\ UNCHANGED <<reach, held>>
  <2> DEFINE s == [r EXCEPT !.pc = "search", !.stamp = now]
  <2>1. /\ s \in Request /\ s.pc = "search" /\ s.stamp = now /\ s.who = r.who /\ s.pick = r.pick
        /\ s.text = r.text /\ s.asked = r.asked /\ s.end = r.end /\ s.ids = r.ids /\ s.map = r.map
    <3> HIDE DEF r
    <3> QED
      BY <1>0, <1>5 DEF Request, Time
  <2>2. req' = [req EXCEPT ![q] = s]
    BY <1>10
  <2> HIDE DEF s
  <2>3. TypeOK' /\ CacheOK' /\ Only(q) /\ req'[q] = s
    BY <1>0, <1>10, <2>1, <2>2, SetRequest
  <2>4. Timed(q)'
    BY <1>0, <1>5, <2>1, <2>3 DEF Timed, Open
  <2>5. Scoped(q)'
    BY <1>8, <1>10, <2>1, <2>3 DEF Scoped, ScopedBy
  <2> QED
    BY <2>3, <2>4, <2>5, OthersKept
<1> QED
  BY <1>1, <1>7, <1>9, <1>10 DEF R

LEMMA FinishOK == ASSUME IInv, NEW q \in Requests, Finish(q) PROVE IInv'
<1> DEFINE r == req[q]
           young == {k \in DOMAIN cache : r.stamp - cache[k].stamp < Keep}
           entry == [stamp |-> r.stamp, at |-> r.at, until |-> r.end, rows |-> r.rows]
<1>0. /\ r.pc = "found" /\ r \in Request /\ Timed(q) /\ Scoped(q) /\ now \in Nat
      /\ UNCHANGED <<now, db>> /\ Answered(q, r, r.rows, r.at, r.end)
      /\ cache' = [k \in young \cup {Key(r)} |-> IF k = Key(r) THEN entry ELSE cache[k]]
  BY DEF Finish, IInv, TypeOK
<1>1. /\ r.stamp \in Nat /\ r.at \in Nat /\ r.end \in Nat /\ r.stamp <= r.at /\ r.at <= now
      /\ r.end <= now
  BY <1>0 DEF Timed, Open
<1>2. ScopedBy(r, reach[q], held[q]) /\ r.text \in Texts
      /\ r.rows = Found(r.text.spl, Rendered(r))
  BY <1>0 DEF Scoped
<1>3. /\ Key(r).spl = r.text.spl /\ Key(r).filter = Rendered(r)
      /\ Key(r).bucket = r.end \div CacheSeconds
  BY DEF Key
<1>4. CacheOK'
  <2> HIDE DEF entry, young, r
  <2> SUFFICES ASSUME NEW k \in young \cup {Key(r)} PROVE EntryOK(k)'
    BY <1>0 DEF CacheOK
  <2>1. CASE k = Key(r)
    <3>1. cache'[k] = entry
      BY <1>0, <2>1
    <3> QED
      BY <1>0, <1>1, <1>2, <1>3, <2>1, <3>1 DEF EntryOK, entry
  <2>2. CASE k # Key(r)
    <3>1. cache'[k] = cache[k]
      BY <1>0, <2>2
    <3>2. EntryOK(k)
      BY <2>2 DEF IInv, CacheOK, young
    <3> QED
      BY <1>0, <3>1, <3>2 DEF EntryOK
  <2> QED
    BY <2>1, <2>2
<1> HIDE DEF r
<1> QED
  BY <1>0, <1>1, <1>2, <1>4, AnsweredKeeps

\* An edit of a tenant is witnessed by every open request.
LEMMA WitnessedKeeps ==
  ASSUME IInv, Witnessed, UNCHANGED <<now, cache, req, text>>,
         tenant' \in [Tenants -> [label : Labels, archived : BOOLEAN]]
  PROVE  IInv'
<1>1. \A q \in Requests : (Shown(req[q].who, req[q].pick)') \subseteq Row
  <2> SUFFICES ASSUME NEW q \in Requests PROVE (Shown(req[q].who, req[q].pick)') \subseteq Row
    OBVIOUS
  <2>1. \A t \in Tenants : <<tenant'[t].label, t>> \in Row /\ <<t, t>> \in Row
    BY RunsAssumption DEF Row
  <2> QED
    BY <2>1 DEF Shown, LabelOf, InScope
<1>2. \A q \in Requests : Open(q)' = Open(q)
  BY DEF Open
<1>3. /\ reach' = [q \in Requests |-> IF Open(q) THEN reach[q] \cup Shown(req[q].who, req[q].pick)'
                                              ELSE reach[q]]
      /\ held' = [q \in Requests |-> IF Open(q) THEN held[q] \cap Named(req[q].who, req[q].pick)'
                                             ELSE held[q]]
  BY DEF Witnessed
<1>4. TypeOK'
  BY <1>1, <1>3 DEF IInv, TypeOK
<1>5. CacheOK'
  BY CacheKept DEF IInv, TypeOK
<1>6. ASSUME NEW q \in Requests PROVE Timed(q)' /\ Scoped(q)'
  <2> DEFINE r == req[q]
  <2>0. Timed(q) /\ Scoped(q) /\ r' = r
    BY DEF IInv
  <2>1. Timed(q)'
    BY <1>2, <2>0 DEF Timed
  <2>2. CASE Open(q)
    <3>1. /\ reach'[q] = reach[q] \cup Shown(r.who, r.pick)'
          /\ held'[q] = held[q] \cap Named(r.who, r.pick)'
      BY <1>3, <2>2
    <3>2. r.pc # "answered"
      BY <2>2 DEF Open
    <3>3. r.pc \in {"search", "found"} => ScopedBy(r, reach'[q], held'[q])
      BY <2>0, <3>1 DEF Scoped, ScopedBy
    <3> QED
      BY <2>0, <2>1, <3>1, <3>2, <3>3 DEF Scoped
  <2>3. CASE ~Open(q)
    <3>1. reach'[q] = reach[q] /\ held'[q] = held[q]
      BY <1>3, <2>3
    <3> QED
      BY <2>0, <2>1, <2>3, <3>1 DEF Scoped, Open
  <2> QED
    BY <2>2, <2>3
<1> QED
  BY <1>4, <1>5, <1>6 DEF IInv

LEMMA SetLabelOK ==
  ASSUME IInv, NEW t \in Tenants, NEW l \in Labels, SetLabel(t, l) PROVE IInv'
<1>1. tenant' \in [Tenants -> [label : Labels, archived : BOOLEAN]]
  BY DEF SetLabel, IInv, TypeOK
<1> QED
  BY <1>1, WitnessedKeeps DEF SetLabel, Edit

LEMMA ArchiveOK == ASSUME IInv, NEW t \in Tenants, Archive(t) PROVE IInv'
<1>1. tenant' \in [Tenants -> [label : Labels, archived : BOOLEAN]]
  BY DEF Archive, IInv, TypeOK
<1> QED
  BY <1>1, WitnessedKeeps DEF Archive, Edit

LEMMA EditTextOK == ASSUME IInv, NEW x \in Texts, EditText(x) PROVE IInv'
<1>1. TypeOK'
  BY DEF EditText, Edit, IInv, TypeOK
<1>2. CacheOK'
  BY CacheKept DEF EditText, Edit, IInv, TypeOK
<1>3. \A q \in Requests : Untouched(q)
  BY DEF EditText, Edit, Untouched, IInv, TypeOK
<1> QED
  BY <1>1, <1>2, <1>3, UntouchedRequest DEF IInv

LEMMA StutterOK == IInv /\ UNCHANGED vars => IInv'
<1> SUFFICES ASSUME IInv, UNCHANGED vars PROVE IInv'
  OBVIOUS
<1>1. TypeOK'
  BY DEF vars, db, IInv, TypeOK
<1>2. CacheOK'
  BY CacheKept DEF vars, IInv, TypeOK
<1>3. \A q \in Requests : Untouched(q)
  BY DEF vars, db, Untouched, IInv, TypeOK
<1> QED
  BY <1>1, <1>2, <1>3, UntouchedRequest DEF IInv

LEMMA NextOK == IInv /\ [Next]_vars => IInv'
<1> SUFFICES ASSUME IInv, [Next]_vars PROVE IInv'
  OBVIOUS
<1>1. CASE Tick
  BY <1>1, TickOK
<1>2. ASSUME NEW q \in Requests, NEW a \in Asking, NEW e \in {0, now}, Ask(q, a[1], a[2], e)
      PROVE  IInv'
  BY <1>2, AskOK
<1>3. ASSUME NEW q \in Requests, Resolve(q) \/ Search(q) \/ Fail(q) \/ Finish(q) PROVE IInv'
  BY <1>3, ResolveOK, SearchOK, FailOK, FinishOK
<1>4. ASSUME NEW t \in Tenants, NEW l \in Labels, SetLabel(t, l) PROVE IInv'
  BY <1>4, SetLabelOK
<1>5. ASSUME NEW t \in Tenants, Archive(t) PROVE IInv'
  BY <1>5, ArchiveOK
<1>6. ASSUME NEW x \in Texts, EditText(x) PROVE IInv'
  BY <1>6, EditTextOK
<1>7. CASE UNCHANGED vars
  BY <1>7, StutterOK
<1> QED
  BY <1>1, <1>2, <1>3, <1>4, <1>5, <1>6, <1>7 DEF Next

LEMMA Inductive == Spec => []IInv
  BY InitOK, NextOK, PTL DEF Spec

----------------------------------------------------------------------------
(* What is shown. *)

\* A caller is shown only rows of tenants he could be shown since he asked, whatever
\* others have cached (_execute) and however tenants and the query are edited: where there
\* is a scope_field by what their value reads as, and by the filter in the SPL otherwise.
THEOREM InReach == Spec => []RowsAreInReach
<1>1. IInv => RowsAreInReach
  BY DEF IInv, RowsAreInReach, Answers, Scoped, AnswerOf
<1> QED
  BY <1>1, Inductive, PTL

\* No label that could be shown all the time is missing from an answer for being cached
\* for another, shared by two tenants or filtered (_run_spl), but for those quoted drops
\* and those a filter on the rows reads as another number (_typed).
THEOREM Complete == Spec => []RowsAreComplete
<1>1. IInv => RowsAreComplete
  BY DEF IInv, RowsAreComplete, Answers, Scoped, AnswerOf
<1> QED
  BY <1>1, Inductive, PTL

----------------------------------------------------------------------------
(* The age of what is shown: the refinement of BoundedStaleness. *)

AskedBy(q) == IF Open(q) THEN req[q].asked ELSE None
EndBy(q) == IF Open(q) THEN req[q].end ELSE None
ShownTo(q) == IF req[q].pc = "answered" THEN [at |-> req[q].at, end |-> req[q].until] ELSE None

LEMMA Views ==
  /\ asking = [q \in Requests |-> AskedBy(q)]
  /\ wanted = [q \in Requests |-> EndBy(q)]
  /\ answer = [q \in Requests |-> ShownTo(q)]
  BY DEF asking, wanted, answer, AskedBy, EndBy, ShownTo, Answers

LEMMA OneView ==
  ASSUME NEW q \in Requests, \A p \in Requests \ {q} : req'[p] = req[p]
  PROVE  /\ asking' = [asking EXCEPT ![q] = AskedBy(q)']
         /\ wanted' = [wanted EXCEPT ![q] = EndBy(q)']
         /\ answer' = [answer EXCEPT ![q] = ShownTo(q)']
  BY DEF asking, wanted, answer, AskedBy, EndBy, ShownTo, Answers, Open

\* Where the three views of q stay, nothing is seen.
LEMMA Unseen ==
  ASSUME NEW q \in Requests, \A p \in Requests \ {q} : req'[p] = req[p], now' = now,
         AskedBy(q)' = AskedBy(q), EndBy(q)' = EndBy(q), ShownTo(q)' = ShownTo(q)
  PROVE  UNCHANGED <<now, asking, wanted, answer>>
  BY OneView, Views

LEMMA FreshInit == Init => Freshness!Init
<1> SUFFICES ASSUME Init PROVE Freshness!Init
  OBVIOUS
<1>1. \A q \in Requests : AskedBy(q) = None /\ EndBy(q) = None /\ ShownTo(q) = None
  BY FreeType DEF Init, AskedBy, EndBy, ShownTo, Open
<1> QED
  BY <1>1, Views DEF Init, Freshness!Init

LEMMA AskShown ==
  ASSUME IInv, NEW q \in Requests, NEW a \in Asking, NEW e \in {0, now}, Ask(q, a[1], a[2], e)
  PROVE  Freshness!Ask(q)
<1> DEFINE r == [Free EXCEPT !.pc = "scope", !.who = a[1], !.pick = a[2],
                             !.text = text, !.asked = now, !.end = e]
<1>1. r.pc = "scope" /\ r.asked = now /\ r.end = e
  BY DEF Free
<1>2. req' = [req EXCEPT ![q] = r] /\ ~Open(q) /\ now' = now
  BY DEF Ask, Open
<1> HIDE DEF r
<1>3. req'[q] = r /\ \A p \in Requests \ {q} : req'[p] = req[p]
  BY <1>2 DEF IInv, TypeOK
<1>4. AskedBy(q)' = now /\ EndBy(q)' = e /\ ShownTo(q)' = None
  BY <1>1, <1>3 DEF AskedBy, EndBy, ShownTo, Open
<1>5. asking[q] = None
  BY <1>2, Views DEF AskedBy
<1>6. e \in 0..now
  BY DEF IInv, TypeOK
<1> QED
  BY <1>2, <1>3, <1>4, <1>5, <1>6, OneView DEF Freshness!Ask

LEMMA OpenViews ==
  ASSUME IInv, NEW q \in Requests, Open(q)
  PROVE  /\ asking[q] = req[q].asked /\ wanted[q] = req[q].end /\ answer[q] = None
         /\ asking[q] # None /\ req[q].asked \in Nat /\ req[q].end \in Nat
<1>1. req[q].asked \in Nat /\ req[q].end \in Nat /\ req[q].pc # "answered"
  BY DEF IInv, Timed, Open
<1> QED
  BY <1>1, Views, RunsAssumption DEF AskedBy, EndBy, ShownTo

LEMMA OverShown ==
  ASSUME IInv, NEW q \in Requests, Open(q), Over(q), now' = now
  PROVE  Freshness!Refuse(q)
<1>1. req'[q] = Free /\ \A p \in Requests \ {q} : req'[p] = req[p]
  BY DEF Over, IInv, TypeOK
<1>2. AskedBy(q)' = None /\ EndBy(q)' = None /\ ShownTo(q)' = None
  BY <1>1, FreeType DEF AskedBy, EndBy, ShownTo, Open
<1>3. answer' = answer
  BY <1>1, <1>2, OneView, OpenViews, Views
<1> QED
  BY <1>1, <1>2, <1>3, OneView, OpenViews DEF Freshness!Refuse, Freshness!Close

LEMMA AnsweredShown ==
  ASSUME IInv, NEW q \in Requests, Open(q), now' = now, NEW r, NEW rows,
         NEW at \in 0..now, NEW until \in 0..now, Answered(q, r, rows, at, until),
         req[q].asked - CacheSeconds < at,
         req[q].end - CacheSeconds < until, until < req[q].end + CacheSeconds
  PROVE  Freshness!Answer(q)
<1> DEFINE s == [Free EXCEPT !.pc = "answered", !.who = r.who, !.pick = r.pick, !.text = r.text,
                             !.rows = Kept(r, rows), !.at = at, !.until = until]
<1>1. s.pc = "answered" /\ s.at = at /\ s.until = until
  BY DEF Free
<1>2. req' = [req EXCEPT ![q] = s]
  BY DEF Answered
<1> HIDE DEF s
<1>3. req'[q] = s /\ \A p \in Requests \ {q} : req'[p] = req[p]
  BY <1>2 DEF IInv, TypeOK
<1>4. AskedBy(q)' = None /\ EndBy(q)' = None /\ ShownTo(q)' = [at |-> at, end |-> until]
  BY <1>1, <1>3 DEF AskedBy, EndBy, ShownTo, Open
<1>5. /\ asking' = [asking EXCEPT ![q] = None] /\ wanted' = [wanted EXCEPT ![q] = None]
      /\ answer' = [answer EXCEPT ![q] = [at |-> at, end |-> until]]
  BY <1>3, <1>4, OneView
<1>6. /\ asking[q] # None /\ asking[q] - CacheSeconds < at
      /\ Freshness!Near(until, wanted[q])
  BY OpenViews DEF Freshness!Near
<1> QED
  BY <1>5, <1>6 DEF Freshness!Answer, Freshness!Close

LEMMA ResolveShown ==
  ASSUME IInv, NEW q \in Requests, Resolve(q)
  PROVE  Freshness!Next \/ UNCHANGED <<now, asking, wanted, answer>>
<1> DEFINE o == req[q]
           ids == InScope(o.who, o.pick)
           R(map) == [o EXCEPT !.ids = ids, !.map = map]
<1>0. /\ o.pc = "scope" /\ o \in Request /\ Timed(q) /\ Open(q) /\ now' = now /\ now \in Nat
  BY DEF Resolve, IInv, TypeOK, Open
<1>1. PICK map \in Maps(ids) :
        \/ Over(q)
        \/ /\ Hit(R(map))
           /\ LET e == cache[Key(R(map))] IN Answered(q, R(map), e.rows, e.at, e.until)
        \/ req' = [req EXCEPT ![q] = [R(map) EXCEPT !.pc = "search", !.stamp = now]]
  BY DEF Resolve
<1> DEFINE r == R(map)
<1>2. /\ r.asked = o.asked /\ r.end = o.end
      /\ DOMAIN r = DOMAIN o
  BY <1>0 DEF Request
<1>3. CASE Over(q)
  BY <1>0, <1>3, OverShown DEF Freshness!Next
<1> HIDE DEF R, ids
<1>4. CASE Hit(r) /\ Answered(q, r, cache[Key(r)].rows, cache[Key(r)].at, cache[Key(r)].until)
  <2> DEFINE e == cache[Key(r)]
  <2>1. EntryOK(Key(r)) /\ now - e.stamp < CacheSeconds
    BY <1>4 DEF Hit, IInv, CacheOK
  <2>2. /\ e.stamp \in Nat /\ e.at \in Nat /\ e.until \in Nat /\ e.stamp <= e.at /\ e.at <= now
        /\ e.until <= now /\ Key(r).bucket = e.until \div CacheSeconds
    BY <2>1 DEF EntryOK
  <2>3. o.asked \in Nat /\ o.end \in Nat /\ o.asked <= now /\ o.end <= now
    BY <1>0 DEF Timed
  <2>4. Key(r).bucket = o.end \div CacheSeconds
    BY <1>2 DEF Key
  <2>5. CacheSeconds \in Nat \ {0}
    BY RunsAssumption
  <2> HIDE DEF e
  <2>6. o.end - CacheSeconds < e.until /\ e.until < o.end + CacheSeconds
    <3> DEFINE until == e.until
               end == o.end
    <3>1. end \div CacheSeconds = until \div CacheSeconds
      BY <2>2, <2>4
    <3>2. end \in Nat /\ until \in Nat
      BY <2>2, <2>3
    <3> HIDE DEF end, until
    <3>3. end - CacheSeconds < until /\ until < end + CacheSeconds
      BY <2>5, <3>1, <3>2, SameBucket
    <3> QED
      BY <3>3 DEF end, until
  <2>7. o.asked - CacheSeconds < e.at
    BY <1>0, <2>1, <2>2, <2>3, <2>5 DEF e
  <2>8. e.at \in 0..now /\ e.until \in 0..now
    BY <1>0, <2>2
  <2>9. Answered(q, r, e.rows, e.at, e.until)
    BY <1>4 DEF e
  <2> QED
    BY <1>0, <2>6, <2>7, <2>8, <2>9, AnsweredShown DEF Freshness!Next
<1>5. CASE req' = [req EXCEPT ![q] = [r EXCEPT !.pc = "search", !.stamp = now]]
  <2> DEFINE s == [r EXCEPT !.pc = "search", !.stamp = now]
  <2>1. s.pc = "search" /\ s.asked = o.asked /\ s.end = o.end
    <3> HIDE DEF r
    <3> QED
      BY <1>0, <1>2 DEF Request
  <2> HIDE DEF s
  <2>2. req'[q] = s /\ \A p \in Requests \ {q} : req'[p] = req[p]
    BY <1>5 DEF s, IInv, TypeOK
  <2>3. AskedBy(q)' = AskedBy(q) /\ EndBy(q)' = EndBy(q) /\ ShownTo(q)' = ShownTo(q)
    BY <1>0, <2>1, <2>2 DEF AskedBy, EndBy, ShownTo, Open
  <2> QED
    BY <1>0, <2>2, <2>3, Unseen
<1> QED
  BY <1>1, <1>3, <1>4, <1>5 DEF R

LEMMA SearchUnseen ==
  ASSUME IInv, NEW q \in Requests, Search(q)
  PROVE  UNCHANGED <<now, asking, wanted, answer>>
<1> DEFINE r == req[q]
           s == [r EXCEPT !.pc = "found", !.at = now,
                          !.rows = Found(r.text.spl, Rendered(r))]
<1>0. r.pc = "search" /\ r \in Request /\ now' = now /\ req' = [req EXCEPT ![q] = s]
  BY DEF Search, IInv, TypeOK
<1>1. s.pc = "found" /\ s.asked = r.asked /\ s.end = r.end
  BY <1>0 DEF Request
<1> HIDE DEF s
<1>2. req'[q] = s /\ \A p \in Requests \ {q} : req'[p] = req[p]
  BY <1>0 DEF IInv, TypeOK
<1>3. AskedBy(q)' = AskedBy(q) /\ EndBy(q)' = EndBy(q) /\ ShownTo(q)' = ShownTo(q)
  BY <1>0, <1>1, <1>2 DEF AskedBy, EndBy, ShownTo, Open
<1> QED
  BY <1>0, <1>2, <1>3, Unseen

LEMMA FinishShown ==
  ASSUME IInv, NEW q \in Requests, Finish(q) PROVE Freshness!Answer(q)
<1> DEFINE r == req[q]
<1>1. r.pc = "found" /\ Open(q) /\ now' = now /\ Answered(q, r, r.rows, r.at, r.end)
  BY DEF Finish, Open
<1>2. /\ r.asked \in Nat /\ r.stamp \in Nat /\ r.at \in Nat /\ r.end \in Nat /\ r.asked <= r.stamp
      /\ r.stamp <= r.at /\ r.at <= now /\ r.end <= now /\ now \in Nat
  BY <1>1 DEF IInv, TypeOK, Timed
<1>3. CacheSeconds \in Nat \ {0}
  BY RunsAssumption
<1> HIDE DEF r
<1>4. r.at \in 0..now /\ r.end \in 0..now /\ r.asked - CacheSeconds < r.at
      /\ r.end - CacheSeconds < r.end /\ r.end < r.end + CacheSeconds
  BY <1>2, <1>3
<1> QED
  BY <1>1, <1>4, AnsweredShown DEF r

LEMMA FreshStep == IInv /\ [Next]_vars => [Freshness!Next]_<<now, asking, wanted, answer>>
<1> SUFFICES ASSUME IInv, [Next]_vars
             PROVE  Freshness!Next \/ UNCHANGED <<now, asking, wanted, answer>>
  OBVIOUS
<1>1. ASSUME req' = req PROVE UNCHANGED <<asking, wanted, answer>>
  BY <1>1 DEF asking, wanted, answer, Open, Answers
<1>2. CASE Tick
  BY <1>1, <1>2 DEF Tick, Freshness!Next, Freshness!Tick
<1>3. ASSUME NEW q \in Requests, NEW a \in Asking, NEW e \in {0, now}, Ask(q, a[1], a[2], e)
      PROVE  Freshness!Next
  BY <1>3, AskShown DEF Freshness!Next
<1>4. ASSUME NEW q \in Requests, Fail(q) PROVE Freshness!Next
  BY <1>4, OverShown DEF Fail, Open, Freshness!Next
<1>5. ASSUME NEW q \in Requests, Finish(q) PROVE Freshness!Next
  BY <1>5, FinishShown DEF Freshness!Next
<1>6. ASSUME (\E t \in Tenants, l \in Labels : SetLabel(t, l)) \/ (\E t \in Tenants : Archive(t))
             \/ (\E x \in Texts : EditText(x)) \/ UNCHANGED vars
      PROVE  UNCHANGED <<now, asking, wanted, answer>>
  BY <1>1, <1>6 DEF SetLabel, Archive, EditText, Edit, vars
<1> QED
  BY <1>2, <1>3, <1>4, <1>5, <1>6, ResolveShown, SearchUnseen DEF Next

\* QueryRuns implements BoundedStaleness: what _execute serves from its cache is never
\* as old as cache_seconds, nor its window as far from the one asked for, whatever the
\* order in which searches are sent and come back.
THEOREM Fresh == Spec => AnswersAreFresh
  BY Inductive, FreshInit, FreshStep, PTL
     DEF Spec, AnswersAreFresh, Freshness!Spec, Freshness!vars

=============================================================================
