------------------------- MODULE QueryCatalogProofs -------------------------
(* What may be sent to Splunk, and what a restart leaves alone: proofs for   *)
(* any editors, ids, texts and releases.                                     *)
EXTENDS QueryCatalog, FiniteSetTheorems, TLAPS

Wanted == [text : Texts, mode : Modes]

\* What a request carries at each point.
CarriesOK(q) ==
  /\ q.pc \in {"free", "insert", "rollback", "row", "commit", "delete"}
  /\ q.pc # "free" => q.id \in Ids
  /\ q.pc = "insert" => q.want \in Body
  /\ q.pc = "rollback" => q.want \in Texts
  /\ q.pc = "row" => q.want \in Patch
  /\ q.pc = "commit" => q.want \in Wanted /\ q.row \in Entry

\* The types of the catalog, of the texts in the history, and of the requests.
CatalogOK ==
  /\ catalog \in [Ids -> Entry \cup {None}]
  /\ \A v \in versions : v.text \in Texts
  /\ shipped \in Releases
  /\ req = [e \in Editors |-> req[e]] /\ \A e \in Editors : CarriesOK(req[e])

----------------------------------------------------------------------------
(* Types. *)

LEMMA ConstantTypes ==
  /\ First \in Releases
  /\ \A i \in Ids : \A b \in Bodies(i) : b \in Body
  /\ \A i \in Ids : \A p \in Patches(i) : p \in Patch
  /\ \A s \in Releases : DOMAIN s \subseteq Ids /\ \A i \in DOMAIN s : s[i] \in Body
  BY CatalogAssumption

LEMMA ShippedEntry ==
  ASSUME NEW b \in Body, NEW n \in Nat \ {0}
  PROVE  Shipped(b, n) \in Entry
  BY DEF Shipped, Body, Entry

LEMMA CatalogInit == Init => CatalogOK
<1> SUFFICES ASSUME Init PROVE CatalogOK
  OBVIOUS
<1>1. \A i \in DOMAIN First : First[i] \in Body /\ Shipped(First[i], 1) \in Entry
  BY ConstantTypes, ShippedEntry
<1>2. catalog \in [Ids -> Entry \cup {None}]
  BY <1>1 DEF Init
<1>3. \A v \in versions : v.text \in Texts
  BY <1>1 DEF Init, Body
<1>4. CarriesOK(Free)
  BY DEF CarriesOK, Free
<1> QED
  BY <1>2, <1>3, <1>4, ConstantTypes DEF Init, CatalogOK

\* A request that moves on and changes nothing else.
LEMMA RequestMoves ==
  ASSUME CatalogOK, NEW e \in Editors, NEW q, CarriesOK(q), req' = [req EXCEPT ![e] = q],
         catalog' \in [Ids -> Entry \cup {None}], \A v \in versions' : v.text \in Texts,
         shipped' = shipped
  PROVE  CatalogOK'
<1>1. req' = [x \in Editors |-> req'[x]]
  BY DEF CatalogOK
<1>2. \A x \in Editors : CarriesOK(req'[x])
  BY DEF CatalogOK
<1> QED
  BY <1>1, <1>2 DEF CatalogOK

LEMMA Responds ==
  ASSUME CatalogOK, NEW e \in Editors, Respond(e), shipped' = shipped,
         catalog' \in [Ids -> Entry \cup {None}], \A v \in versions' : v.text \in Texts
  PROVE  CatalogOK'
<1>1. CarriesOK(Free)
  BY DEF CarriesOK, Free
<1> QED
  BY <1>1, RequestMoves DEF Respond

LEMMA SaveType ==
  ASSUME CatalogOK, NEW e \in Editors, NEW i \in Ids, NEW p \in Patch, Save(e, i, p)
  PROVE  CatalogOK'
<1> DEFINE q == [Free EXCEPT !.pc = "row", !.id = i, !.want = p, !.frags = FragmentsOf(catalog)]
<1>1. CarriesOK(q)
  BY DEF CarriesOK, Free
<1> HIDE DEF q
<1>2. req' = [req EXCEPT ![e] = q] /\ UNCHANGED <<catalog, versions, shipped>>
  BY DEF Save, q
<1> QED
  BY <1>1, <1>2, RequestMoves DEF CatalogOK

LEMMA CreateType == ASSUME CatalogOK, NEW e \in Editors, Create(e) PROVE CatalogOK'
<1>0. PICK i \in Ids \ Stored :
        \E b \in Bodies(i) :
          req' = [req EXCEPT ![e] = [Free EXCEPT !.pc = "insert", !.id = i, !.want = b,
                                               !.frags = FragmentsOf(catalog)]]
  BY DEF Create
<1>1. PICK b \in Bodies(i) :
        req' = [req EXCEPT ![e] = [Free EXCEPT !.pc = "insert", !.id = i, !.want = b,
                                             !.frags = FragmentsOf(catalog)]]
  BY <1>0
<1>2. b \in Body
  BY ConstantTypes
<1> DEFINE q == [Free EXCEPT !.pc = "insert", !.id = i, !.want = b, !.frags = FragmentsOf(catalog)]
<1>3. CarriesOK(q)
  BY <1>2 DEF CarriesOK, Free
<1>4. req' = [req EXCEPT ![e] = q] /\ UNCHANGED <<catalog, versions, shipped>>
  BY <1>1 DEF Create
<1> HIDE DEF q
<1> QED
  BY <1>3, <1>4, RequestMoves DEF CatalogOK

LEMMA InsertType == ASSUME CatalogOK, NEW e \in Editors, Insert(e) PROVE CatalogOK'
<1> DEFINE q == req[e]
           row == [frag |-> q.want.frag, text |-> q.want.text, mode |-> q.want.mode,
                   builtin |-> FALSE, version |-> 1, by |-> "person"]
<1>1. q.id \in Ids /\ q.want \in Body
  BY DEF Insert, CatalogOK, CarriesOK
<1>2. row \in Entry /\ q.want.text \in Texts
  BY <1>1 DEF Body, Entry
<1>3. \/ UNCHANGED <<catalog, versions>>
      \/ /\ catalog' = [catalog EXCEPT ![q.id] = row]
         /\ versions' = versions \cup {Row(q.id, 1, q.want.text)}
  BY DEF Insert
<1> HIDE DEF row
<1>4. catalog' \in [Ids -> Entry \cup {None}]
  BY <1>2, <1>3 DEF CatalogOK
<1>5. \A v \in versions' : v.text \in Texts
  BY <1>2, <1>3 DEF CatalogOK, Row
<1> QED
  BY <1>4, <1>5, Responds DEF Insert

LEMMA UpdateType == ASSUME CatalogOK, NEW e \in Editors, Update(e) PROVE CatalogOK'
<1>0. PICK i \in Ids : \E p \in Patches(i) : Save(e, i, p)
  BY DEF Update
<1>1. PICK p \in Patches(i) : Save(e, i, p)
  BY <1>0
<1>2. p \in Patch
  BY ConstantTypes
<1> QED
  BY <1>1, <1>2, SaveType

LEMMA ResetType == ASSUME CatalogOK, NEW e \in Editors, Reset(e) PROVE CatalogOK'
<1>1. PICK i \in DOMAIN shipped :
        Save(e, i, [text |-> shipped[i].text, mode |-> shipped[i].mode])
  BY DEF Reset
<1>2. i \in Ids /\ shipped[i] \in Body
  BY ConstantTypes DEF CatalogOK
<1>3. [text |-> shipped[i].text, mode |-> shipped[i].mode] \in Patch
  BY <1>2 DEF Body, Patch
<1> QED
  BY <1>1, <1>2, <1>3, SaveType

LEMMA ReadVersionType == ASSUME CatalogOK, NEW e \in Editors, ReadVersion(e) PROVE CatalogOK'
<1>1. PICK i \in Ids, v \in versions :
        req' = [req EXCEPT ![e] = [Free EXCEPT !.pc = "rollback", !.id = i, !.want = v.text]]
  BY DEF ReadVersion
<1> DEFINE q == [Free EXCEPT !.pc = "rollback", !.id = i, !.want = v.text]
<1>2. CarriesOK(q)
  BY DEF CarriesOK, Free, CatalogOK
<1>3. req' = [req EXCEPT ![e] = q] /\ UNCHANGED <<catalog, versions, shipped>>
  BY <1>1 DEF ReadVersion
<1> HIDE DEF q
<1> QED
  BY <1>2, <1>3, RequestMoves DEF CatalogOK

LEMMA RollbackType == ASSUME CatalogOK, NEW e \in Editors, Rollback(e) PROVE CatalogOK'
<1>1. req[e].id \in Ids /\ req[e].want \in Texts
  BY DEF Rollback, CatalogOK, CarriesOK
<1>2. [text |-> req[e].want, mode |-> None] \in Patch
  BY <1>1 DEF Patch
<1>3. CASE Save(e, req[e].id, [text |-> req[e].want, mode |-> None])
  BY <1>1, <1>2, <1>3, SaveType
<1>4. CASE Respond(e) /\ UNCHANGED <<catalog, versions, shipped>>
  BY <1>4, Responds DEF CatalogOK
<1> QED
  BY <1>3, <1>4 DEF Rollback

\* What goes to the commit is a whole text and a whole mode.
LEMMA ReadEntryType == ASSUME CatalogOK, NEW e \in Editors, ReadEntry(e) PROVE CatalogOK'
<1> DEFINE q == req[e]
           row == catalog[q.id]
           text == IF q.want.text = None THEN row.text ELSE q.want.text
           mode == IF q.want.mode = None THEN row.mode ELSE q.want.mode
           next == [q EXCEPT !.pc = "commit", !.row = row, !.want = [text |-> text, mode |-> mode]]
<1>1. q.pc = "row" /\ q.id \in Ids /\ q.want \in Patch
  BY DEF ReadEntry, CatalogOK, CarriesOK
<1>2. UNCHANGED <<catalog, versions, shipped>>
  BY DEF ReadEntry
<1>3. CASE row # None /\ req' = [req EXCEPT ![e] = next]
  <2>1. row \in Entry
    BY <1>1, <1>3 DEF CatalogOK
  <2>2. text \in Texts /\ mode \in Modes
    BY <1>1, <2>1 DEF Patch, Entry
  <2>3. CarriesOK(next)
    BY <1>1, <2>1, <2>2 DEF CarriesOK, Wanted, CatalogOK
  <2> HIDE DEF next
  <2> QED
    BY <1>2, <1>3, <2>3, RequestMoves DEF CatalogOK
<1>4. CASE Respond(e)
  BY <1>2, <1>4, Responds DEF CatalogOK
<1> QED
  BY <1>3, <1>4 DEF ReadEntry, Respond

LEMMA CommitType == ASSUME CatalogOK, NEW e \in Editors, Commit(e) PROVE CatalogOK'
<1> DEFINE q == req[e]
           cur == catalog[q.id]
           row == [cur EXCEPT !.text = Column(cur.text, q.row.text, q.want.text),
                              !.mode = Column(cur.mode, q.row.mode, q.want.mode),
                              !.version = q.row.version + 1, !.by = "person"]
<1>1. q.id \in Ids /\ q.want \in Wanted /\ q.row \in Entry
  BY DEF Commit, CatalogOK, CarriesOK
<1>2. \/ UNCHANGED <<catalog, versions>>
      \/ /\ cur # None /\ catalog' = [catalog EXCEPT ![q.id] = row]
         /\ versions' = versions \cup {Row(q.id, q.row.version + 1, q.want.text)}
  BY DEF Commit
<1>3. cur # None => row \in Entry
  <2> SUFFICES ASSUME cur # None PROVE row \in Entry
    OBVIOUS
  <2> DEFINE text == Column(cur.text, q.row.text, q.want.text)
             mode == Column(cur.mode, q.row.mode, q.want.mode)
             number == q.row.version + 1
  <2>1. cur \in Entry
    BY <1>1 DEF CatalogOK
  <2>2. text \in Texts /\ mode \in Modes
    BY <1>1, <2>1 DEF Column, Wanted, Entry
  <2>3. number \in Nat \ {0}
    BY <1>1 DEF Entry
  <2> HIDE DEF text, mode, number
  <2>4. [cur EXCEPT !.text = text, !.mode = mode, !.version = number, !.by = "person"] \in Entry
    BY <2>1, <2>2, <2>3 DEF Entry
  <2> QED
    BY <2>4 DEF text, mode, number
<1> HIDE DEF row
<1>4. catalog' \in [Ids -> Entry \cup {None}]
  BY <1>2, <1>3 DEF CatalogOK
<1>5. \A v \in versions' : v.text \in Texts
  BY <1>1, <1>2 DEF CatalogOK, Row, Wanted
<1> QED
  BY <1>4, <1>5, Responds DEF Commit

LEMMA RemoveType == ASSUME CatalogOK, NEW e \in Editors, Remove(e) PROVE CatalogOK'
<1>1. PICK i \in Stored :
        req' = [req EXCEPT ![e] = [Free EXCEPT !.pc = "delete", !.id = i, !.want = Includers(i)]]
  BY DEF Remove
<1> DEFINE q == [Free EXCEPT !.pc = "delete", !.id = i, !.want = Includers(i)]
<1>2. CarriesOK(q)
  BY DEF CarriesOK, Free, Stored
<1>3. req' = [req EXCEPT ![e] = q] /\ UNCHANGED <<catalog, versions, shipped>>
  BY <1>1 DEF Remove
<1> HIDE DEF q
<1> QED
  BY <1>2, <1>3, RequestMoves DEF CatalogOK

LEMMA DeleteType == ASSUME CatalogOK, NEW e \in Editors, Delete(e) PROVE CatalogOK'
<1>1. catalog' \in [Ids -> Entry \cup {None}] /\ UNCHANGED <<versions, shipped>> /\ Respond(e)
  BY DEF Delete, CatalogOK
<1> QED
  BY <1>1, Responds DEF CatalogOK

\* What a restart writes are the release's entries; the rest it keeps or deletes.
LEMMA RestartType == ASSUME CatalogOK, Restart PROVE CatalogOK'
<1>1. PICK s \in Releases :
        LET missing == DOMAIN s \ Stored
            changed == {i \in DOMAIN s \cap Stored : Follows(i) /\ Differs(catalog[i], s[i])}
            dropped == {i \in Stored \ DOMAIN s : Follows(i)}
            number(i) == IF i \in missing THEN 1 ELSE catalog[i].version + 1
        IN /\ shipped' = s /\ req' = [e \in Editors |-> Free]
           /\ catalog' = [i \in Ids |->
                IF i \in missing \cup changed THEN Shipped(s[i], number(i))
                ELSE IF i \in dropped THEN None ELSE catalog[i]]
           /\ versions' = versions \cup {Row(i, number(i), s[i].text) : i \in missing \cup changed}
  BY DEF Restart
<1> DEFINE missing == DOMAIN s \ Stored
           changed == {i \in DOMAIN s \cap Stored : Follows(i) /\ Differs(catalog[i], s[i])}
           dropped == {i \in Stored \ DOMAIN s : Follows(i)}
           number(i) == IF i \in missing THEN 1 ELSE catalog[i].version + 1
<1>2. ASSUME NEW i \in missing \cup changed
      PROVE  number(i) \in Nat \ {0} /\ s[i] \in Body
  <2>1. i \in Ids /\ s[i] \in Body
    BY ConstantTypes
  <2>2. i \notin missing => catalog[i] \in Entry
    BY <2>1 DEF CatalogOK, Stored
  <2>3. i \notin missing => catalog[i].version \in Nat
    BY <2>2 DEF Entry
  <2> QED
    BY <2>1, <2>3
<1>3. \A i \in missing \cup changed : Shipped(s[i], number(i)) \in Entry /\ s[i].text \in Texts
  BY <1>2, ShippedEntry DEF Body
<1>4. catalog' \in [Ids -> Entry \cup {None}]
  <2>1. catalog' = [i \in Ids |-> IF i \in missing \cup changed THEN Shipped(s[i], number(i))
                                  ELSE IF i \in dropped THEN None ELSE catalog[i]]
    BY <1>1
  <2> HIDE DEF missing, changed, dropped, number
  <2> QED
    BY <1>3, <2>1 DEF CatalogOK
<1>5. \A v \in versions' : v.text \in Texts
  <2>1. versions' = versions \cup {Row(i, number(i), s[i].text) : i \in missing \cup changed}
    BY <1>1
  <2> HIDE DEF missing, changed, number
  <2> QED
    BY <1>3, <2>1 DEF CatalogOK, Row
<1>6. CarriesOK(Free)
  BY DEF CarriesOK, Free
<1> QED
  BY <1>1, <1>4, <1>5, <1>6 DEF CatalogOK

LEMMA CatalogStep == CatalogOK /\ [Next]_vars => CatalogOK'
<1> SUFFICES ASSUME CatalogOK, [Next]_vars PROVE CatalogOK'
  OBVIOUS
<1>1. ASSUME NEW e \in Editors, Edit(e) PROVE CatalogOK'
  <2>1. CASE Abort(e)
    BY <2>1, Responds DEF Abort, CatalogOK
  <2> QED
    BY <1>1, <2>1, CreateType, InsertType, UpdateType, ResetType, ReadVersionType, RollbackType,
       ReadEntryType, CommitType, RemoveType, DeleteType DEF Edit
<1>2. ASSUME NEW everything \in BOOLEAN, Run(everything) PROVE CatalogOK'
  <2>1. UNCHANGED <<catalog, versions, req, shipped>>
    BY <1>2 DEF Run, RunQuery, TestQuery, RunAdhoc, Send
  <2> QED
    BY <2>1 DEF CatalogOK
<1>3. CASE UNCHANGED vars
  BY <1>3 DEF CatalogOK, vars
<1> QED
  BY <1>1, <1>2, <1>3, RestartType DEF Next

LEMMA CatalogAlways == Spec => []CatalogOK
  BY CatalogInit, CatalogStep, PTL DEF Spec

----------------------------------------------------------------------------
(* The theorems. *)

\* What passes the checks of a run filters by tenant, or its mode is global.
LEMMA ClearedFilters ==
  ASSUME NEW text, NEW mode \in Modes, NEW everything \in BOOLEAN, Cleared(text, mode, everything)
  PROVE  everything \/ Filters(text, FragmentsOf(catalog))
  BY DEF Cleared, Valid, Modes

\* A search that filters, or whose caller sees and asks for everything, leaves bare false.
LEMMA FilteredSend ==
  ASSUME ~bare, NEW text, NEW everything, Send(text, everything),
         everything \/ Filters(text, FragmentsOf(catalog))
  PROVE  ~bare'
  BY Zenon DEF Send

LEMMA RunKeepsBare ==
  ASSUME CatalogOK, ~bare, NEW everything \in BOOLEAN, Run(everything)
  PROVE  ~bare'
<1>1. CASE RunQuery(everything)
  <2>1. PICK i \in Stored : /\ Cleared(catalog[i].text, catalog[i].mode, everything)
                           /\ Send(catalog[i].text, everything)
    BY <1>1, Zenon DEF RunQuery
  <2>2. catalog[i].mode \in Modes
    BY DEF CatalogOK, Stored, Entry
  <2> QED
    BY <2>1, <2>2, ClearedFilters, FilteredSend, Zenon
<1>2. CASE TestQuery(everything)
  BY <1>2, ClearedFilters, FilteredSend, Zenon DEF TestQuery
<1>3. CASE RunAdhoc(everything)
  <2>1. PICK text \in Drafts :
          Send(text, everything \/ ~Filters(text, FragmentsOf(catalog)))
    BY <1>3, Zenon DEF RunAdhoc
  <2> QED
    BY <2>1, FilteredSend, Zenon
<1> QED
  BY <1>1, <1>2, <1>3, Zenon DEF Run

\* No search goes out without a tenant filter for a caller who does not see all tenants and
\* ask for them all, whatever races and restarts have left in the catalog: _run_spl checks
\* the text again, on the catalog it reads.
THEOREM SearchesAreFiltered == Spec => []RunsAreFiltered
<1>1. Init => RunsAreFiltered
  BY DEF Init, RunsAreFiltered
<1>2. CatalogOK /\ RunsAreFiltered /\ [Next]_vars => RunsAreFiltered'
  <2> SUFFICES ASSUME CatalogOK, ~bare, [Next]_vars PROVE ~bare'
    BY DEF RunsAreFiltered
  <2>1. ASSUME NEW e \in Editors, Edit(e) PROVE bare' = bare
    BY <2>1 DEF Edit, Create, Insert, Update, Reset, ReadVersion, Rollback, Save, ReadEntry, Commit,
                Remove, Delete, Abort
  <2>2. ASSUME NEW everything \in BOOLEAN, Run(everything) PROVE ~bare'
    BY <2>2, RunKeepsBare
  <2> QED
    BY <2>1, <2>2 DEF Next, Restart, vars
<1> QED
  BY <1>1, <1>2, CatalogAlways, PTL DEF Spec

\* An entry changes by a commit or a deletion that names it, or is the system's.
LEMMA EditTouches ==
  ASSUME CatalogOK, NEW e \in Editors, Edit(e), NEW i \in Stored, catalog'[i] # catalog[i]
  PROVE  req[e].id = i /\ req[e].pc \in {"commit", "delete"} /\ restarts' = restarts
<1>1. i \in Ids /\ catalog \in [Ids -> Entry \cup {None}]
  BY DEF CatalogOK, Stored
<1>2. CASE Insert(e)
  BY <1>1, <1>2 DEF Insert, Stored
<1>3. CASE Commit(e)
  <2>1. req[e].pc = "commit" /\ restarts' = restarts
    BY <1>3 DEF Commit
  <2>2. \E row : catalog' = [catalog EXCEPT ![req[e].id] = row]
    BY <1>3 DEF Commit
  <2> QED
    BY <1>1, <2>1, <2>2
<1>4. CASE Delete(e)
  BY <1>1, <1>4 DEF Delete
<1>5. CASE Create(e) \/ Update(e) \/ Reset(e) \/ ReadVersion(e) \/ Rollback(e) \/ ReadEntry(e)
           \/ Remove(e) \/ Abort(e)
  BY <1>5 DEF Create, Update, Reset, ReadVersion, Rollback, Save, ReadEntry, Remove, Abort
<1> QED
  BY <1>2, <1>3, <1>4, <1>5 DEF Edit

\* seed_data_queries leaves alone what a person has saved, whichever release comes: such an
\* entry changes by nothing but another save or a deletion of it.
THEOREM EditsSurvive == Spec => EditsSurviveRestarts
<1> DEFINE Touched(i) == /\ restarts' = restarts
                         /\ \E e \in Editors : req[e].id = i /\ req[e].pc \in {"commit", "delete"}
<1>1. ASSUME CatalogOK, [Next]_vars, NEW i \in Stored, catalog[i].by = "person", catalog'[i] # catalog[i]
      PROVE  Touched(i)
  <2>1. CASE \E e \in Editors : Edit(e)
    BY <1>1, <2>1, EditTouches
  <2>2. ~Restart
    <3> SUFFICES ASSUME Restart PROVE FALSE
      OBVIOUS
    <3>1. i \in Ids /\ ~Follows(i)
      BY <1>1 DEF CatalogOK, Stored, Follows
    <3> QED
      BY <1>1, <3>1 DEF Restart
  <2>3. ~\E everything \in BOOLEAN : Run(everything)
    BY <1>1 DEF Run, RunQuery, TestQuery, RunAdhoc, Send
  <2> QED
    BY <1>1, <2>1, <2>2, <2>3 DEF Next, vars
<1>2. CatalogOK /\ [Next]_vars =>
        [\A i \in Stored : catalog[i].by = "person" /\ catalog'[i] # catalog[i] => Touched(i)]_vars
  BY <1>1
<1> QED
  BY <1>2, CatalogAlways, PTL DEF Spec, EditsSurviveRestarts
----------------------------------------------------------------------------
(* Includes: the layers of a text, and what the checks of a save establish   *)
(* when it meets the catalog it was checked on.                              *)

\* Some numbers have a smallest one: Nat is well founded.
LEMMA Smallest ==
  ASSUME NEW S \in SUBSET Nat, S # {}
  PROVE  \E m \in S : \A k \in S : m =< k
<1> DEFINE Less == {p \in Nat \X Nat : p[1] < p[2]}
<1>1. IsWellFoundedOn(Less, Nat)
  BY NatLessThanWellFounded DEF OpToRel
<1> HIDE DEF Less
<1>2. PICK m \in S : \A k \in S : <<k, m>> \notin Less
  BY <1>1, WFMin
<1>3. \A k \in S : <<k, m>> \in Less \/ m =< k
  BY DEF Less
<1> QED
  BY <1>2, <1>3

\* The layer after these ids.
After(ids, frags) == UNION {frags[f].incl : f \in ids \cap DOMAIN frags}

LEMMA LayersUnfold ==
  ASSUME NEW text, NEW frags
  PROVE  Layers(text, frags) =
           [n \in 0..MaxDepth |-> IF n = 0 THEN text.incl ELSE After(Layers(text, frags)[n - 1], frags)]
<1> DEFINE Unfolds(g, n) ==
             g = [k \in 0..n |-> IF k = 0 THEN text.incl ELSE After(g[k - 1], frags)]
           Bad == {n \in 0..MaxDepth : \A g : ~Unfolds(g, n)}
<1>1. Bad = {}
  <2> SUFFICES ASSUME Bad # {} PROVE FALSE
    OBVIOUS
  <2>1. Bad \in SUBSET Nat /\ Bad \subseteq 0..MaxDepth /\ MaxDepth \in Nat
    BY CatalogAssumption
  <2> HIDE DEF Bad
  <2>2. PICK m \in Bad : \A k \in Bad : m =< k
    BY <2>1, Smallest
  <2>3. CASE m = 0
    <3>1. Unfolds([k \in 0..0 |-> text.incl], 0)
      OBVIOUS
    <3> QED
      BY <2>3, <3>1 DEF Bad
  <2>4. CASE m # 0
    <3>1. m - 1 \in 0..MaxDepth /\ m - 1 \notin Bad /\ m \in Nat
      BY <2>1, <2>2, <2>4
    <3>2. PICK g : Unfolds(g, m - 1)
      BY <3>1 DEF Bad
    <3> DEFINE h == [k \in 0..m |-> IF k = m THEN After(g[m - 1], frags) ELSE g[k]]
    <3>3. \A k \in 0..(m - 1) : g[k] = IF k = 0 THEN text.incl ELSE After(g[k - 1], frags)
      BY <3>2
    <3>4. ASSUME NEW k \in 0..m PROVE h[k] = IF k = 0 THEN text.incl ELSE After(h[k - 1], frags)
      <4>1. CASE k = m
        BY <4>1, <2>4, <3>1
      <4>2. CASE k # m
        <5>1. k \in 0..(m - 1) /\ h[k] = g[k] /\ (k # 0 => k - 1 \in 0..m /\ k - 1 # m)
          BY <3>1, <4>2
        <5> QED
          BY <3>3, <5>1
      <4> QED
        BY <4>1, <4>2
    <3>5. h = [k \in 0..m |-> h[k]]
      OBVIOUS
    <3> HIDE DEF h
    <3>6. Unfolds(h, m)
      BY <3>4, <3>5
    <3> QED
      BY <3>6 DEF Bad
  <2> QED
    BY <2>3, <2>4
<1>2. MaxDepth \in 0..MaxDepth
  BY CatalogAssumption
<1>3. PICK g : Unfolds(g, MaxDepth)
  BY <1>1, <1>2
<1> QED
  BY <1>3 DEF Layers, After

LEMMA LayersAt ==
  ASSUME NEW text, NEW frags
  PROVE  /\ 0 \in 0..MaxDepth /\ Layers(text, frags)[0] = text.incl
         /\ \A n \in 0..MaxDepth : n # 0 => Layers(text, frags)[n] = After(Layers(text, frags)[n - 1], frags)
<1> DEFINE L == Layers(text, frags)
<1>1. 0 \in 0..MaxDepth
  BY CatalogAssumption
<1>2. L = [n \in 0..MaxDepth |-> IF n = 0 THEN text.incl ELSE After(L[n - 1], frags)]
  BY LayersUnfold
<1> HIDE DEF L
<1>3. L[0] = text.incl /\ \A n \in 0..MaxDepth : n # 0 => L[n] = After(L[n - 1], frags)
  BY <1>1, <1>2
<1> QED
  BY <1>1, <1>3 DEF L

\* Nothing leads on and on from a text that expands: to a set of ids each of which, if it is
\* a fragment, includes another of the set.
LEMMA NothingEndless ==
  ASSUME NEW text, NEW frags, Expands(text, frags), NEW C, text.incl \cap C # {},
         \A c \in C \cap DOMAIN frags : frags[c].incl \cap C # {}
  PROVE  FALSE
<1> DEFINE L == Layers(text, frags)
           Bad == {n \in 0..MaxDepth : L[n] \cap C = {}}
<1>1. /\ L[0] = text.incl /\ \A n \in 0..MaxDepth : n # 0 => L[n] = After(L[n - 1], frags)
      /\ MaxDepth \in Nat /\ MaxDepth \in 0..MaxDepth
  BY CatalogAssumption, LayersAt
<1>2. \A n \in 0..MaxDepth : L[n] \subseteq DOMAIN frags
  BY DEF Expands, Reached
<1>3. L[MaxDepth] = {}
  BY DEF Expands
<1> HIDE DEF L
<1>4. MaxDepth \in Bad
  BY <1>1, <1>3
<1> HIDE DEF Bad
<1>5. PICK m \in Bad : \A k \in Bad : m =< k
  <2>1. Bad \in SUBSET Nat
    BY DEF Bad
  <2> QED
    BY <1>1, <1>4, <2>1, Smallest
<1>6. CASE m = 0
  BY <1>1, <1>6 DEF Bad
<1>7. CASE m # 0
  <2>1. m \in 0..MaxDepth /\ m - 1 \in 0..MaxDepth /\ m - 1 \notin Bad
    BY <1>1, <1>5, <1>7 DEF Bad
  <2>2. PICK c \in C : c \in L[m - 1]
    BY <2>1 DEF Bad
  <2>3. c \in DOMAIN frags
    BY <1>2, <2>1, <2>2
  <2>4. PICK d \in C : d \in frags[c].incl
    BY <2>3
  <2>5. d \in L[m]
    BY <1>1, <1>7, <2>1, <2>2, <2>3, <2>4 DEF After
  <2> QED
    BY <2>5 DEF Bad
<1> QED
  BY <1>6, <1>7

\* The layers of a text, from the second on, are those of the fragments it includes.
LEMMA LayersFromBelow ==
  ASSUME NEW text, NEW frags, NEW n \in 0..MaxDepth, n # 0, NEW x \in Layers(text, frags)[n]
  PROVE  \E f \in text.incl \cap DOMAIN frags : x \in Layers(frags[f], frags)[n - 1]
<1> DEFINE L(t) == Layers(t, frags)
           Bad == {k \in 0..n : k # 0 /\ \E y \in L(text)[k] :
                     \A f \in text.incl \cap DOMAIN frags : y \notin L(frags[f])[k - 1]}
<1>1. \A t : /\ L(t)[0] = t.incl
             /\ \A k \in 0..MaxDepth : k # 0 => L(t)[k] = After(L(t)[k - 1], frags)
  BY LayersAt
<1>2. n \in Nat /\ \A k \in 0..n : k \in 0..MaxDepth
  BY CatalogAssumption
<1> HIDE DEF L
<1>3. SUFFICES ASSUME Bad # {} PROVE FALSE
  <2>1. n \in 0..n
    BY <1>2
  <2> QED
    BY <2>1 DEF L
<1>4. Bad \in SUBSET Nat
  OBVIOUS
<1> HIDE DEF Bad
<1>5. PICK m \in Bad : \A k \in Bad : m =< k
  BY <1>2, <1>3, <1>4, Smallest
<1>6. m \in 0..n /\ m # 0 /\ m - 1 \in 0..n /\ m - 1 \notin Bad
  BY <1>2, <1>5 DEF Bad
<1>7. PICK y \in L(text)[m] : \A f \in text.incl \cap DOMAIN frags : y \notin L(frags[f])[m - 1]
  BY <1>5 DEF Bad
<1>8. PICK g \in L(text)[m - 1] \cap DOMAIN frags : y \in frags[g].incl
  BY <1>1, <1>2, <1>6, <1>7 DEF After
<1>9. CASE m - 1 = 0
  BY <1>1, <1>7, <1>8, <1>9
<1>10. CASE m - 1 # 0
  <2>1. PICK f \in text.incl \cap DOMAIN frags : g \in L(frags[f])[m - 1 - 1]
    BY <1>6, <1>8, <1>10 DEF Bad
  <2>2. y \in L(frags[f])[m - 1]
    BY <1>1, <1>2, <1>6, <1>8, <1>10, <2>1 DEF After
  <2> QED
    BY <1>7, <2>1, <2>2
<1> QED
  BY <1>9, <1>10

\* What a save was checked against: the fragments, with its own text among them.
Under(q) ==
  IF q.row.frag
  THEN [i \in DOMAIN q.frags \cup {q.id} |-> IF i = q.id THEN q.want.text ELSE q.frags[i]]
  ELSE q.frags

Checked(q) ==
  /\ q.pc = "insert" => Expands(q.want.text, q.frags)
  /\ q.pc = "commit" => Expands(q.want.text, Under(q))
  /\ q.pc = "delete" => q.want = {}
AllChecked == \A e \in Editors : Checked(req[e])

\* What is not loose includes fragments, or what is loose; and no ids that are not loose
\* lead on and on to one another.
Local ==
  \A i \in Stored \ loose : catalog[i].text.incl \subseteq DOMAIN FragmentsOf(catalog) \cup loose
Endless(C) == C # {} /\ \A i \in C : catalog[i].text.incl \cap C # {}
Acyclic == \A C \in SUBSET (Stored \ loose) : ~Endless(C)

LEMMA FragmentFacts ==
  /\ DOMAIN FragmentsOf(catalog) = {i \in Ids : catalog[i] # None /\ catalog[i].frag}
  /\ DOMAIN FragmentsOf(catalog) \subseteq Stored
  /\ \A i \in DOMAIN FragmentsOf(catalog) : FragmentsOf(catalog)[i] = catalog[i].text
  BY DEF FragmentsOf, Stored

LEMMA ResolveFollows ==
  ASSUME Local, Acyclic
  PROVE  IncludesResolve
<1> DEFINE frags == FragmentsOf(catalog)
           L(i) == Layers(catalog[i].text, frags)
<1> SUFFICES ASSUME NEW i \in Stored,
                    NEW below, below = Reached(catalog[i].text, frags),
                    ({i} \cup below) \cap loose = {}
             PROVE  below \subseteq DOMAIN frags /\ i \notin below
  BY DEF IncludesResolve
<1>1. \A j : /\ L(j)[0] = catalog[j].text.incl
             /\ \A k \in 0..MaxDepth : k # 0 => L(j)[k] = After(L(j)[k - 1], frags)
  BY LayersAt
<1>2. below = UNION {L(i)[n] : n \in 0..MaxDepth}
  BY DEF Reached
<1>3. /\ DOMAIN frags \subseteq Stored /\ \A f \in DOMAIN frags : frags[f] = catalog[f].text
  BY FragmentFacts
<1>4. \A j \in Stored \ loose : catalog[j].text.incl \subseteq DOMAIN frags \cup loose
  BY DEF Local
<1>5. MaxDepth \in Nat
  BY CatalogAssumption
<1>6. \A f \in DOMAIN frags : L(f) = Layers(frags[f], frags)
  BY <1>3
<1>7. \A n \in 0..MaxDepth : n # 0 => \A x \in L(i)[n] :
        \E f \in catalog[i].text.incl \cap DOMAIN frags : x \in L(f)[n - 1]
  BY <1>6, LayersFromBelow
<1>8. ASSUME NEW j \in DOMAIN frags, NEW n \in 0..MaxDepth, n # 0, NEW x \in L(j)[n]
      PROVE  \E f \in catalog[j].text.incl \cap DOMAIN frags : x \in L(f)[n - 1]
  BY <1>6, <1>8, LayersFromBelow
<1> HIDE DEF L, frags
<1>9. below \subseteq DOMAIN frags
  <2> SUFFICES ASSUME NEW n \in 0..MaxDepth, NEW x \in L(i)[n] PROVE x \in DOMAIN frags
    BY <1>2
  <2>1. x \notin loose
    BY <1>2
  <2>2. CASE n = 0
    BY <1>1, <1>4, <2>1, <2>2
  <2>3. CASE n # 0
    <3>1. n - 1 \in 0..MaxDepth
      BY <1>5, <2>3
    <3>2. PICK f \in L(i)[n - 1] \cap DOMAIN frags : x \in frags[f].incl
      BY <1>1, <2>3 DEF After
    <3>3. f \in Stored \ loose /\ x \in catalog[f].text.incl
      BY <1>2, <1>3, <3>1, <3>2
    <3> QED
      BY <1>4, <2>1, <3>3
  <2> QED
    BY <2>2, <2>3
<1>10. ASSUME i \in below PROVE FALSE
  <2>1. PICK n \in 0..MaxDepth : i \in L(i)[n]
    BY <1>2, <1>10
  <2> DEFINE C == {i} \cup {x \in below : \E m \in 0..MaxDepth :
                               m < n /\ x \in L(i)[m] /\ i \in L(x)[n - m - 1]}
  <2>2. C \in SUBSET (Stored \ loose) /\ C # {}
    BY <1>3, <1>9
  <2>3. catalog[i].text.incl \cap C # {}
    <3>1. CASE n = 0
      BY <1>1, <2>1, <3>1
    <3>2. CASE n # 0
      <4>1. PICK f \in catalog[i].text.incl \cap DOMAIN frags : i \in L(f)[n - 1]
        BY <1>7, <2>1, <3>2
      <4>2. f \in L(i)[0] /\ 0 \in 0..MaxDepth /\ 0 < n /\ n - 0 - 1 = n - 1
        BY <1>1, <1>5, <3>2, <4>1
      <4>3. f \in below
        BY <1>2, <4>2
      <4> QED
        BY <4>1, <4>2, <4>3
    <3> QED
      BY <3>1, <3>2
  <2>4. ASSUME NEW x \in C, x # i PROVE catalog[x].text.incl \cap C # {}
    <3>1. PICK m \in 0..MaxDepth : m < n /\ x \in L(i)[m] /\ i \in L(x)[n - m - 1]
      BY <2>4
    <3>2. x \in DOMAIN frags /\ frags[x] = catalog[x].text
      BY <1>3, <1>9, <2>4
    <3>3. CASE n - m - 1 = 0
      BY <1>1, <3>1, <3>3
    <3>4. CASE n - m - 1 # 0
      <4>1. /\ n - m - 1 \in 0..MaxDepth /\ m + 1 \in 0..MaxDepth /\ m + 1 < n /\ m + 1 # 0
            /\ n - m - 1 - 1 = n - (m + 1) - 1 /\ m + 1 - 1 = m
        BY <1>5, <3>1, <3>4
      <4>2. PICK f \in catalog[x].text.incl \cap DOMAIN frags : i \in L(f)[n - m - 1 - 1]
        BY <1>8, <3>1, <3>2, <3>4, <4>1
      <4>3. f \in L(i)[m + 1]
        <5>1. L(i)[m + 1] = After(L(i)[m], frags)
          BY <1>1, <4>1
        <5> QED
          BY <3>1, <3>2, <4>2, <5>1 DEF After
      <4>4. f \in below
        BY <1>2, <4>1, <4>3
      <4>5. i \in L(f)[n - (m + 1) - 1]
        BY <4>1, <4>2
      <4> QED
        BY <4>1, <4>2, <4>3, <4>4, <4>5
    <3> QED
      BY <3>3, <3>4
  <2> HIDE DEF C
  <2>5. Endless(C)
    BY <2>2, <2>3, <2>4 DEF Endless
  <2> QED
    BY <2>2, <2>5 DEF Acyclic
<1> QED
  BY <1>9, <1>10

\* A step that only takes entries away, or makes what it writes loose.
LEMMA NothingTightens ==
  ASSUME Local, Acyclic,
         \A i \in Stored' \ loose' : i \in Stored \ loose /\ catalog'[i] = catalog[i],
         (DOMAIN FragmentsOf(catalog)) \cup loose \subseteq (DOMAIN FragmentsOf(catalog)') \cup loose'
  PROVE  Local' /\ Acyclic'
<1>1. Local'
  <2> SUFFICES ASSUME NEW i \in Stored' \ loose'
               PROVE  catalog'[i].text.incl \subseteq DOMAIN FragmentsOf(catalog)' \cup loose'
    BY DEF Local
  <2>1. catalog[i].text.incl \subseteq DOMAIN FragmentsOf(catalog) \cup loose
    BY DEF Local
  <2> QED
    BY <2>1
<1>2. Acyclic'
  <2> SUFFICES ASSUME NEW C \in SUBSET (Stored' \ loose'), Endless(C)' PROVE FALSE
    BY DEF Acyclic
  <2>1. C \in SUBSET (Stored \ loose)
    OBVIOUS
  <2>2. Endless(C)
    BY DEF Endless
  <2> QED
    BY <2>1, <2>2 DEF Acyclic
<1> QED
  BY <1>1, <1>2

\* An entry is written as id k, on a check of its text against the fragments it will stand
\* among.
WritesFresh(k, row, frags) ==
  /\ k \in Ids /\ row \in Entry /\ catalog' = [catalog EXCEPT ![k] = row]
  /\ DOMAIN FragmentsOf(catalog) \subseteq DOMAIN FragmentsOf(catalog')
  /\ loose' \subseteq loose /\ loose \ {k} \subseteq loose'
  /\ \/ k \in loose' \/ k \notin loose
     \/ k \in DOMAIN FragmentsOf(catalog') \/ Includers(k) \subseteq {k}
  /\ Expands(row.text, frags) /\ DOMAIN frags \subseteq DOMAIN FragmentsOf(catalog')
  /\ \A i \in DOMAIN frags : frags[i] = catalog'[i].text

Tidy == Local /\ Acyclic

LEMMA FreshWrite ==
  ASSUME Tidy, catalog \in [Ids -> Entry \cup {None}],
         NEW k, NEW row, NEW frags, WritesFresh(k, row, frags)
  PROVE  Tidy'
<1>0. /\ k \in Ids /\ row \in Entry /\ catalog' = [catalog EXCEPT ![k] = row]
      /\ DOMAIN FragmentsOf(catalog) \subseteq DOMAIN FragmentsOf(catalog)'
      /\ loose' \subseteq loose /\ loose \ {k} \subseteq loose'
      /\ \/ k \in loose' \/ k \notin loose
         \/ k \in DOMAIN FragmentsOf(catalog)' \/ Includers(k) \subseteq {k}
      /\ Expands(row.text, frags) /\ DOMAIN frags \subseteq DOMAIN FragmentsOf(catalog)'
      /\ \A i \in DOMAIN frags : frags[i] = catalog'[i].text
  BY DEF WritesFresh
<1> USE <1>0
<1> USE DEF Tidy
<1>1. row.text.incl \subseteq DOMAIN frags
  <2>1. 0 \in 0..MaxDepth /\ Layers(row.text, frags)[0] = row.text.incl
    BY LayersAt
  <2>4. Layers(row.text, frags)[0] \subseteq DOMAIN frags
    BY <2>1 DEF Expands, Reached
  <2> QED
    BY <2>1, <2>4
<1>2. catalog'[k] = row /\ \A i \in Ids \ {k} : catalog'[i] = catalog[i]
  OBVIOUS
<1>3. \A i \in Stored' : i \in Ids /\ (i # k => i \in Stored)
  BY <1>2 DEF Stored
<1>4. Local'
  <2> SUFFICES ASSUME NEW i \in Stored' \ loose', NEW x \in catalog'[i].text.incl, x \notin loose'
               PROVE  x \in DOMAIN FragmentsOf(catalog)'
    BY DEF Local
  <2>1. CASE i = k
    BY <1>1, <1>2, <2>1
  <2>2. CASE i # k
    <3>1. i \in Stored \ loose /\ catalog'[i] = catalog[i]
      BY <1>2, <1>3, <2>2
    <3>2. x \in DOMAIN FragmentsOf(catalog) \cup loose
      BY <3>1 DEF Local
    <3>3. CASE x = k
      <4>1. i \in Includers(k)
        <5>1. k \in catalog[i].text.incl
          BY <3>1, <3>3
        <5> QED
          BY <3>1, <5>1 DEF Includers
      <4>2. CASE k \notin loose
        BY <3>2, <3>3, <4>2
      <4>3. CASE k \in loose
        <5>1. k \notin loose' /\ ~(Includers(k) \subseteq {k})
          BY <2>2, <3>3, <4>1
        <5> QED
          BY <3>3, <4>3, <5>1
      <4> QED
        BY <4>2, <4>3
    <3> QED
      BY <3>2, <3>3
  <2> QED
    BY <2>1, <2>2
<1>5. Acyclic'
  <2> SUFFICES ASSUME NEW C \in SUBSET (Stored' \ loose'), Endless(C)' PROVE FALSE
    BY DEF Acyclic
  <2>1. C # {} /\ \A i \in C : catalog'[i].text.incl \cap C # {}
    BY DEF Endless
  <2>2. CASE k \in C
    <3>1. row.text.incl \cap C # {}
      BY <1>2, <2>1, <2>2
    <3>2. \A i \in C \cap DOMAIN frags : frags[i].incl \cap C # {}
      BY <2>1
    <3> QED
      BY <3>1, <3>2, NothingEndless
  <2>3. CASE k \notin C
    <3>1. \A i \in C : i \in Stored \ loose /\ catalog'[i] = catalog[i]
      BY <1>2, <1>3, <2>3
    <3>2. Endless(C)
      BY <2>1, <3>1 DEF Endless
    <3> QED
      BY <3>1, <3>2 DEF Acyclic
  <2> QED
    BY <2>2, <2>3
<1> QED
  BY <1>4, <1>5

LEMMA StaysTidy ==
  ASSUME Tidy, UNCHANGED <<catalog, loose>>
  PROVE  Tidy'
  BY DEF Tidy, Local, Acyclic, Endless, Stored, FragmentsOf

\* A write on the catalog it was checked on loosens nothing, and tightens no id but its own.
LEMMA LoosenedFresh ==
  ASSUME NEW i, NEW frag \in BOOLEAN
  PROVE  /\ Loosened(i, frag, TRUE) \subseteq loose /\ loose \ {i} \subseteq Loosened(i, frag, TRUE)
         /\ i \in Loosened(i, frag, TRUE) \/ frag \/ Includers(i) \subseteq {i} \/ i \notin loose
<1>1. CASE frag \/ Includers(i) \subseteq {i}
  BY <1>1 DEF Loosened
<1>2. CASE ~(frag \/ Includers(i) \subseteq {i})
  BY <1>2 DEF Loosened
<1> QED
  BY <1>1, <1>2

LEMMA InsertTidy ==
  ASSUME CatalogOK, AllChecked, Tidy, NEW e \in Editors, Insert(e)
  PROVE  Tidy'
<1> PICK q : q = req[e]
  OBVIOUS
<1> PICK k : k = q.id
  OBVIOUS
<1> PICK row : row = [frag |-> q.want.frag, text |-> q.want.text, mode |-> q.want.mode,
                      builtin |-> FALSE, version |-> 1, by |-> "person"]
  OBVIOUS
<1>1. k \in Ids /\ q.want \in Body /\ Expands(q.want.text, q.frags)
  BY DEF Insert, CatalogOK, CarriesOK, AllChecked, Checked
<1>2. row \in Entry /\ row.text = q.want.text /\ row.frag = q.want.frag /\ row.frag \in BOOLEAN
  BY <1>1 DEF Body, Entry
<1>3. CASE UNCHANGED <<catalog, loose>>
  BY <1>3, StaysTidy
<1>4. ASSUME k \notin Stored, catalog' = [catalog EXCEPT ![k] = row],
             loose' = Loosened(k, row.frag, q.frags = FragmentsOf(catalog))
      PROVE  Tidy'
  <2>1. row # None
    BY CatalogAssumption, <1>2
  <2>2. /\ catalog'[k] = row /\ \A i \in Ids \ {k} : catalog'[i] = catalog[i]
        /\ catalog[k] = None
    BY <1>1, <1>4 DEF CatalogOK, Stored
  <2>3. DOMAIN FragmentsOf(catalog)' = (DOMAIN FragmentsOf(catalog)) \cup (IF row.frag THEN {k} ELSE {})
    BY <1>1, <2>1, <2>2 DEF FragmentsOf
  <2>4. CASE q.frags = FragmentsOf(catalog)
    <3>1. \A i \in DOMAIN q.frags : q.frags[i] = catalog'[i].text
      BY <2>2, <2>4, FragmentFacts
    <3>2. (q.frags = FragmentsOf(catalog)) = TRUE
      BY <2>4
    <3>3. loose' = Loosened(k, row.frag, TRUE)
      BY <1>4, <3>2
    <3>4. /\ loose' \subseteq loose /\ loose \ {k} \subseteq loose'
          /\ k \in loose' \/ row.frag \/ Includers(k) \subseteq {k} \/ k \notin loose
      BY <1>2, <3>3, LoosenedFresh
    <3>5. \/ k \in loose' \/ k \notin loose
          \/ k \in DOMAIN FragmentsOf(catalog)' \/ Includers(k) \subseteq {k}
      BY <2>3, <3>4
    <3>6. /\ DOMAIN FragmentsOf(catalog) \subseteq DOMAIN FragmentsOf(catalog)'
          /\ DOMAIN q.frags \subseteq DOMAIN FragmentsOf(catalog)'
          /\ Expands(row.text, q.frags) /\ catalog \in [Ids -> Entry \cup {None}]
      BY <1>1, <1>2, <2>3, <2>4 DEF CatalogOK
    <3>7. WritesFresh(k, row, q.frags)
      BY <1>1, <1>2, <1>4, <3>4, <3>5, <3>6, <3>1 DEF WritesFresh
    <3> QED
      BY <1>1, <3>6, <3>7, FreshWrite
  <2>5. CASE q.frags # FragmentsOf(catalog)
    <3>1. loose' = loose \cup {k}
      BY <1>4, <2>5 DEF Loosened
    <3>2. \A i \in Stored' \ loose' : i \in Stored \ loose /\ catalog'[i] = catalog[i]
      BY <2>2, <3>1 DEF Stored
    <3> QED
      BY <2>3, <3>1, <3>2, NothingTightens DEF Tidy
  <2> QED
    BY <2>4, <2>5
<1>5. \/ UNCHANGED <<catalog, loose>>
      \/ /\ k \notin Stored /\ catalog' = [catalog EXCEPT ![k] = row]
         /\ loose' = Loosened(k, q.want.frag, q.frags = FragmentsOf(catalog))
  BY DEF Insert, marks
<1> QED
  BY <1>2, <1>3, <1>4, <1>5

LEMMA CommitTidy ==
  ASSUME CatalogOK, AllChecked, Tidy, NEW e \in Editors, Commit(e)
  PROVE  Tidy'
<1> PICK q : q = req[e]
  OBVIOUS
<1> PICK k : k = q.id
  OBVIOUS
<1> PICK cur : cur = catalog[k]
  OBVIOUS
<1> PICK row : row = [cur EXCEPT !.text = Column(cur.text, q.row.text, q.want.text),
                                 !.mode = Column(cur.mode, q.row.mode, q.want.mode),
                                 !.version = q.row.version + 1, !.by = "person"]
  OBVIOUS
<1>1. /\ k \in Ids /\ q.want \in Wanted /\ q.row \in Entry /\ Expands(q.want.text, Under(q))
      /\ catalog \in [Ids -> Entry \cup {None}]
  BY DEF Commit, CatalogOK, CarriesOK, AllChecked, Checked
<1>3. CASE UNCHANGED <<catalog, loose>>
  BY <1>3, StaysTidy
<1>4. ASSUME cur # None, catalog' = [catalog EXCEPT ![k] = row],
             loose' = Loosened(k, q.row.frag, q.frags = FragmentsOf(catalog) /\ cur = q.row)
      PROVE  Tidy'
  <2>0. cur \in Entry
    BY <1>1, <1>4
  <2>1. row \in Entry /\ row.frag = cur.frag /\ row # None /\ cur.frag \in BOOLEAN
    <3> DEFINE text == Column(cur.text, q.row.text, q.want.text)
               mode == Column(cur.mode, q.row.mode, q.want.mode)
               number == q.row.version + 1
    <3>1. text \in Texts /\ mode \in Modes
      BY <1>1, <2>0 DEF Column, Wanted, Entry
    <3>2. number \in Nat \ {0}
      BY <1>1 DEF Entry
    <3> HIDE DEF text, mode, number
    <3>3. row = [cur EXCEPT !.text = text, !.mode = mode, !.version = number, !.by = "person"]
      BY DEF text, mode, number
    <3>4. row \in Entry /\ row.frag = cur.frag /\ cur.frag \in BOOLEAN
      BY <2>0, <3>1, <3>2, <3>3 DEF Entry
    <3> QED
      BY <3>4, CatalogAssumption
  <2>2. /\ catalog'[k] = row /\ \A i \in Ids \ {k} : catalog'[i] = catalog[i]
    BY <1>1, <1>4
  <2>3. DOMAIN FragmentsOf(catalog)' = DOMAIN FragmentsOf(catalog)
    BY <1>1, <1>4, <2>1, <2>2 DEF FragmentsOf
  <2>4. CASE q.frags = FragmentsOf(catalog) /\ cur = q.row
    <3>0. row.text = q.want.text
      BY <1>1, <2>0, <2>4 DEF Column, Entry
    <3>1. /\ DOMAIN Under(q) \subseteq DOMAIN FragmentsOf(catalog)'
          /\ \A i \in DOMAIN Under(q) : Under(q)[i] = catalog'[i].text
      <4>1. /\ k \in DOMAIN FragmentsOf(catalog) <=> cur.frag
            /\ \A i \in DOMAIN FragmentsOf(catalog) : i \in Ids /\ FragmentsOf(catalog)[i] = catalog[i].text
        BY <1>1, <1>4, FragmentFacts
      <4>2. CASE cur.frag
        <5>1. Under(q) = [i \in DOMAIN FragmentsOf(catalog) \cup {k} |->
                            IF i = k THEN row.text ELSE FragmentsOf(catalog)[i]]
          BY <2>4, <3>0, <4>2 DEF Under
        <5>2. DOMAIN Under(q) = DOMAIN FragmentsOf(catalog)
          BY <4>1, <4>2, <5>1
        <5>3. ASSUME NEW i \in DOMAIN Under(q) PROVE Under(q)[i] = catalog'[i].text
          <6>1. Under(q)[i] = IF i = k THEN row.text ELSE FragmentsOf(catalog)[i]
            BY <5>1
          <6>2. i \in DOMAIN FragmentsOf(catalog)
            BY <5>2
          <6>3. i \in Ids /\ FragmentsOf(catalog)[i] = catalog[i].text
            BY <4>1, <6>2
          <6>4. CASE i = k
            BY <2>2, <6>1, <6>4
          <6>5. CASE i # k
            <7>1. catalog'[i] = catalog[i]
              BY <2>2, <6>3, <6>5
            <7> QED
              BY <6>1, <6>3, <6>5, <7>1
          <6> QED
            BY <6>4, <6>5
        <5> QED
          BY <2>3, <5>2, <5>3
      <4>3. CASE ~cur.frag
        <5>1. Under(q) = FragmentsOf(catalog)
          BY <2>4, <4>3 DEF Under
        <5>2. \A i \in DOMAIN FragmentsOf(catalog) : i # k /\ i \in Ids
          BY <4>1, <4>3
        <5> QED
          BY <2>2, <2>3, <4>1, <5>1, <5>2
      <4> QED
        BY <4>2, <4>3
    <3>2. (q.frags = FragmentsOf(catalog) /\ cur = q.row) = TRUE
      BY <2>4
    <3>3. loose' = Loosened(k, row.frag, TRUE)
      BY <1>4, <2>1, <2>4, <3>2
    <3>4. /\ loose' \subseteq loose /\ loose \ {k} \subseteq loose'
          /\ k \in loose' \/ row.frag \/ Includers(k) \subseteq {k} \/ k \notin loose
      BY <2>1, <3>3, LoosenedFresh
    <3>5. \/ k \in loose' \/ k \notin loose
          \/ k \in DOMAIN FragmentsOf(catalog)' \/ Includers(k) \subseteq {k}
      <4>1. row.frag => k \in DOMAIN FragmentsOf(catalog)
        BY <1>1, <1>4, <2>1, FragmentFacts
      <4> QED
        BY <2>3, <3>4, <4>1
    <3>6. /\ DOMAIN FragmentsOf(catalog) \subseteq DOMAIN FragmentsOf(catalog)'
          /\ Expands(row.text, Under(q)) /\ row \in Entry
      BY <1>1, <2>1, <2>3, <3>0
    <3>7. WritesFresh(k, row, Under(q))
      BY <1>1, <1>4, <3>4, <3>5, <3>6, <3>1 DEF WritesFresh
    <3> QED
      BY <1>1, <3>6, <3>7, FreshWrite
  <2>5. CASE ~(q.frags = FragmentsOf(catalog) /\ cur = q.row)
    <3>1. loose' = loose \cup {k}
      BY <1>4, <2>5 DEF Loosened
    <3>2. \A i \in Stored' \ loose' : i \in Stored \ loose /\ catalog'[i] = catalog[i]
      BY <2>2, <3>1 DEF Stored
    <3> QED
      BY <2>3, <3>1, <3>2, NothingTightens DEF Tidy
  <2> QED
    BY <2>4, <2>5
<1>5. \/ UNCHANGED <<catalog, loose>>
      \/ /\ cur # None /\ catalog' = [catalog EXCEPT ![k] = row]
         /\ loose' = Loosened(k, q.row.frag, q.frags = FragmentsOf(catalog) /\ cur = q.row)
  BY DEF Commit, marks
<1> QED
  BY <1>3, <1>4, <1>5

\* A deletion that nothing included leaves the rest as it was; under a save of something
\* that includes the entry, it makes it loose.
LEMMA DeleteTidy ==
  ASSUME CatalogOK, AllChecked, Tidy, NEW e \in Editors, Delete(e)
  PROVE  Tidy'
<1> PICK k : k = req[e].id
  OBVIOUS
<1>1. /\ k \in Ids /\ catalog \in [Ids -> Entry \cup {None}] /\ req[e].want = {}
      /\ catalog' = [catalog EXCEPT ![k] = None]
      /\ loose' = IF Includers(k) \subseteq {} THEN loose ELSE loose \cup {k}
  BY DEF Delete, CatalogOK, CarriesOK, AllChecked, Checked
<1>2. /\ catalog'[k] = None /\ \A i \in Ids \ {k} : catalog'[i] = catalog[i]
      /\ loose \subseteq loose' /\ loose' \subseteq loose \cup {k}
  BY <1>1
<1>3. DOMAIN FragmentsOf(catalog)' = (DOMAIN FragmentsOf(catalog)) \ {k}
  BY <1>1, <1>2 DEF FragmentsOf
<1>4. \A i \in Stored' \ loose' : i \in Stored \ loose /\ catalog'[i] = catalog[i]
  BY <1>2 DEF Stored
<1>5. CASE k \in loose'
  BY <1>3, <1>4, <1>5, <1>2, NothingTightens DEF Tidy
<1>6. CASE k \notin loose'
  <2>1. Includers(k) = {}
    BY <1>1, <1>6
  <2>2. Local'
    <3> SUFFICES ASSUME NEW i \in Stored' \ loose', NEW x \in catalog'[i].text.incl
                 PROVE  x \in DOMAIN FragmentsOf(catalog)' \/ x \in loose'
      BY DEF Local
    <3>1. i \in Stored \ loose /\ x \in catalog[i].text.incl
      BY <1>4
    <3>2. x # k
      BY <2>1, <3>1 DEF Includers
    <3>3. x \in DOMAIN FragmentsOf(catalog) \/ x \in loose
      BY <3>1 DEF Tidy, Local
    <3> QED
      BY <1>2, <1>3, <3>2, <3>3
  <2>3. Acyclic'
    <3> SUFFICES ASSUME NEW C \in SUBSET (Stored' \ loose'), Endless(C)' PROVE FALSE
      BY DEF Acyclic
    <3>1. C \in SUBSET (Stored \ loose) /\ Endless(C)
      BY <1>4 DEF Endless
    <3> QED
      BY <3>1 DEF Tidy, Acyclic
  <2> QED
    BY <2>2, <2>3 DEF Tidy
<1> QED
  BY <1>5, <1>6

\* Everything a restart writes or drops is loose.
LEMMA RestartTidy ==
  ASSUME CatalogOK, Tidy, Restart
  PROVE  Tidy'
<1>1. PICK touched \in SUBSET Ids :
        /\ loose' = loose \cup touched
        /\ \A i \in Ids \ touched : catalog'[i] = catalog[i]
        /\ DOMAIN catalog' = Ids
  <2>1. PICK s \in Releases :
          LET missing == DOMAIN s \ Stored
              changed == {i \in DOMAIN s \cap Stored : Follows(i) /\ Differs(catalog[i], s[i])}
              dropped == {i \in Stored \ DOMAIN s : Follows(i)}
              number(i) == IF i \in missing THEN 1 ELSE catalog[i].version + 1
          IN /\ catalog' = [i \in Ids |->
                  IF i \in missing \cup changed THEN Shipped(s[i], number(i))
                  ELSE IF i \in dropped THEN None ELSE catalog[i]]
             /\ loose' = loose \cup missing \cup changed \cup dropped
    BY DEF Restart
  <2> DEFINE missing == DOMAIN s \ Stored
             changed == {i \in DOMAIN s \cap Stored : Follows(i) /\ Differs(catalog[i], s[i])}
             dropped == {i \in Stored \ DOMAIN s : Follows(i)}
             number(i) == IF i \in missing THEN 1 ELSE catalog[i].version + 1
             touched == missing \cup changed \cup dropped
  <2>2. touched \in SUBSET Ids
    BY ConstantTypes DEF Stored
  <2>3. /\ loose' = loose \cup missing \cup changed \cup dropped
        /\ catalog' = [i \in Ids |-> IF i \in missing \cup changed THEN Shipped(s[i], number(i))
                                     ELSE IF i \in dropped THEN None ELSE catalog[i]]
    BY <2>1
  <2> HIDE DEF missing, changed, dropped, number
  <2>4. loose' = loose \cup touched
    BY <2>3
  <2>5. DOMAIN catalog' = Ids /\ \A i \in Ids \ touched : catalog'[i] = catalog[i]
    BY <2>3
  <2> QED
    BY <2>2, <2>4, <2>5
<1>2. \A i \in Stored' \ loose' : i \in Stored \ loose /\ catalog'[i] = catalog[i]
  BY <1>1 DEF Stored
<1>3. (DOMAIN FragmentsOf(catalog)) \cup loose \subseteq (DOMAIN FragmentsOf(catalog)') \cup loose'
  BY <1>1 DEF FragmentsOf
<1> QED
  BY <1>2, <1>3, NothingTightens DEF Tidy

\* The entries of the first release include one another in good order.
LEMMA InitTidy == Init => Tidy
<1> SUFFICES ASSUME Init PROVE Tidy
  OBVIOUS
<1>1. CatalogOK /\ loose = {}
  BY CatalogInit DEF Init
<1>2. ASSUME NEW i \in DOMAIN First
      PROVE  i \in Ids /\ catalog[i] = Shipped(First[i], 1) /\ Shipped(First[i], 1) # None
  <2>1. i \in Ids /\ First[i] \in Body
    BY ConstantTypes
  <2>2. Shipped(First[i], 1) \in Entry
    BY <2>1, ShippedEntry
  <2> QED
    BY <2>1, <2>2, CatalogAssumption DEF Init
<1>3. \A i \in Ids : i \notin DOMAIN First => catalog[i] = None
  BY DEF Init
<1>4. Stored = DOMAIN First
  BY <1>2, <1>3 DEF Stored
<1>5. ASSUME NEW i \in DOMAIN First
      PROVE  catalog[i].text = First[i].text /\ catalog[i].frag = First[i].frag
  <2>1. /\ Shipped(First[i], 1).text = First[i].text
        /\ Shipped(First[i], 1).frag = First[i].frag
    BY DEF Shipped
  <2> QED
    BY <1>2, <2>1
<1> DEFINE frags == [j \in {k \in DOMAIN First : First[k].frag} |-> First[j].text]
<1>6. FragmentsOf(catalog) = frags
  BY <1>2, <1>3, <1>5 DEF FragmentsOf
<1>7. \A i \in Stored : Expands(catalog[i].text, frags)
  BY <1>4, <1>5, FirstAssumption
<1>8. \A i \in DOMAIN frags : frags[i] = catalog[i].text
  BY <1>5
<1> HIDE DEF frags
<1>9. Local
  <2> SUFFICES ASSUME NEW i \in Stored PROVE catalog[i].text.incl \subseteq DOMAIN frags
    BY <1>1, <1>6 DEF Local
  <2>1. 0 \in 0..MaxDepth /\ Layers(catalog[i].text, frags)[0] = catalog[i].text.incl
    BY LayersAt
  <2>2. Layers(catalog[i].text, frags)[0] \subseteq DOMAIN frags
    BY <1>7, <2>1 DEF Expands, Reached
  <2> QED
    BY <2>1, <2>2
<1>10. Acyclic
  <2> SUFFICES ASSUME NEW C \in SUBSET Stored, Endless(C) PROVE FALSE
    BY DEF Acyclic
  <2>1. PICK c \in C : catalog[c].text.incl \cap C # {}
    BY DEF Endless
  <2>2. \A i \in C \cap DOMAIN frags : frags[i].incl \cap C # {}
    BY <1>8 DEF Endless
  <2>3. Expands(catalog[c].text, frags)
    BY <1>7
  <2> QED
    BY <2>1, <2>2, <2>3, NothingEndless
<1> QED
  BY <1>9, <1>10 DEF Tidy

\* One request moves on to something checked, or answers.
LEMMA MovesChecked ==
  ASSUME CatalogOK, AllChecked, NEW e \in Editors, NEW q, Checked(q), req' = [req EXCEPT ![e] = q]
  PROVE  AllChecked'
<1>1. \A x \in Editors : req'[x] = IF x = e THEN q ELSE req[x]
  BY DEF CatalogOK
<1>2. \A x \in Editors : Checked(req'[x])
  BY <1>1 DEF AllChecked
<1> QED
  BY <1>2 DEF AllChecked

LEMMA FreeChecked == Checked(Free)
  BY DEF Checked, Free

LEMMA RespondsChecked ==
  ASSUME CatalogOK, AllChecked, NEW e \in Editors, Respond(e)
  PROVE  AllChecked'
  BY FreeChecked, MovesChecked DEF Respond

LEMMA SaveChecked ==
  ASSUME CatalogOK, AllChecked, NEW e \in Editors, NEW i, NEW p, Save(e, i, p)
  PROVE  AllChecked'
<1> DEFINE q == [Free EXCEPT !.pc = "row", !.id = i, !.want = p, !.frags = FragmentsOf(catalog)]
<1>1. Checked(q)
  BY DEF Checked, Free
<1>2. req' = [req EXCEPT ![e] = q]
  BY DEF Save
<1> HIDE DEF q
<1> QED
  BY <1>1, <1>2, MovesChecked

LEMMA CreateChecked ==
  ASSUME CatalogOK, AllChecked, NEW e \in Editors, Create(e)
  PROVE  AllChecked'
<1>1. PICK i \in Ids \ Stored :
        \E b \in Bodies(i) :
          /\ Valid(b.text, FragmentsOf(catalog), b.frag, b.mode)
          /\ req' = [req EXCEPT ![e] = [Free EXCEPT !.pc = "insert", !.id = i, !.want = b,
                                                  !.frags = FragmentsOf(catalog)]]
  BY DEF Create
<1>2. PICK b \in Bodies(i) :
        /\ Valid(b.text, FragmentsOf(catalog), b.frag, b.mode)
        /\ req' = [req EXCEPT ![e] = [Free EXCEPT !.pc = "insert", !.id = i, !.want = b,
                                                !.frags = FragmentsOf(catalog)]]
  BY <1>1
<1> DEFINE q == [Free EXCEPT !.pc = "insert", !.id = i, !.want = b, !.frags = FragmentsOf(catalog)]
<1>3. Expands(b.text, FragmentsOf(catalog))
  BY <1>2 DEF Valid
<1>4. q.pc = "insert" /\ q.want = b /\ q.frags = FragmentsOf(catalog)
  BY DEF Free
<1>5. req' = [req EXCEPT ![e] = q]
  BY <1>2
<1> HIDE DEF q
<1>6. Checked(q)
  BY <1>3, <1>4 DEF Checked
<1> QED
  BY <1>5, <1>6, MovesChecked

LEMMA ReadVersionChecked ==
  ASSUME CatalogOK, AllChecked, NEW e \in Editors, ReadVersion(e)
  PROVE  AllChecked'
<1>1. PICK i \in Ids, v \in versions :
        req' = [req EXCEPT ![e] = [Free EXCEPT !.pc = "rollback", !.id = i, !.want = v.text]]
  BY DEF ReadVersion
<1> DEFINE q == [Free EXCEPT !.pc = "rollback", !.id = i, !.want = v.text]
<1>2. Checked(q)
  BY DEF Checked, Free
<1>3. req' = [req EXCEPT ![e] = q]
  BY <1>1
<1> HIDE DEF q
<1> QED
  BY <1>2, <1>3, MovesChecked

\* The text is checked with itself among the fragments, if the row is one.
LEMMA ReadEntryChecked ==
  ASSUME CatalogOK, AllChecked, NEW e \in Editors, ReadEntry(e)
  PROVE  AllChecked'
<1> PICK q : q = req[e]
  OBVIOUS
<1> PICK row : row = catalog[q.id]
  OBVIOUS
<1> PICK text : text = IF q.want.text = None THEN row.text ELSE q.want.text
  OBVIOUS
<1> PICK mode : mode = IF q.want.mode = None THEN row.mode ELSE q.want.mode
  OBVIOUS
<1> DEFINE frags == [i \in DOMAIN q.frags \cup {q.id} |-> IF i = q.id THEN text ELSE q.frags[i]]
           others == IF row.frag THEN frags ELSE q.frags
           next == [q EXCEPT !.pc = "commit", !.row = row, !.want = [text |-> text, mode |-> mode]]
<1>1. \/ Valid(text, others, row.frag, mode) /\ req' = [req EXCEPT ![e] = next]
      \/ Respond(e)
  BY DEF ReadEntry, Respond
<1>2. CASE Respond(e)
  BY <1>2, RespondsChecked
<1>3. CASE Valid(text, others, row.frag, mode) /\ req' = [req EXCEPT ![e] = next]
  <2>1. /\ next.pc = "commit" /\ next.row = row /\ next.id = q.id /\ next.frags = q.frags
        /\ next.want.text = text
    BY DEF ReadEntry
  <2>2. Under(next) = others
    BY <2>1 DEF Under
  <2>3. Expands(text, others)
    BY <1>3 DEF Valid
  <2> HIDE DEF next, others
  <2>4. Checked(next)
    BY <2>1, <2>2, <2>3 DEF Checked
  <2> QED
    BY <1>3, <2>4, MovesChecked
<1> QED
  BY <1>1, <1>2, <1>3

\* A deletion starts when nothing includes the entry.
LEMMA RemoveChecked ==
  ASSUME CatalogOK, AllChecked, NEW e \in Editors, Remove(e)
  PROVE  AllChecked'
<1>1. PICK i \in Stored :
        /\ Includers(i) = {}
        /\ req' = [req EXCEPT ![e] = [Free EXCEPT !.pc = "delete", !.id = i, !.want = Includers(i)]]
  BY DEF Remove
<1> DEFINE q == [Free EXCEPT !.pc = "delete", !.id = i, !.want = Includers(i)]
<1>2. q.pc = "delete" /\ q.want = {}
  BY <1>1 DEF Free
<1>3. req' = [req EXCEPT ![e] = q]
  BY <1>1
<1> HIDE DEF q
<1>4. Checked(q)
  BY <1>2 DEF Checked
<1> QED
  BY <1>3, <1>4, MovesChecked

\* The invariant of the includes.
IncludesInv == CatalogOK /\ AllChecked /\ Tidy

LEMMA IncludesStep == IncludesInv /\ [Next]_vars => IncludesInv'
<1> SUFFICES ASSUME CatalogOK, AllChecked, Tidy, [Next]_vars PROVE AllChecked' /\ Tidy'
  BY CatalogStep DEF IncludesInv
<1>1. ASSUME NEW e \in Editors, Edit(e) PROVE AllChecked' /\ Tidy'
  <2>1. CASE Insert(e)
    BY <2>1, InsertTidy, RespondsChecked DEF Insert
  <2>2. CASE Commit(e)
    BY <2>2, CommitTidy, RespondsChecked DEF Commit
  <2>3. CASE Delete(e)
    BY <2>3, DeleteTidy, RespondsChecked DEF Delete
  <2>4. CASE Create(e) \/ Update(e) \/ Reset(e) \/ ReadVersion(e) \/ Rollback(e) \/ ReadEntry(e)
             \/ Remove(e) \/ Abort(e)
    <3>1. UNCHANGED <<catalog, loose>>
      BY <2>4 DEF Create, Update, Reset, ReadVersion, Rollback, Save, ReadEntry, Remove, Abort, marks
    <3>2. Tidy'
      BY <3>1, StaysTidy
    <3>3. CASE Update(e) \/ Reset(e) \/ Rollback(e) \/ Abort(e)
      <4>1. CASE Abort(e)
        BY <3>2, <4>1, RespondsChecked DEF Abort
      <4>2. CASE Update(e)
        BY <3>2, <4>2, SaveChecked DEF Update
      <4>3. CASE Reset(e)
        BY <3>2, <4>3, SaveChecked DEF Reset
      <4>4. CASE Rollback(e)
        BY <3>2, <4>4, SaveChecked, RespondsChecked DEF Rollback
      <4> QED
        BY <3>3, <4>1, <4>2, <4>3, <4>4
    <3> QED
      BY <2>4, <3>2, <3>3, CreateChecked, ReadVersionChecked, ReadEntryChecked, RemoveChecked
  <2> QED
    BY <1>1, <2>1, <2>2, <2>3, <2>4 DEF Edit
<1>2. CASE Restart
  <2>1. req' = [e \in Editors |-> Free]
    BY <1>2 DEF Restart
  <2>2. AllChecked'
    BY <2>1, FreeChecked DEF AllChecked
  <2> QED
    BY <1>2, <2>2, RestartTidy
<1>3. ASSUME NEW everything \in BOOLEAN, Run(everything) PROVE AllChecked' /\ Tidy'
  <2>1. UNCHANGED <<catalog, loose, req>>
    BY <1>3 DEF Run, RunQuery, TestQuery, RunAdhoc, Send, marks
  <2> QED
    BY <2>1, StaysTidy DEF AllChecked
<1>4. CASE UNCHANGED vars
  <2>1. UNCHANGED <<catalog, loose, req>>
    BY <1>4 DEF vars, marks
  <2> QED
    BY <2>1, StaysTidy DEF AllChecked
<1> QED
  BY <1>1, <1>2, <1>3, <1>4 DEF Next

\* Whatever edits, deletions, restarts and their races have left, what an entry includes,
\* directly or not, is a fragment that is there, and never the entry itself, unless it meets
\* an id written on a check of another catalog or on none.
THEOREM IncludesCorrect == Spec => []IncludesResolve
<1>1. Init => IncludesInv
  <2>1. Init => AllChecked
    BY FreeChecked DEF Init, AllChecked
  <2> QED
    BY <2>1, CatalogInit, InitTidy DEF IncludesInv
<1>2. IncludesInv => IncludesResolve
  BY ResolveFollows DEF IncludesInv, Tidy
<1> QED
  BY <1>1, <1>2, IncludesStep, PTL DEF Spec

----------------------------------------------------------------------------
(* The history.                                                              *)

RowsOf(i) == {v \in versions : v.query = i}

\* These rows number their texts 1, 2, ..., n, each once, and this is the last one.
InOrderUpTo(rows, n, text) ==
  /\ {v.version : v \in rows} = 1..n
  /\ \A v, w \in rows : v.version = w.version => v = w
  /\ \A v \in rows : v.version = n => v.text = text

InOrder == \A i \in Stored \ mixed : InOrderUpTo(RowsOf(i), catalog[i].version, catalog[i].text)

LEMMA OneRow ==
  ASSUME NEW v, v.version = 1
  PROVE  InOrderUpTo({v}, 1, v.text)
<1>1. {w.version : w \in {v}} = {1} /\ 1..1 = {1}
  OBVIOUS
<1> QED
  BY <1>1 DEF InOrderUpTo

LEMMA OneMoreRow ==
  ASSUME NEW rows, NEW n \in Nat, NEW text, InOrderUpTo(rows, n, text), NEW v, v.version = n + 1
  PROVE  InOrderUpTo(rows \cup {v}, n + 1, v.text)
<1>1. /\ {w.version : w \in rows} = 1..n
      /\ \A w, x \in rows : w.version = x.version => w = x
  BY DEF InOrderUpTo
<1>2. \A w \in rows : w.version \in 1..n /\ w.version # n + 1
  <2>1. \A w \in rows : w.version \in 1..n
    BY <1>1
  <2> QED
    BY <2>1
<1>3. {w.version : w \in rows \cup {v}} = (1..n) \cup {n + 1}
  BY <1>1
<1>4. 1..(n + 1) = (1..n) \cup {n + 1}
  OBVIOUS
<1>5. \A w, x \in rows \cup {v} : w.version = x.version => w = x
  BY <1>1, <1>2
<1>6. \A w \in rows \cup {v} : w.version = n + 1 => w.text = v.text
  BY <1>2
<1> QED
  BY <1>3, <1>4, <1>5, <1>6 DEF InOrderUpTo

\* A row that goes with what is written as id i: its first, the next one, or any when the id
\* is now mixed.
Follower(i, r) ==
  /\ r.query = i
  /\ \/ i \in mixed'
     \/ /\ catalog'[i].version = r.version /\ catalog'[i].text = r.text
        /\ \/ RowsOf(i) = {} /\ r.version = 1
           \/ i \in Stored \ mixed /\ r.version = catalog[i].version + 1

LEMMA HistoryGrows ==
  ASSUME CatalogOK, InOrder, mixed \subseteq mixed',
         NEW W \in SUBSET Ids, NEW r, versions' = versions \cup {r[i] : i \in W},
         \A i \in W : Follower(i, r[i]),
         \A i \in Stored' \ W : i \in Stored /\ catalog'[i] = catalog[i]
  PROVE  InOrder'
<1> SUFFICES ASSUME NEW i \in Stored' \ mixed'
             PROVE  InOrderUpTo(RowsOf(i)', catalog'[i].version, catalog'[i].text)
  BY DEF InOrder, InOrderUpTo
<1>1. CASE i \notin W
  <2>1. RowsOf(i)' = RowsOf(i)
    <3>1. \A j \in W : r[j].query # i
      BY <1>1 DEF Follower
    <3> QED
      BY <3>1 DEF RowsOf
  <2>2. i \in Stored \ mixed /\ catalog'[i] = catalog[i]
    BY <1>1
  <2> QED
    BY <2>1, <2>2 DEF InOrder
<1>2. CASE i \in W
  <2>1. RowsOf(i)' = RowsOf(i) \cup {r[i]}
    <3>1. \A j \in W : r[j].query = j
      BY DEF Follower
    <3> QED
      BY <1>2, <3>1 DEF RowsOf
  <2>2. /\ catalog'[i].version = r[i].version /\ catalog'[i].text = r[i].text
        /\ \/ RowsOf(i) = {} /\ r[i].version = 1
           \/ i \in Stored \ mixed /\ r[i].version = catalog[i].version + 1
    BY <1>2 DEF Follower
  <2>3. CASE RowsOf(i) = {} /\ r[i].version = 1
    <3>1. RowsOf(i)' = {r[i]}
      BY <2>1, <2>3
    <3>2. InOrderUpTo({r[i]}, 1, r[i].text)
      BY <2>3, OneRow
    <3> QED
      BY <2>2, <2>3, <3>1, <3>2
  <2>4. CASE i \in Stored \ mixed /\ r[i].version = catalog[i].version + 1
    <3>1. catalog[i].version \in Nat
      BY <2>4 DEF CatalogOK, Stored, Entry
    <3>2. InOrderUpTo(RowsOf(i), catalog[i].version, catalog[i].text)
      BY <2>4 DEF InOrder
    <3>3. InOrderUpTo(RowsOf(i) \cup {r[i]}, catalog[i].version + 1, r[i].text)
      BY <2>4, <3>1, <3>2, OneMoreRow
    <3> QED
      BY <2>1, <2>2, <2>4, <3>3
  <2> QED
    BY <2>2, <2>3, <2>4
<1> QED
  BY <1>1, <1>2

LEMMA HistoryStays ==
  ASSUME InOrder, UNCHANGED <<catalog, versions, mixed>>
  PROVE  InOrder'
  BY DEF InOrder, InOrderUpTo, RowsOf, Stored

LEMMA RowFields ==
  ASSUME NEW i, NEW n, NEW text
  PROVE  Row(i, n, text).query = i /\ Row(i, n, text).version = n /\ Row(i, n, text).text = text
  BY DEF Row

\* An id without rows starts at 1; one with the rows of an earlier entry is mixed.
LEMMA InsertInOrder ==
  ASSUME CatalogOK, InOrder, NEW e \in Editors, Insert(e)
  PROVE  InOrder'
<1> PICK q : q = req[e]
  OBVIOUS
<1> PICK k : k = q.id
  OBVIOUS
<1> PICK row : row = [frag |-> q.want.frag, text |-> q.want.text, mode |-> q.want.mode,
                      builtin |-> FALSE, version |-> 1, by |-> "person"]
  OBVIOUS
<1>1. k \in Ids /\ catalog \in [Ids -> Entry \cup {None}]
  BY DEF Insert, CatalogOK, CarriesOK
<1>2. \/ UNCHANGED <<catalog, versions, mixed>>
      \/ /\ catalog' = [catalog EXCEPT ![k] = row]
         /\ versions' = versions \cup {Row(k, 1, q.want.text)}
         /\ mixed' = IF \E v \in versions : v.query = k THEN mixed \cup {k} ELSE mixed
  BY DEF Insert, marks
<1>3. CASE UNCHANGED <<catalog, versions, mixed>>
  BY <1>3, HistoryStays
<1>4. ASSUME catalog' = [catalog EXCEPT ![k] = row],
             versions' = versions \cup {Row(k, 1, q.want.text)},
             mixed' = IF \E v \in versions : v.query = k THEN mixed \cup {k} ELSE mixed
      PROVE  InOrder'
  <2> PICK v : v = Row(k, 1, q.want.text)
    OBVIOUS
  <2>1. v.query = k /\ v.version = 1 /\ v.text = q.want.text
    BY RowFields
  <2>2. catalog'[k] = row /\ \A i \in Ids \ {k} : catalog'[i] = catalog[i]
    BY <1>1, <1>4
  <2>3. Follower(k, v)
    BY <1>4, <2>1, <2>2 DEF Follower, RowsOf
  <2> PICK r : r = [i \in {k} |-> v]
    OBVIOUS
  <2>4. versions' = versions \cup {r[i] : i \in {k}} /\ \A i \in {k} : Follower(i, r[i])
    BY <1>4, <2>3
  <2>5. mixed \subseteq mixed' /\ {k} \in SUBSET Ids
    BY <1>1, <1>4
  <2>6. \A i \in Stored' \ {k} : i \in Stored /\ catalog'[i] = catalog[i]
    BY <2>2 DEF Stored
  <2> QED
    BY <2>4, <2>5, <2>6, HistoryGrows
<1> QED
  BY <1>2, <1>3, <1>4

\* A save of the row it loaded adds the next number; one of another row mixes the id.
LEMMA CommitInOrder ==
  ASSUME CatalogOK, InOrder, NEW e \in Editors, Commit(e)
  PROVE  InOrder'
<1> PICK q : q = req[e]
  OBVIOUS
<1> PICK k : k = q.id
  OBVIOUS
<1> PICK cur : cur = catalog[k]
  OBVIOUS
<1> PICK row : row = [cur EXCEPT !.text = Column(cur.text, q.row.text, q.want.text),
                                 !.mode = Column(cur.mode, q.row.mode, q.want.mode),
                                 !.version = q.row.version + 1, !.by = "person"]
  OBVIOUS
<1>1. k \in Ids /\ catalog \in [Ids -> Entry \cup {None}]
  BY DEF Commit, CatalogOK, CarriesOK
<1>2. \/ UNCHANGED <<catalog, versions, mixed>>
      \/ /\ cur # None /\ catalog' = [catalog EXCEPT ![k] = row]
         /\ versions' = versions \cup {Row(k, q.row.version + 1, q.want.text)}
         /\ mixed' = IF cur = q.row THEN mixed ELSE mixed \cup {k}
  BY DEF Commit, marks
<1>3. CASE UNCHANGED <<catalog, versions, mixed>>
  BY <1>3, HistoryStays
<1>4. ASSUME cur # None, catalog' = [catalog EXCEPT ![k] = row],
             versions' = versions \cup {Row(k, q.row.version + 1, q.want.text)},
             mixed' = IF cur = q.row THEN mixed ELSE mixed \cup {k}
      PROVE  InOrder'
  <2> PICK v : v = Row(k, q.row.version + 1, q.want.text)
    OBVIOUS
  <2>1. v.query = k /\ v.version = q.row.version + 1 /\ v.text = q.want.text
    BY RowFields
  <2>2. catalog'[k] = row /\ \A i \in Ids \ {k} : catalog'[i] = catalog[i]
    BY <1>1, <1>4
  <2>3. Follower(k, v)
    <3>1. CASE cur # q.row
      BY <1>4, <2>1, <3>1 DEF Follower
    <3>2. CASE cur = q.row
      <4>1. cur \in Entry /\ k \in Stored
        BY <1>1, <1>4 DEF Stored
      <4>2. row.version = v.version /\ row.text = v.text
        BY <2>1, <3>2, <4>1 DEF Column, Entry
      <4>3. mixed' = mixed
        BY <1>4, <3>2
      <4>4. k \in mixed \/ k \in Stored \ mixed
        BY <4>1
      <4> QED
        BY <2>1, <2>2, <3>2, <4>2, <4>3, <4>4 DEF Follower
    <3> QED
      BY <3>1, <3>2
  <2> PICK r : r = [i \in {k} |-> v]
    OBVIOUS
  <2>4. versions' = versions \cup {r[i] : i \in {k}} /\ \A i \in {k} : Follower(i, r[i])
    BY <1>4, <2>3
  <2>5. mixed \subseteq mixed' /\ {k} \in SUBSET Ids
    BY <1>1, <1>4
  <2>6. \A i \in Stored' \ {k} : i \in Stored /\ catalog'[i] = catalog[i]
    BY <2>2 DEF Stored
  <2> QED
    BY <2>4, <2>5, <2>6, HistoryGrows
<1> QED
  BY <1>2, <1>3, <1>4

\* A deletion leaves the rows.
LEMMA DeleteInOrder ==
  ASSUME CatalogOK, InOrder, NEW e \in Editors, Delete(e)
  PROVE  InOrder'
<1>1. UNCHANGED <<versions, mixed>> /\ catalog' = [catalog EXCEPT ![req[e].id] = None]
  BY DEF Delete
<1>2. \A i \in Stored' : i \in Stored /\ catalog'[i] = catalog[i]
  BY <1>1 DEF CatalogOK, Stored
<1>3. \A i : RowsOf(i)' = RowsOf(i)
  BY <1>1 DEF RowsOf
<1> QED
  BY <1>1, <1>2, <1>3 DEF InOrder, InOrderUpTo

\* A restart numbers the entries it adds from 1, and those it changes on from where they are.
LEMMA RestartInOrder ==
  ASSUME CatalogOK, InOrder, Restart
  PROVE  InOrder'
<1>1. PICK s \in Releases :
        LET missing == DOMAIN s \ Stored
            changed == {i \in DOMAIN s \cap Stored : Follows(i) /\ Differs(catalog[i], s[i])}
            dropped == {i \in Stored \ DOMAIN s : Follows(i)}
            number(i) == IF i \in missing THEN 1 ELSE catalog[i].version + 1
        IN /\ catalog' = [i \in Ids |->
                IF i \in missing \cup changed THEN Shipped(s[i], number(i))
                ELSE IF i \in dropped THEN None ELSE catalog[i]]
           /\ versions' = versions \cup {Row(i, number(i), s[i].text) : i \in missing \cup changed}
           /\ mixed' = mixed \cup {i \in missing : \E v \in versions : v.query = i}
  BY DEF Restart
<1> DEFINE missing == DOMAIN s \ Stored
           changed == {i \in DOMAIN s \cap Stored : Follows(i) /\ Differs(catalog[i], s[i])}
           dropped == {i \in Stored \ DOMAIN s : Follows(i)}
           number(i) == IF i \in missing THEN 1 ELSE catalog[i].version + 1
           W == missing \cup changed
           r == [i \in W |-> Row(i, number(i), s[i].text)]
<1>2. W \in SUBSET Ids /\ missing \cap Stored = {} /\ changed \subseteq Stored
  BY ConstantTypes
<1>3. /\ catalog' = [i \in Ids |-> IF i \in missing \cup changed THEN Shipped(s[i], number(i))
                                   ELSE IF i \in dropped THEN None ELSE catalog[i]]
      /\ versions' = versions \cup {Row(i, number(i), s[i].text) : i \in missing \cup changed}
      /\ mixed' = mixed \cup {i \in missing : \E v \in versions : v.query = i}
  BY <1>1
<1>4. \A i : number(i) = IF i \in missing THEN 1 ELSE catalog[i].version + 1
  OBVIOUS
<1> HIDE DEF missing, changed, dropped, number
<1>5. ASSUME NEW i \in W PROVE Follower(i, r[i])
  <2>1. r[i].query = i /\ r[i].version = number(i) /\ r[i].text = s[i].text
    BY RowFields
  <2>2. catalog'[i].version = number(i) /\ catalog'[i].text = s[i].text
    <3>1. catalog'[i] = Shipped(s[i], number(i))
      BY <1>2, <1>3
    <3> QED
      BY <3>1 DEF Shipped
  <2> HIDE DEF r
  <2>3. CASE i \in missing
    <3>1. i \in mixed' \/ RowsOf(i) = {}
      BY <1>3, <2>3 DEF RowsOf
    <3> QED
      BY <1>4, <2>1, <2>2, <2>3, <3>1 DEF Follower
  <2>4. CASE i \notin missing
    <3>1. i \in mixed' \/ i \in Stored \ mixed
      BY <1>2, <1>3, <2>4
    <3> QED
      BY <1>4, <2>1, <2>2, <2>4, <3>1 DEF Follower
  <2> QED
    BY <2>3, <2>4
<1>6. versions' = versions \cup {r[i] : i \in W}
  BY <1>3
<1>7. \A i \in Stored' \ W : i \in Stored /\ catalog'[i] = catalog[i]
  BY <1>2, <1>3 DEF Stored
<1>8. mixed \subseteq mixed'
  BY <1>3
<1> HIDE DEF r, W
<1> QED
  BY <1>2, <1>5, <1>6, <1>7, <1>8, HistoryGrows

LEMMA InitInOrder == Init => InOrder
<1> SUFFICES ASSUME Init, NEW i \in Stored
             PROVE  InOrderUpTo(RowsOf(i), catalog[i].version, catalog[i].text)
  BY DEF InOrder
<1> PICK v : v = [query |-> i, version |-> 1, text |-> First[i].text, again |-> 0]
  OBVIOUS
<1>1. i \in DOMAIN First /\ catalog[i] = Shipped(First[i], 1)
  BY DEF Init, Stored
<1>2. catalog[i].version = 1 /\ catalog[i].text = First[i].text
  BY <1>1 DEF Shipped
<1>3. RowsOf(i) = {v}
  BY <1>1 DEF Init, RowsOf
<1>4. v.version = 1 /\ v.text = First[i].text
  OBVIOUS
<1> QED
  BY <1>2, <1>3, <1>4, OneRow

HistoryInv == CatalogOK /\ InOrder

LEMMA HistoryStep == HistoryInv /\ [Next]_vars => HistoryInv'
<1> SUFFICES ASSUME CatalogOK, InOrder, [Next]_vars PROVE InOrder'
  BY CatalogStep DEF HistoryInv
<1>1. ASSUME NEW e \in Editors, Edit(e) PROVE InOrder'
  <2>1. CASE Create(e) \/ Update(e) \/ Reset(e) \/ ReadVersion(e) \/ Rollback(e) \/ ReadEntry(e)
             \/ Remove(e) \/ Abort(e)
    <3>1. UNCHANGED <<catalog, versions, mixed>>
      BY <2>1 DEF Create, Update, Reset, ReadVersion, Rollback, Save, ReadEntry, Remove, Abort, marks
    <3> QED
      BY <3>1, HistoryStays
  <2> QED
    BY <1>1, <2>1, InsertInOrder, CommitInOrder, DeleteInOrder DEF Edit
<1>2. CASE UNCHANGED <<catalog, versions, mixed>>
  BY <1>2, HistoryStays
<1>3. ASSUME NEW everything \in BOOLEAN, Run(everything) PROVE UNCHANGED <<catalog, versions, mixed>>
  BY <1>3 DEF Run, RunQuery, TestQuery, RunAdhoc, Send, marks
<1> QED
  BY <1>1, <1>2, <1>3, RestartInOrder DEF Next, vars, marks

LEMMA AsManyRowsAsVersions ==
  ASSUME NEW rows, NEW n \in Nat, NEW text, InOrderUpTo(rows, n, text)
  PROVE  Cardinality(rows) = n
<1> DEFINE f == [v \in rows |-> v.version]
<1>1. {v.version : v \in rows} = 1..n /\ \A v, w \in rows : v.version = w.version => v = w
  BY DEF InOrderUpTo
<1>2. f \in Injection(rows, 1..n) /\ f \in Surjection(rows, 1..n)
  <2>1. f \in [rows -> 1..n]
    BY <1>1
  <2>2. \A v, w \in rows : f[v] = f[w] => v = w
    BY <1>1
  <2>3. ASSUME NEW i \in 1..n PROVE \E v \in rows : f[v] = i
    BY <1>1
  <2> HIDE DEF f
  <2> QED
    BY <2>1, <2>2, <2>3 DEF Injection, IsInjective, Surjection
<1>3. IsFiniteSet(1..n) /\ Cardinality(1..n) = n
  <2>1. n \in Nat /\ 1 \in Int /\ n \in Int
    OBVIOUS
  <2>2. IsFiniteSet(1..n) /\ Cardinality(1..n) = IF 1 > n THEN 0 ELSE n - 1 + 1
    BY <2>1, FS_Interval
  <2> QED
    BY <2>1, <2>2
<1> HIDE DEF f
<1>4. Cardinality(rows) = Cardinality(1..n)
  BY <1>2, <1>3, FS_Injection
<1> QED
  BY <1>3, <1>4

\* A rollback finds every text of an entry by its number, unless two hands have numbered the
\* id: whatever was deleted, shipped or saved, the rows are 1, 2, ... up to the version the
\* entry has, each once, and the last holds the text in force.
THEOREM HistoryCorrect == Spec => []HistoryIsComplete
<1>1. HistoryInv => HistoryIsComplete
  <2> SUFFICES ASSUME HistoryInv, NEW i \in Stored \ mixed
               PROVE  /\ {v.version : v \in RowsOf(i)} = 1..catalog[i].version
                      /\ Cardinality(RowsOf(i)) = catalog[i].version
                      /\ \E v \in RowsOf(i) : v.version = catalog[i].version
                                              /\ v.text = catalog[i].text
    BY DEF HistoryIsComplete, RowsOf
  <2>1. InOrderUpTo(RowsOf(i), catalog[i].version, catalog[i].text)
    BY DEF HistoryInv, InOrder
  <2>2. catalog[i].version \in Nat \ {0}
    BY DEF HistoryInv, CatalogOK, Stored, Entry
  <2>3. Cardinality(RowsOf(i)) = catalog[i].version
    BY <2>1, <2>2, AsManyRowsAsVersions
  <2>4. {v.version : v \in RowsOf(i)} = 1..catalog[i].version
    BY <2>1 DEF InOrderUpTo
  <2>5. catalog[i].version \in 1..catalog[i].version
    BY <2>2
  <2>6. PICK v \in RowsOf(i) : v.version = catalog[i].version
    BY <2>4, <2>5
  <2>7. v.text = catalog[i].text
    BY <2>1, <2>6 DEF InOrderUpTo
  <2> QED
    BY <2>3, <2>4, <2>6, <2>7
<1>2. Init => HistoryInv
  BY CatalogInit, InitInOrder DEF HistoryInv
<1> QED
  BY <1>1, <1>2, HistoryStep, PTL DEF Spec
=============================================================================
