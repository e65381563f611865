---------------------------- MODULE QueryCatalog ----------------------------
(***************************************************************************)
(* The query catalog: editing it (api/admin_datasources.py), what an SPL   *)
(* text must satisfy (datasources/spl.py), following the shipped entries   *)
(* at a restart (datasources/catalog.py), and what may be sent to Splunk   *)
(* (datasources/service.py).                                               *)
(*                                                                         *)
(* An edit reads the catalog in one database session, and reads, checks    *)
(* and writes its entry in a second one.  A text is what it includes and   *)
(* whether it filters by tenant itself; what the checks say of its         *)
(* commands, tokens and length does not depend on the rest of the catalog  *)
(* and is left out, so the texts here are those that pass.                 *)
(***************************************************************************)
EXTENDS Naturals, FiniteSets

CONSTANTS
  Editors,      \* edits in flight at the same time
  Ids,          \* query and fragment ids
  Bodies(_),    \* Bodies(id): the entries an editor may create
  Patches(_),   \* Patches(id): what an editor may change, None for what stays
  Drafts,       \* texts run from the editor's test and the console, without being saved
  Releases,     \* the shipped catalogs, one per release: SEED
  First,        \* the release that seeded the database
  None,
  MaxDepth,     \* MAX_INCLUDE_DEPTH
  MaxSaves,     \* bound on the rows of the history
  MaxRestarts   \* bound on the restarts

Texts == [incl : SUBSET Ids, filter : BOOLEAN]
Modes == {"tenant", "global"}
Body == [frag : BOOLEAN, text : Texts, mode : Modes]
Patch == [text : Texts \cup {None}, mode : Modes \cup {None}]

Entry == [frag : BOOLEAN, text : Texts, mode : Modes, builtin : BOOLEAN,
          version : Nat \ {0}, by : {"system", "person"}]

ASSUME CatalogAssumption ==
  /\ None \notin Texts \cup Modes \cup Entry /\ First \in Releases
  /\ MaxDepth \in Nat \ {0} /\ MaxSaves \in Nat /\ MaxRestarts \in Nat
  /\ Drafts \subseteq Texts
  /\ \A i \in Ids : Bodies(i) \subseteq Body /\ Patches(i) \subseteq Patch
  /\ \A s \in Releases : DOMAIN s \subseteq Ids /\ \A i \in DOMAIN s : s[i] \in Body

VARIABLES
  catalog,   \* data_queries
  versions,  \* data_query_versions
  req,       \* what each editor's request is doing
  shipped,   \* SEED of the release that runs
  restarts,  \* counter, for the bound
  loose,     \* history: ids whose includes were last decided on another catalog than the
             \* one they were written to, or never checked; and ids deleted while something
             \* that includes them was saved, until they are a fragment again
  mixed,     \* history: ids whose versions were numbered by two hands
  bare       \* history: a search has gone out without a tenant filter, for a caller who
             \* does not see all tenants or did not ask for all

marks == <<loose, mixed>>
vars == <<catalog, versions, req, shipped, restarts, marks, bare>>

\* again tells rows apart that carry the same number: the table has a key of its own.
Version == [query : Ids, version : Nat \ {0}, text : Texts, again : Nat]

Free == [pc |-> "free", id |-> None, want |-> None, frags |-> <<>>, row |-> None]

Stored == {i \in Ids : catalog[i] # None}

----------------------------------------------------------------------------
(* SPL: expand and problems. *)

\* fragments_of
FragmentsOf(cat) ==
  [i \in {j \in Ids : cat[j] # None /\ cat[j].frag} |-> cat[i].text]

\* What expand meets at each depth of nesting.
Layers(text, frags) ==
  LET layer[n \in 0..MaxDepth] ==
        IF n = 0 THEN text.incl
        ELSE UNION {frags[f].incl : f \in layer[n - 1] \cap DOMAIN frags}
  IN layer

Reached(text, frags) == UNION {Layers(text, frags)[n] : n \in 0..MaxDepth}

\* Every include is a fragment, and none is nested too deeply; one that includes itself
\* would be.
Expands(text, frags) ==
  Reached(text, frags) \subseteq DOMAIN frags /\ Layers(text, frags)[MaxDepth] = {}

Filters(text, frags) ==
  text.filter \/ \E f \in Reached(text, frags) : frags[f].filter

\* problems() finds nothing; a fragment needs no filter of its own.
Valid(text, frags, frag, mode) ==
  /\ Expands(text, frags)
  /\ ~frag /\ mode = "tenant" => Filters(text, frags)

----------------------------------------------------------------------------
(* Editing. *)

Recorded(i, n) == {v \in versions : v.query = i /\ v.version = n}

Row(i, n, text) == [query |-> i, version |-> n, text |-> text,
                    again |-> Cardinality(Recorded(i, n))]

Room == Cardinality(versions) < MaxSaves

Respond(e) == req' = [req EXCEPT ![e] = Free]

\* _used_by
Includers(i) == {j \in Stored : i \in catalog[j].text.incl}

\* A query that others include, its id having been a fragment's, stays loose.
Loosened(i, frag, fresh) ==
  IF ~fresh THEN loose \cup {i}
  ELSE IF frag \/ Includers(i) \subseteq {i} THEN loose \ {i} ELSE loose

\* The 409 and the 422 leave nothing.
Create(e) ==
  \E i \in Ids \ Stored : \E b \in Bodies(i) :
    /\ req[e] = Free /\ Valid(b.text, FragmentsOf(catalog), b.frag, b.mode)
    /\ req' = [req EXCEPT ![e] = [Free EXCEPT !.pc = "insert", !.id = i, !.want = b,
                                              !.frags = FragmentsOf(catalog)]]
    /\ UNCHANGED <<catalog, versions, shipped, restarts, marks, bare>>

\* The primary key refuses the second of two concurrent inserts.
Insert(e) ==
  LET q == req[e]  b == q.want
      fresh == q.frags = FragmentsOf(catalog) IN
  /\ q.pc = "insert" /\ Room
  /\ \/ /\ q.id \in Stored
        /\ UNCHANGED <<catalog, versions, marks>>
     \/ /\ q.id \notin Stored
        /\ catalog' = [catalog EXCEPT ![q.id] =
             [frag |-> b.frag, text |-> b.text, mode |-> b.mode, builtin |-> FALSE,
              version |-> 1, by |-> "person"]]
        /\ versions' = versions \cup {Row(q.id, 1, b.text)}
        /\ loose' = Loosened(q.id, b.frag, fresh)
        /\ mixed' = IF \E v \in versions : v.query = q.id THEN mixed \cup {q.id} ELSE mixed
  /\ Respond(e) /\ UNCHANGED <<shipped, restarts, bare>>

\* _save: first the catalog.
Save(e, i, patch) ==
  /\ i \in Stored
  /\ req' = [req EXCEPT ![e] = [Free EXCEPT !.pc = "row", !.id = i, !.want = patch,
                                            !.frags = FragmentsOf(catalog)]]
  /\ UNCHANGED <<catalog, versions, shipped, restarts, marks, bare>>

\* A patch of name, description, columns or cache_seconds changes neither text nor mode.
Update(e) == \E i \in Ids : \E p \in Patches(i) : req[e] = Free /\ Save(e, i, p)

Reset(e) ==
  \E i \in DOMAIN shipped :
    req[e] = Free /\ Save(e, i, [text |-> shipped[i].text, mode |-> shipped[i].mode])

\* The version's row must be the only one with that number.
ReadVersion(e) ==
  \E i \in Ids, n \in 1..MaxSaves :
    /\ req[e] = Free
    /\ \E v \in versions :
         /\ Recorded(i, n) = {v}
         /\ req' = [req EXCEPT ![e] = [Free EXCEPT !.pc = "rollback", !.id = i, !.want = v.text]]
    /\ UNCHANGED <<catalog, versions, shipped, restarts, marks, bare>>

Rollback(e) ==
  LET q == req[e] IN
  /\ q.pc = "rollback"
  /\ \/ Save(e, q.id, [text |-> q.want, mode |-> None])
     \/ /\ q.id \notin Stored /\ Respond(e)
        /\ UNCHANGED <<catalog, versions, shipped, restarts, marks, bare>>

ReadEntry_TakesNone(e) ==
  LET q == req[e]  row == catalog[q.id] IN
  /\ q.pc = "row"
  /\ req' = IF row # None /\ (q.want.text = None \/ Valid(q.want.text, q.frags, row.frag, row.mode))
            THEN [req EXCEPT ![e] = [q EXCEPT !.pc = "commit", !.row = row]]
            ELSE [req EXCEPT ![e] = Free]
  /\ UNCHANGED <<catalog, versions, shipped, restarts, marks, bare>>

\* Then the entry, and the check against the fragments read before.
ReadEntry(e) ==
  LET q == req[e]  row == catalog[q.id]
      text == IF q.want.text = None THEN row.text ELSE q.want.text
      mode == IF q.want.mode = None THEN row.mode ELSE q.want.mode
      frags == [i \in DOMAIN q.frags \cup {q.id} |-> IF i = q.id THEN text ELSE q.frags[i]]
      others == IF row.frag THEN frags ELSE q.frags
  IN
  /\ q.pc = "row"
  /\ req' = IF row # None /\ Valid(text, others, row.frag, mode)
            THEN [req EXCEPT ![e] = [q EXCEPT !.pc = "commit", !.row = row,
                                              !.want = [text |-> text, mode |-> mode]]]
            ELSE [req EXCEPT ![e] = Free]
  /\ UNCHANGED <<catalog, versions, shipped, restarts, marks, bare>>

Column(cur, loaded, wanted) == IF wanted = loaded THEN cur ELSE wanted

Commit_KeepsVersion(e) ==
  LET q == req[e]  cur == catalog[q.id]  loaded == q.row
      next == IF q.want.text = loaded.text THEN loaded.version ELSE loaded.version + 1 IN
  /\ q.pc = "commit" /\ Room
  /\ \/ /\ cur = None /\ UNCHANGED <<catalog, versions, marks>>
     \/ /\ cur # None
        /\ catalog' = [catalog EXCEPT ![q.id] =
             [cur EXCEPT !.text = Column(@, loaded.text, q.want.text),
                         !.mode = Column(@, loaded.mode, q.want.mode),
                         !.version = next, !.by = "person"]]
        /\ versions' = versions \cup {Row(q.id, next, q.want.text)}
        /\ loose' = Loosened(q.id, loaded.frag, q.frags = FragmentsOf(catalog) /\ cur = loaded)
        /\ mixed' = IF cur = loaded THEN mixed ELSE mixed \cup {q.id}
  /\ Respond(e) /\ UNCHANGED <<shipped, restarts, bare>>

\* The columns that changed, the number after the one loaded, and a row of history; an
\* UPDATE that meets no row is an error.
Commit(e) ==
  LET q == req[e]  cur == catalog[q.id]  loaded == q.row IN
  /\ q.pc = "commit" /\ Room
  /\ \/ /\ cur = None /\ UNCHANGED <<catalog, versions, marks>>
     \/ /\ cur # None
        /\ catalog' = [catalog EXCEPT ![q.id] =
             [cur EXCEPT !.text = Column(@, loaded.text, q.want.text),
                         !.mode = Column(@, loaded.mode, q.want.mode),
                         !.version = loaded.version + 1, !.by = "person"]]
        /\ versions' = versions \cup {Row(q.id, loaded.version + 1, q.want.text)}
        /\ loose' = Loosened(q.id, loaded.frag, q.frags = FragmentsOf(catalog) /\ cur = loaded)
        /\ mixed' = IF cur = loaded THEN mixed ELSE mixed \cup {q.id}
  /\ Respond(e) /\ UNCHANGED <<shipped, restarts, bare>>

Remove_InUse(e) ==
  \E i \in Stored :
    /\ req[e] = Free /\ ~catalog[i].builtin
    /\ req' = [req EXCEPT ![e] = [Free EXCEPT !.pc = "delete", !.id = i, !.want = Includers(i)]]
    /\ UNCHANGED <<catalog, versions, shipped, restarts, marks, bare>>

Remove(e) ==
  \E i \in Stored :
    /\ req[e] = Free /\ ~catalog[i].builtin /\ Includers(i) = {}
    /\ req' = [req EXCEPT ![e] = [Free EXCEPT !.pc = "delete", !.id = i, !.want = Includers(i)]]
    /\ UNCHANGED <<catalog, versions, shipped, restarts, marks, bare>>

\* Whatever is there by then; the history stays.
Delete(e) ==
  LET i == req[e].id IN
  /\ req[e].pc = "delete"
  /\ catalog' = [catalog EXCEPT ![i] = None]
  /\ loose' = IF Includers(i) \subseteq req[e].want THEN loose ELSE loose \cup {i}
  /\ Respond(e) /\ UNCHANGED <<versions, shipped, restarts, mixed, bare>>

\* The client or the database goes away before the commit.
Abort(e) ==
  /\ req[e] # Free /\ Respond(e)
  /\ UNCHANGED <<catalog, versions, shipped, restarts, marks, bare>>

----------------------------------------------------------------------------
(* Running: run_query, run_adhoc and test_query, on one reading of the catalog. *)

\* _run_spl: the text is checked again, and one that is not tenant-scoped needs a caller
\* with all tenants who asks for all of them.
Cleared_AsSaved(text, mode, everything) == mode = "global" => everything

Cleared(text, mode, everything) ==
  /\ Valid(text, FragmentsOf(catalog), FALSE, mode)
  /\ mode = "global" => everything

Send(text, everything) ==
  /\ bare' = (bare \/ ~(everything \/ Filters(text, FragmentsOf(catalog))))
  /\ UNCHANGED <<catalog, versions, req, shipped, restarts, marks>>

RunQuery(everything) ==
  \E i \in Stored :
    /\ ~catalog[i].frag /\ Cleared(catalog[i].text, catalog[i].mode, everything)
    /\ Send(catalog[i].text, everything)

\* An editor picks the mode; ad-hoc SPL gets the one it can have, and its caller has all
\* tenants.
TestQuery(everything) ==
  \E text \in Drafts, mode \in Modes :
    Cleared(text, mode, everything) /\ Send(text, everything)

RunAdhoc(everything) ==
  \E text \in Drafts :
    LET scoped == Filters(text, FragmentsOf(catalog)) IN
    /\ Expands(text, FragmentsOf(catalog))
    /\ Cleared(text, IF scoped THEN "tenant" ELSE "global", everything \/ ~scoped)
    /\ Send(text, everything \/ ~scoped)

----------------------------------------------------------------------------
(* Start-up. *)

Shipped(b, n) == [frag |-> b.frag, text |-> b.text, mode |-> b.mode, builtin |-> TRUE,
                  version |-> n, by |-> "system"]

Differs(entry, b) == entry.text # b.text \/ entry.mode # b.mode \/ entry.frag # b.frag

Follows_Edited(i) == catalog[i].builtin

\* A built-in nobody has edited.
Follows(i) == catalog[i].builtin /\ catalog[i].by = "system"

\* seed_data_queries, in one transaction, before any request.
Restart ==
  \E s \in Releases :
    LET missing == DOMAIN s \ Stored
        changed == {i \in DOMAIN s \cap Stored : Follows(i) /\ Differs(catalog[i], s[i])}
        dropped == {i \in Stored \ DOMAIN s : Follows(i)}
        number(i) == IF i \in missing THEN 1 ELSE catalog[i].version + 1
    IN
    /\ restarts < MaxRestarts
    /\ Cardinality(versions) + Cardinality(missing \cup changed) =< MaxSaves
    /\ restarts' = restarts + 1 /\ shipped' = s
    /\ req' = [e \in Editors |-> Free]
    /\ catalog' = [i \in Ids |->
         IF i \in missing \cup changed THEN Shipped(s[i], number(i))
         ELSE IF i \in dropped THEN None ELSE catalog[i]]
    /\ versions' = versions \cup {Row(i, number(i), s[i].text) : i \in missing \cup changed}
    /\ loose' = loose \cup missing \cup changed \cup dropped
    /\ mixed' = mixed \cup {i \in missing : \E v \in versions : v.query = i}
    /\ UNCHANGED bare

\* The entries of First include fragments of First.
ASSUME FirstAssumption ==
  \A i \in DOMAIN First :
    Expands(First[i].text,
            [j \in {k \in DOMAIN First : First[k].frag} |-> First[j].text])

Init ==
  /\ shipped = First /\ restarts = 0
  /\ catalog = [i \in Ids |-> IF i \in DOMAIN First THEN Shipped(First[i], 1) ELSE None]
  /\ versions = {[query |-> i, version |-> 1, text |-> First[i].text, again |-> 0] :
                   i \in DOMAIN First}
  /\ req = [e \in Editors |-> Free] /\ loose = {} /\ mixed = {} /\ bare = FALSE

Edit(e) ==
  \/ Create(e) \/ Insert(e) \/ Update(e) \/ Reset(e) \/ ReadVersion(e) \/ Rollback(e)
  \/ ReadEntry(e) \/ Commit(e) \/ Remove(e) \/ Delete(e) \/ Abort(e)

Run(everything) == RunQuery(everything) \/ TestQuery(everything) \/ RunAdhoc(everything)

Next ==
  \/ Restart
  \/ \E e \in Editors : Edit(e)
  \/ \E everything \in BOOLEAN : Run(everything)

Spec == Init /\ [][Next]_vars

----------------------------------------------------------------------------
(* What must hold. *)

TypeOK ==
  /\ catalog \in [Ids -> Entry \cup {None}]
  /\ versions \subseteq Version
  /\ \A e \in Editors :
       /\ req[e].pc \in {"free", "insert", "rollback", "row", "commit", "delete"}
       /\ req[e].id \in Ids \cup {None} /\ req[e].row \in Entry \cup {None}
       /\ req[e].pc = "commit" => req[e].row # None /\ req[e].want.text \in Texts
  /\ loose \subseteq Ids /\ mixed \subseteq Ids /\ restarts \in 0..MaxRestarts
  /\ bare \in BOOLEAN

\* The history of an entry numbers its texts 1, 2, ... up to the version it has, each
\* once, and the last is the text in force: a rollback finds every text by its number.
\* The exceptions are ids two hands have numbered: edits that loaded the same version,
\* and an id deleted and given out again.
HistoryIsComplete ==
  \A i \in Stored \ mixed :
    LET rows == {v \in versions : v.query = i} IN
    /\ {v.version : v \in rows} = 1..catalog[i].version
    /\ Cardinality(rows) = catalog[i].version
    /\ \E v \in rows : v.version = catalog[i].version /\ v.text = catalog[i].text

\* What an entry includes, directly or not, is a fragment that is there, and never itself,
\* unless it meets an id that was written on a check of another catalog or on none.
IncludesResolve ==
  LET frags == FragmentsOf(catalog) IN
  \A i \in Stored : LET below == Reached(catalog[i].text, frags) IN
    ({i} \cup below) \cap loose = {} => below \subseteq DOMAIN frags /\ i \notin below

\* Whatever edits, restarts and their races have left in the catalog, a search that goes
\* out filters by tenant unless its caller sees all tenants and asks for all of them.
RunsAreFiltered == ~bare

\* seed_data_queries: "Anything a person has edited, reset or rolled back is never
\* touched".  An entry a person has saved changes only by another request.
EditsSurviveRestarts ==
  [][\A i \in Stored : catalog[i].by = "person" /\ catalog'[i] # catalog[i]
        => /\ restarts' = restarts
           /\ \E e \in Editors : req[e].id = i /\ req[e].pc \in {"commit", "delete"}]_vars

\* admin_datasources.py: "Every save validates the SPL (... a tenant filter for
\* tenant-scoped queries)".  What is stored could be saved again as it is.
SavedQueriesAreValid ==
  LET frags == FragmentsOf(catalog) IN
  \A i \in Stored : Valid(catalog[i].text, frags, catalog[i].frag, catalog[i].mode)

\* admin_datasources.py: every save "bumps the version, keeps the previous text in the
\* history".  No save takes an entry back to an earlier number.
VersionsGoUp ==
  [][\A i \in Stored : catalog'[i] # None => catalog'[i].version >= catalog[i].version]_vars
====
