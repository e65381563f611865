---------------------------- MODULE ExportPipeline ----------------------------
(***************************************************************************)
(* mcp-detection/pipeline: the exports that DetectionRefresh runs.         *)
(* automatic.py runs splunk-export.py, falcon-export.py and then           *)
(* json_automatic_mapper.py as processes of their own; the exports write   *)
(* one file for each rule, the mapper makes one file of all of these.      *)
(*                                                                         *)
(* A timeout kills automatic.py alone, so the script it was running goes   *)
(* on beside the next run.  Rules change at their sources at any time.     *)
(***************************************************************************)
EXTENDS DetectionDataset, Sequences, Functions

CONSTANTS
  Listing,     \* all the rules there ever are, in the order the sources list them
  CustomersOf, \* the customers configured for "splunk" and for "falcon_edr", in order
  Dirs,        \* the output directories of these, in the order of the mapper
  Filtered,    \* whether an author is configured for falcon
  Page,        \* rules in a page of the falcon API
  MaxRuns,     \* bound on the runs of automatic.py
  MaxUpsets    \* bound on changes at the sources, failures, timeouts and restarts together

Rules == DOMAIN Listing   \* a rule is known by its place
Sources == {"splunk", "falcon_edr"}
States == {"absent", "on", "off"}
Runs == 1..MaxRuns

\* What an export says of a rule: mine is whether it is by the author.
Rule == [customer : STRING, src : Sources, name : STRING, file : STRING, mine : BOOLEAN,
         entries : SUBSET (STRING \X STRING), test : BOOLEAN, operational : BOOLEAN]

ConstantsOK ==
  /\ Listing \in Seq(Rule) /\ \A r \in Rules : IsFiniteSet(Listing[r].entries)
  /\ IsFiniteSet(Tactics) /\ CustomersOf \in [Sources -> Seq(STRING)] /\ Dirs \in Seq(STRING \X Sources)
  /\ IsInjective(Listing) /\ Range(Dirs) = UNION {Range(CustomersOf[s]) \X {s} : s \in Sources}
  /\ \A s \in Sources : CustomersOf[s] # <<>>
  /\ Filtered \in BOOLEAN /\ Page \in Nat \ {0}
  /\ MaxRuns \in Nat /\ MaxUpsets \in Nat

ASSUME PipelineAssumption == ConstantsOK

VARIABLES
  state,    \* at the sources: what each rule is
  disk,     \* output_dir of every customer: what each rule file has in it
  staging,  \* the file automatic.py is asked to write
  live,     \* the file the portal is served from, and the run it is of
  run,      \* what the processes of each run are doing
  started, upsets,   \* counters, for the bounds
  steady,   \* history: of each run, what has been so at the sources since it began
  crossed,  \* history: runs that shared the files with a script of an earlier one
  fellback  \* history: falcon was once asked for the rules of every author

history == <<steady, crossed, fellback>>
counters == <<started, upsets>>
vars == <<state, disk, staging, live, run, counters, history>>

FileOf(r) == <<Listing[r].customer, Listing[r].src, Listing[r].file>>
Files == {FileOf(r) : r \in Rules}

\* What a file says: of a rule file one rule and its state.
NoFile == <<0, "none">>
Torn == <<0, "torn">>   \* truncated, and not written yet: it does not parse

\* main is automatic.py; script the one it has started, which may outlive it.
Idle == [main |-> "none", ok |-> TRUE, script |-> "none", todo |-> <<>>, pc |-> "none",
         exit |-> TRUE, filter |-> FALSE, offset |-> 0, got |-> <<>>, read |-> {}]

Running(n) == run[n].script # "none"
Orphans(n) == {o \in Runs : o < n /\ Running(o)}

Upset == upsets < MaxUpsets /\ upsets' = upsets + 1

Facts == {<<r, state[r]>> : r \in Rules}

Init ==
  /\ state = [r \in Rules |-> "on"] /\ disk = [f \in Files |-> NoFile]
  /\ staging = {NoFile} /\ live = [rules |-> {}, due |-> {}]
  /\ run = [n \in Runs |-> Idle]
  /\ started = 0 /\ upsets = 0
  /\ steady = [n \in Runs |-> {}] /\ crossed = {} /\ fellback = FALSE

----------------------------------------------------------------------------
(* automatic.py. *)

Launch(p, script) ==
  [p EXCEPT !.script = script, !.exit = TRUE, !.pc = IF script = "mapper" THEN "read" ELSE "fetch",
            !.todo = IF script = "mapper" THEN Dirs ELSE CustomersOf[script],
            !.filter = Filtered /\ script = "falcon_edr", !.got = <<>>, !.offset = 0]

\* The refresher starts a run when no other has its lock, and deletes the staging file.
Start(n) ==
  /\ n = started + 1 /\ \A o \in Runs : run[o].main \in {"none", "over"}
  /\ started' = n
  /\ run' = [run EXCEPT ![n] = Launch([@ EXCEPT !.main = "alive"], "splunk")]
  /\ staging' = {NoFile}
  /\ steady' = [steady EXCEPT ![n] = Facts]
  /\ crossed' = IF Orphans(n) # {} THEN crossed \cup {n} ELSE crossed
  /\ UNCHANGED <<state, disk, live, upsets, fellback>>

Over == [Idle EXCEPT !.main = "over"]
After == [splunk |-> "falcon_edr", falcon_edr |-> "mapper"]

\* A script ends and, unless it is an orphan, the next one starts, whatever became of it.
Ended(p) ==
  CASE p.main # "alive" -> Over
    [] p.main = "alive" /\ p.script = "mapper" -> [Idle EXCEPT !.main = "alive", !.ok = p.ok /\ p.exit]
    [] OTHER -> Launch([p EXCEPT !.ok = @ /\ p.exit], After[p.script])

\* The timeout of the refresher: subprocess.run kills automatic.py and waits for it only.
Timeout(n) ==
  /\ run[n].main = "alive" /\ Running(n) /\ Upset
  /\ run' = [run EXCEPT ![n].main = "over"]
  /\ staging' = {NoFile} /\ steady' = [steady EXCEPT ![n] = {}]
  /\ UNCHANGED <<state, disk, live, started, crossed, fellback>>

\* automatic.py is over: with exit code 0 and a file that parses to something the file
\* is served from now on (DetectionRefresh has the steps of it), else it is deleted.
Collect(n) ==
  LET good == run[n].ok /\ staging \notin {{NoFile}, {Torn}} IN
  /\ run[n].main = "alive" /\ ~Running(n)
  /\ run' = [run EXCEPT ![n] = Over]
  /\ live' = IF good THEN [rules |-> staging, due |-> IF n \in crossed THEN {} ELSE steady[n]]
             ELSE live
  /\ staging' = {NoFile} /\ steady' = [steady EXCEPT ![n] = {}]
  /\ UNCHANGED <<state, disk, counters, crossed, fellback>>

----------------------------------------------------------------------------
(* The exports. *)

Exporting(n) == run[n].script \in Sources

Step(n, p) ==
  /\ run' = [run EXCEPT ![n] = p]
  /\ UNCHANGED <<state, staging, live, started, steady, crossed>>

\* process_customer is over for the first customer.  An exception only marks the script;
\* but to say so an orphan writes to a pipe that nobody reads, which ends it.
Next1(p, fine) ==
  LET q == [p EXCEPT !.todo = Tail(@), !.exit = @ /\ fine, !.got = <<>>, !.offset = 0,
                     !.pc = "fetch", !.filter = Filtered /\ p.script = "falcon_edr"] IN
  IF q.todo = <<>> \/ (~fine /\ p.main # "alive") THEN Ended(q) ELSE q

InOrder(rules) ==
  [i \in 1..Cardinality(rules) |-> CHOOSE r \in rules : Cardinality({x \in rules : x < r}) = i - 1]

\* What a source lists for the first customer: the rules there are, or the author's.
Offered(p, filtered) ==
  {r \in Rules : /\ Listing[r].customer = Head(p.todo) /\ Listing[r].src = p.script
                 /\ state[r] # "absent" /\ (filtered => Listing[r].mine)}
Snap(rules) == [i \in DOMAIN rules |-> <<rules[i], state[rules[i]]>>]

\* splunk: one request for everything, of which the enabled ones are kept.
FetchSplunk(n) ==
  LET p == run[n] IN
  /\ p.script = "splunk" /\ p.pc = "fetch"
  /\ Step(n, [p EXCEPT !.pc = "open",
                       !.got = Snap(InOrder({r \in Offered(p, FALSE) : state[r] = "on"}))])
  /\ UNCHANGED <<upsets, disk, fellback>>

FetchFalcon_OnePage(n) ==
  LET p == run[n]  list == InOrder(Offered(p, p.filter)) IN
  /\ p.script = "falcon_edr" /\ p.pc = "fetch"
  /\ Step(n, [p EXCEPT !.got = Snap(SubSeq(list, 1, Min({Page, Len(list)}))), !.pc = "open"])
  /\ UNCHANGED <<upsets, disk, fellback>>

\* falcon: a page at a time, until an empty one or as many as the total of the last one.
FetchFalcon(n) ==
  LET p == run[n]  list == InOrder(Offered(p, p.filter))
      page == SubSeq(list, p.offset + 1, Min({p.offset + Page, Len(list)}))
      offset == p.offset + Len(page) IN
  /\ p.script = "falcon_edr" /\ p.pc = "fetch"
  /\ Step(n, [p EXCEPT !.got = @ \o Snap(page), !.offset = offset,
                       !.pc = IF page = <<>> \/ offset >= Len(list) THEN "open" ELSE "fetch"])
  /\ UNCHANGED <<upsets, disk, fellback>>

\* A request that asks for an author and fails is made again for every author; any other
\* failure of a request is the end of the customer.
FetchFails(n) ==
  LET p == run[n] IN
  /\ Exporting(n) /\ p.pc = "fetch" /\ Upset
  /\ \/ Step(n, Next1(p, FALSE)) /\ UNCHANGED fellback
     \/ /\ p.filter /\ Step(n, [p EXCEPT !.filter = FALSE, !.got = <<>>, !.offset = 0])
        /\ fellback' = TRUE
  /\ UNCHANGED disk

\* save_rules: a file is truncated, then written; files of other rules stay.
OpenFile(n) ==
  LET p == run[n] IN
  /\ Exporting(n) /\ p.pc = "open"
  /\ IF p.got = <<>> THEN Step(n, Next1(p, TRUE)) /\ UNCHANGED disk
     ELSE /\ disk' = [disk EXCEPT ![FileOf(Head(p.got)[1])] = Torn]
          /\ Step(n, [p EXCEPT !.pc = "write"])
  /\ UNCHANGED <<upsets, fellback>>

WriteFile(n) ==
  LET p == run[n] IN
  /\ Exporting(n) /\ p.pc = "write"
  /\ disk' = [disk EXCEPT ![FileOf(Head(p.got)[1])] = Head(p.got)]
  /\ Step(n, [p EXCEPT !.pc = "open", !.got = Tail(@)])
  /\ UNCHANGED <<upsets, fellback>>

WriteFails(n) ==
  /\ Exporting(n) /\ run[n].pc = "write" /\ Upset
  /\ Step(n, Next1(run[n], FALSE))
  /\ UNCHANGED <<disk, fellback>>

----------------------------------------------------------------------------
(* The mapper. *)

\* load_rules_from_dir of the next directory: what does not parse is skipped.
ReadDir(n) ==
  LET p == run[n]  dir == Head(p.todo)
      here == {f \in Files : f[1] = dir[1] /\ f[2] = dir[2] /\ disk[f] \notin {NoFile, Torn}} IN
  /\ p.script = "mapper" /\ p.todo # <<>>
  /\ run' = [run EXCEPT ![n].read = @ \cup {disk[f] : f \in here}, ![n].todo = Tail(@)]
  /\ UNCHANGED <<state, disk, staging, live, counters, history>>

\* The combined file, at the path of the staging file, by an orphan too; or no good file.
Combine(n) ==
  LET p == run[n] IN
  /\ p.script = "mapper" /\ p.todo = <<>>
  /\ \/ staging' = p.read /\ run' = [run EXCEPT ![n] = Ended(p)] /\ UNCHANGED upsets
     \/ /\ staging' = {Torn} /\ run' = [run EXCEPT ![n] = Ended([p EXCEPT !.exit = FALSE])]
        /\ Upset
  /\ UNCHANGED <<state, disk, live, started, history>>

----------------------------------------------------------------------------
(* Around the runs. *)

\* The container stops: its processes with it, the files stay.
Restart ==
  /\ Upset
  /\ run' = [n \in Runs |-> IF n <= started THEN Over ELSE Idle]
  /\ steady' = [n \in Runs |-> {}]
  /\ UNCHANGED <<state, disk, staging, live, started, crossed, fellback>>

\* Someone creates, enables, disables or deletes a rule.
Edit(r, s) ==
  /\ Upset /\ s # state[r]
  /\ state' = [state EXCEPT ![r] = s]
  /\ steady' = [n \in Runs |-> steady[n] \ {<<r, state[r]>>}]
  /\ UNCHANGED <<disk, staging, live, run, started, crossed, fellback>>

Script(n) ==
  \/ FetchSplunk(n) \/ FetchFalcon(n) \/ FetchFails(n)
  \/ OpenFile(n) \/ WriteFile(n) \/ WriteFails(n)
  \/ ReadDir(n) \/ Combine(n)

Next ==
  \/ \E n \in Runs : Start(n) \/ Timeout(n) \/ Collect(n) \/ Script(n)
  \/ \E r \in Rules, s \in States : Edit(r, s)
  \/ Restart

Spec == Init /\ [][Next]_vars

----------------------------------------------------------------------------
(* Properties. *)

Exportable(r, s) ==
  LET rule == Listing[r] IN
  /\ rule.customer \in Range(CustomersOf[rule.src]) /\ s # "absent"
  /\ rule.src = "splunk" => s = "on"
  /\ rule.src = "falcon_edr" /\ Filtered => rule.mine

Alone(r) == \A x \in Rules : FileOf(x) = FileOf(r) => x = r

Beside(r) == {x \in Rules : Listing[x].customer = Listing[r].customer /\ Listing[x].src = Listing[r].src}

\* No rule of the directory changed: the pages of falcon fit together.
Unshifted(r, due) ==
  Listing[r].src = "falcon_edr" => \A x \in Beside(r) : \E s \in States : <<x, s>> \in due

\* What the portal is served from after a run that succeeded has each rule that was there
\* to be exported all along, as it was all along: no customer, page or rule is missing
\* behind an exit code of 0.  Excepted: runs that met an orphan of an earlier one, rules
\* whose file names collide, and falcon's pages when its rules change between them.
\* Rules of other authors are in it only after a request for the author's failed, at
\* whatever time: their files are never deleted.
LiveIsComplete ==
  /\ \A d \in live.due :
       Exportable(d[1], d[2]) /\ Alone(d[1]) /\ Unshifted(d[1], live.due) => d \in live.rules
  /\ Filtered /\ ~fellback =>
       \A d \in live.rules : Listing[d[1]].src = "falcon_edr" => Listing[d[1]].mine

\* What is exported of a rule: Splunk may write the flag of an active one as a text.
Exported(textual) ==
  {LET r == Listing[d[1]] IN
   [customer |-> r.customer, src |-> r.src, name |-> r.name, entries |-> r.entries,
    state |-> IF d[2] = "on" /\ r.src = "splunk" /\ textual THEN "zero" ELSE d[2],
    test |-> r.test, operational |-> r.operational] : d \in live.rules}
Everyone == {TenantOf[Listing[r].customer] : r \in Rules} \cup Tenants

\* Whoever asks, the figures agree with the rules behind them, and neither figures nor
\* rules depend on the rules of a tenant that is not in the caller's scope.
ScopedFiguresAgree ==
  \A textual \in BOOLEAN, scope \in SUBSET Everyone :
    LET rules == Flatten(Exported(textual)) IN
    CountsAgree(Dataset(rules, scope)) /\ SeesOnly(rules, scope)

\* As splunk-export.py:5-6 has it, the export "keeps only the active (enabled) ones": a
\* rule disabled before a run that succeeded is not served as an enabled one after it.
OnlyActiveAreServed ==
  \A d \in live.due : d[2] # "on" /\ Listing[d[1]].src = "splunk" => <<d[1], "on">> \notin live.rules
===============================================================================
