-------------------------- MODULE DetectionRefresh --------------------------
(***************************************************************************)
(* mcp-detection: the export that renews the rules file (refresher.py),    *)
(* its scheduler, and the requests that serve the file through a cache     *)
(* (_rules in http_api.py).                                                *)
(*                                                                         *)
(* Runs and requests are threads; a run's files outlive the process, its   *)
(* lock and the cache do not.  The export itself is outside: it may fail,  *)
(* time out, or exit with 0, and leave any kind of staging file.           *)
(***************************************************************************)
EXTENDS Naturals, FiniteSets

CONSTANTS
  Readers,      \* threads that can serve GET /detection
  MaxExports,   \* bound on the exports started
  MaxRestarts   \* bound on the restarts of the process

Runs == 1..MaxExports   \* start() makes a thread for each export: the n-th one

ConstantsOK == MaxExports \in Nat /\ MaxRestarts \in Nat

VARIABLES
  combined,   \* _all_rules_combined.json, the live file
  previous,   \* _all_rules_combined.prev.json
  staging,    \* _all_rules_combined.next.json
  status,     \* _refresh_status.json: outcome, and the rules of the last success
  lock,       \* Refresher._lock
  run,        \* what the thread of each export is doing
  sched,      \* the scheduler thread
  cache,      \* _cache of http_api.py
  reader,     \* what each request is doing
  exports, restarts,   \* counters, for the bounds
  newest,     \* history: the last content that was live
  settled,    \* history: no run was cut short since the last success was saved
  overlap     \* history: two requests have loaded the file at the same time

files == <<combined, previous, staging, status>>
serving == <<cache, reader, overlap>>
vars == <<files, lock, run, sched, serving, exports, restarts, newest, settled>>

\* A file's content: each export that works writes rules of its own, numbered, and
\* the number also stands for the time of writing, which os.replace preserves.  "bad"
\* is a file that does not parse, or parses to nothing.
Missing == [kind |-> "missing", id |-> 0]
Rules(n) == [kind |-> "rules", id |-> n]
Contents == {Missing} \cup [kind : {"rules", "bad"}, id : 1..(MaxExports + 1)]
Loaded == {Missing} \cup {Rules(n) : n \in 1..(MaxExports + 1)}

Idle == [pc |-> "idle", exit |-> FALSE, data |-> Missing, kept |-> 0]
\* Between these two replaces, or before its success is saved, a run has changed the
\* live file without saying so in the status.
Unsettling(r) == run[r].pc = "install" \/ (run[r].pc = "save" /\ run[r].data # Missing)

Running == {r \in Runs : run[r].pc # "idle"}

Unread == [rules |-> Missing, synced |-> 0]
Away == [pc |-> "away", synced |-> 0, rules |-> Missing]

Init ==
  /\ combined \in {Missing, Rules(1)} /\ previous = Missing /\ staging = Missing
  /\ status = [ok |-> "none", rules |-> 0]
  /\ lock = FALSE /\ run = [r \in Runs |-> Idle] /\ sched = "boot"
  /\ cache = Unread /\ reader = [d \in Readers |-> Away]
  /\ exports = 0 /\ restarts = 0
  /\ newest = combined /\ settled = (combined = Missing) /\ overlap = FALSE

----------------------------------------------------------------------------
(* A run. *)

\* start(): POST /refresh and the daily schedule; refused while the lock is held.
Start_WithoutLock(r) ==
  /\ r = exports + 1
  /\ exports' = r
  /\ lock' = TRUE
  /\ run' = [run EXCEPT ![r].pc = "clean"]
  /\ UNCHANGED <<files, serving, restarts, newest, settled>>

Start(r) ==
  /\ r = exports + 1 /\ ~lock
  /\ exports' = r
  /\ lock' = TRUE
  /\ run' = [run EXCEPT ![r].pc = "clean"]
  /\ UNCHANGED <<files, serving, restarts, newest, settled>>

Refresh(r) == Start(r) /\ UNCHANGED sched

\* The scheduler's first act: a catch-up when the file is missing or old.
CatchUp(r) == sched = "boot" /\ sched' = "daily" /\ Start(r)

NoCatchUp ==
  /\ sched = "boot" /\ (combined # Missing \/ lock \/ exports = MaxExports)
  /\ sched' = "daily"
  /\ UNCHANGED <<files, serving, lock, run, exports, restarts, newest, settled>>

\* The rest of a run's steps leave these alone.
Quiet == UNCHANGED <<lock, sched, serving, exports, restarts, newest>>

Go(r, pc) == run' = [run EXCEPT ![r].pc = pc]

Clean(r) ==
  /\ run[r].pc = "clean"
  /\ run' = [run EXCEPT ![r].pc = "export", ![r].kept = status.rules]
  /\ staging' = Missing
  /\ UNCHANGED <<combined, previous, status, settled>> /\ Quiet

\* automatic.py: any exit, any staging file; a timeout counts as a failure.
Export(r) ==
  /\ run[r].pc = "export"
  /\ \E kind \in {"missing", "rules", "bad"}, exit \in BOOLEAN :
       /\ staging' = IF kind = "missing" THEN Missing ELSE [kind |-> kind, id |-> r + 1]
       /\ run' = [run EXCEPT ![r].pc = "check", ![r].exit = exit]
  /\ UNCHANGED <<combined, previous, status, settled>> /\ Quiet

Check_ExitCodeOnly(r) ==
  /\ run[r].pc = "check"
  /\ run' = IF run[r].exit
            THEN [run EXCEPT ![r].pc = "retire", ![r].data = staging]
            ELSE [run EXCEPT ![r].pc = "discard", ![r].exit = FALSE]
  /\ UNCHANGED <<files, settled>> /\ Quiet

\* Exit code 0 and a staging file that parses to a dict with something in it.
Check(r) ==
  /\ run[r].pc = "check"
  /\ run' = IF run[r].exit /\ staging.kind = "rules"
            THEN [run EXCEPT ![r].pc = "retire", ![r].data = staging]
            ELSE [run EXCEPT ![r].pc = "discard", ![r].exit = FALSE]
  /\ UNCHANGED <<files, settled>> /\ Quiet

Retire_Deletes(r) ==
  /\ run[r].pc = "retire"
  /\ Go(r, "install")
  /\ combined' = Missing
  /\ UNCHANGED <<previous, staging, status, settled>> /\ Quiet

\* The first os.replace: from here to Install there is no live file.
Retire(r) ==
  /\ run[r].pc = "retire"
  /\ Go(r, "install")
  /\ previous' = IF combined = Missing THEN previous ELSE combined
  /\ combined' = Missing
  /\ UNCHANGED <<staging, status, settled>> /\ Quiet

Install(r) ==
  /\ run[r].pc = "install"
  /\ Go(r, "save")
  /\ combined' = staging /\ staging' = Missing
  /\ newest' = staging
  /\ UNCHANGED <<previous, status, settled, lock, sched, serving, exports, restarts>>

Discard(r) ==
  /\ run[r].pc = "discard"
  /\ Go(r, "save")
  /\ staging' = Missing
  /\ UNCHANGED <<combined, previous, status, settled>> /\ Quiet

Save_ForgetsSuccess(r) ==
  /\ run[r].pc = "save"
  /\ Go(r, "release")
  /\ status' = IF run[r].data = Missing THEN [ok |-> "no", rules |-> 0]
               ELSE [ok |-> "yes", rules |-> run[r].data.id]
  /\ settled' = (settled \/ run[r].data # Missing)
  /\ UNCHANGED <<combined, previous, staging>> /\ Quiet

\* A failure keeps the rules and the time of the last success.
Save(r) ==
  /\ run[r].pc = "save"
  /\ Go(r, "release")
  /\ status' = IF run[r].data = Missing THEN [ok |-> "no", rules |-> run[r].kept]
               ELSE [ok |-> "yes", rules |-> run[r].data.id]
  /\ settled' = (settled \/ run[r].data # Missing)
  /\ UNCHANGED <<combined, previous, staging>> /\ Quiet

FileError_KeepsLock(r) ==
  /\ run[r].pc \in {"discard", "retire", "install", "save"}
  /\ run' = [run EXCEPT ![r] = Idle]
  /\ settled' = (settled /\ ~Unsettling(r))
  /\ UNCHANGED files /\ Quiet

\* An OSError in the file work ends the run where it stands; finally releases.
FileError(r) ==
  /\ run[r].pc \in {"discard", "retire", "install", "save"}
  /\ Go(r, "release")
  /\ settled' = (settled /\ ~Unsettling(r))
  /\ UNCHANGED files /\ Quiet

Release(r) ==
  /\ run[r].pc = "release"
  /\ lock' = FALSE
  /\ run' = [run EXCEPT ![r] = Idle]
  /\ UNCHANGED <<files, sched, serving, exports, restarts, newest, settled>>

RunStep(r) ==
  \/ Clean(r) \/ Export(r) \/ Check(r) \/ Retire(r) \/ Install(r) \/ Discard(r)
  \/ Save(r) \/ FileError(r) \/ Release(r)

\* The process dies and comes back: its children die with it, the files stay.
Restart ==
  /\ restarts < MaxRestarts
  /\ restarts' = restarts + 1
  /\ lock' = FALSE /\ run' = [r \in Runs |-> Idle] /\ sched' = "boot"
  /\ cache' = Unread /\ reader' = [d \in Readers |-> Away]
  /\ settled' = (settled /\ ~\E r \in Running : Unsettling(r))
  /\ overlap' = FALSE
  /\ UNCHANGED <<files, exports, newest>>

----------------------------------------------------------------------------
(* Serving GET /detection: _rules(), one step per access to the file or the cache. *)

Rest == UNCHANGED <<files, lock, run, sched, exports, restarts, newest, settled>>

Loading == {d \in Readers : reader[d].pc \in {"load", "put", "stamp"}}

Ask(d) ==
  /\ reader[d] = Away
  /\ reader' = [reader EXCEPT ![d] = [Away EXCEPT !.pc = "look", !.synced = combined.id]]
  /\ UNCHANGED <<cache, overlap>> /\ Rest

\* The cache is good for the time read; otherwise load, or 503 without a file.
Look(d) ==
  /\ reader[d].pc = "look"
  /\ \/ /\ cache.rules # Missing /\ cache.synced = reader[d].synced
        /\ reader' = [reader EXCEPT ![d] = Away]
        /\ UNCHANGED <<cache, overlap>>
     \/ /\ cache.rules = Missing \/ cache.synced # reader[d].synced
        /\ reader' = [reader EXCEPT ![d] = IF combined = Missing THEN Away
                                           ELSE [@ EXCEPT !.pc = "load"]]
        /\ overlap' = (overlap \/ (combined # Missing /\ Loading # {}))
        /\ UNCHANGED cache
  /\ Rest

\* The file may have gone since: an error to the caller.
Load(d) ==
  /\ reader[d].pc = "load"
  /\ reader' = [reader EXCEPT ![d] = IF combined = Missing THEN Away
                                     ELSE [@ EXCEPT !.pc = "put", !.rules = combined]]
  /\ UNCHANGED <<cache, overlap>> /\ Rest

Put(d) ==
  /\ reader[d].pc = "put"
  /\ cache' = [cache EXCEPT !.rules = reader[d].rules]
  /\ reader' = [reader EXCEPT ![d].pc = "stamp"]
  /\ UNCHANGED overlap /\ Rest

Stamp_Now(d) ==
  /\ reader[d].pc = "stamp"
  /\ cache' = [cache EXCEPT !.synced = combined.id]
  /\ reader' = [reader EXCEPT ![d] = Away]
  /\ UNCHANGED overlap /\ Rest

Stamp(d) ==
  /\ reader[d].pc = "stamp"
  /\ cache' = [cache EXCEPT !.synced = reader[d].synced]
  /\ reader' = [reader EXCEPT ![d] = Away]
  /\ UNCHANGED overlap /\ Rest

ReaderStep(d) == Ask(d) \/ Look(d) \/ Load(d) \/ Put(d) \/ Stamp(d)

----------------------------------------------------------------------------
Next ==
  \/ \E r \in Runs : Refresh(r) \/ CatchUp(r) \/ RunStep(r)
  \/ \E d \in Readers : ReaderStep(d)
  \/ NoCatchUp \/ Restart

\* Threads run; the export is killed at its timeout.
Fairness == \A r \in Runs : WF_vars(RunStep(r))

Spec == Init /\ [][Next]_vars /\ Fairness

----------------------------------------------------------------------------
(* What must hold. *)

TypeOK ==
  /\ {combined, previous, staging, newest} \subseteq Contents
  /\ status \in [ok : {"none", "yes", "no"}, rules : 0..(MaxExports + 1)]
  /\ {lock, settled, overlap} \subseteq BOOLEAN /\ sched \in {"boot", "daily"}
  /\ run \in [Runs -> [pc : {"idle", "clean", "export", "check", "retire", "install", "discard",
                             "save", "release"},
                       exit : BOOLEAN, data : Loaded,
                       kept : 0..(MaxExports + 1)]]
  /\ cache \in [rules : Contents, synced : 0..(MaxExports + 1)]
  /\ reader \in [Readers -> [pc : {"away", "look", "load", "put", "stamp"},
                             synced : 0..(MaxExports + 1), rules : Contents]]
  /\ exports \in 0..MaxExports /\ restarts \in 0..MaxRestarts

\* Never two exports at once, and the lock says so, whoever started them.
OneExport == Cardinality(Running) =< 1 /\ (lock <=> Running # {})

\* Whatever an export leaves behind, and wherever a run is cut short, what is live was
\* checked: no partial, empty or broken file is ever served.
LiveIsChecked ==
  combined \in Loaded /\ cache.rules \in Loaded /\ previous \in Loaded

\* The rules last served are never lost: they are live, or they are the previous file
\* of a run that has not put its own in their place.
NewestIsKept == newest \in {combined, previous} /\ (combined # Missing => combined = newest)

\* Between runs, unless one was cut short, the status tells the rules that are live,
\* through any number of failures in between.
StatusTellsLive == ~lock /\ settled => status.rules = combined.id

\* The cache pairs a file's time with that file's rules or with newer ones, unless two
\* requests loaded the file at the same time.
StaleCacheIsARace ==
  ~overlap /\ Loading = {} /\ cache.rules # Missing => cache.rules.id >= cache.synced

\* A run ends, with or without an error, and leaves the lock free.
RefreshEnds == lock ~> ~lock

\* refresher.py: "a failed run never empties the MITRE page".
LiveFileStays == ~lock /\ newest # Missing => combined # Missing
====
