# SOC Watchfloor: a TLA+ model of its core

SOC Watchfloor is a portal for security analysts. One FastAPI process (`services/core`) holds
accounts, sessions, roles, tenants, a catalog of search queries and an assistant; small bridge
services (`services/mcp-*`) talk to Splunk SOAR, to the duty roster and to the detection rules.
The core keeps its state in PostgreSQL and in memory, and serves every request in a coroutine of
one event loop. What can go wrong here sits between the awaits of a handler, between the
statements of a transaction, and between the file operations of the export. The modules in this
directory model those steps.

Paths below are relative to `src/`; `core/` stands for `services/core/app/`.

## 1. Inventory

| Component | State | Operations | What is hard | What makes it correct |
|---|---|---|---|---|
| Sign-in, sessions, accounts: `core/api/auth.py`, `core/api/admin_users.py`, `core/deps.py`, `core/security/` | tables `users`, `sessions` | sign in, sign out, change password, enrol and confirm a second factor, create, patch, reset and disable an account, the check at the door of every request | each handler decides on a copy of a row and commits it after other handlers have committed theirs; the ORM writes changed columns only | a password change or a disabling ends the older sessions; an ended session stays ended; failure counters do not pass their limits; only a confirmed second factor is in force |
| Assistant, questions: `core/api/chat.py`, `core/assistant/limits.py` | `ChatLimiter` in memory, the local state of each generator | admit, refuse, model calls, tool calls, close, release | a client leaves at any await, a bridge fails, the deadline is looked at between model calls and around each, not around tools, one reply asks for more tools than are left | one question at a time, the limits per minute and per day, the budget of one question, every question ends and is closed by an event |
| Assistant, saved chats: `core/assistant/history.py` | tables `chat_conversations`, `chat_turns` | save a turn, list, open, continue, prune, delete | several transactions per request, no foreign key, the user's access changes meanwhile, a save races a deletion | a chat is read only by one whose access covers what is in it, turns are numbered without gaps, nothing is left without a chat, the cap holds |
| Assistant, proxy and tools: `core/assistant/proxy.py`, `policy.py`, `watchfloor.py` | the catalogue of the bridge's tools, in memory | `tools_for`, `execute`, `run` | the labels of a caller are read once for a question, a case is looked up before the call that reads it; errors that are not refusals | no tool runs beyond the caller's role and tenants, and none of theirs is refused |
| Detection export: `services/mcp-detection/refresher.py`, `http_api.py` | three rules files, a status file, a lock, a cache of two fields, a scheduler thread | start, export, check, replace, save the status; serve a cached read | restarts between two file operations, staging files of any kind, reader threads that load at the same time | a failed export leaves the old rules, only checked rules are served, one export at a time, each ends |
| Detection dataset and pipeline: `mcp-detection/adapter.py`, `pipeline/` | a directory of rule files for each customer and source, one combined file | export page by page, write, combine, aggregate | rules change between two pages, one customer of several fails, a timeout leaves a script at work beside the next run | a run that succeeds serves every rule; the figures of a scope agree with its rules and with no others |
| Roles: `core/rbac.py`, `roles_store.py`, `api/admin_roles.py` | table `role_caps`, an override in memory | edit the matrix, load the override, decide a capability | two edits commit in one order and load in the other; managers change one another | the process decides by what is stored; somebody can always manage the portal |
| Tenants: `core/api/admin_tenants.py` | table `tenants` | create, patch, archive | archived while a scope is resolved | an archived tenant is in no scope |
| Query catalog: `core/api/admin_datasources.py`, `core/datasources/` | tables of queries, versions and fragments | save, roll back, delete, expand includes | versions read and written without a lock, a fragment deleted while an including query is saved | versions number the history once each, no query includes a missing fragment |
| Query execution: `core/datasources/service.py`, `core/api/data.py`, `metrics.py`, `periods.py` | a cache in memory | resolve the scope, search, cache | a result cached for a scope or a period that is no longer the caller's | a caller sees data of their own tenants only, and no older than promised |
| Throttle, usage, audit: `core/security/throttle.py`, `core/api/usage.py`, `core/audit.py` | counters in memory, tables of counters and of events | check, record, count | read before an await, written after it | the limit holds; counts are not lost |
| Start-up: `core/main.py`, `seed.py`, `db.py` | the whole schema | migrate, seed accounts, tenants and roles, sweep leaked passwords | a crash between two commits | a restart completes what was begun |
| SOAR, roster and chat bridges: `services/mcp-soar/`, `mcp-roster/`, `mcp-soar-chat/`, `mcp-splunk/` | a client with its session, caches | search, authenticate again, serve a cached list | a session that expired, threads that fill one cache of two fields | a broken client is replaced; a cached answer is no older than promised |
| Pages, prototype, infrastructure | none | rendering, configuration | none of interest | out of scope |

How they interact. A request passes `current_user` (`core/deps.py`), which reads `sessions` and
`users` and touches the session; the handler then acts on its own database session and commits.
A question to the assistant passes the same door, then the `ChatLimiter`; its generator calls the
model and, through the proxy, the bridges, and at the end `history.save_turn`, which opens a
database session of its own. A data page resolves the caller's tenants, expands a query from the
catalog and calls the SOAR bridge through the cache. The detection page reads the rules file that
the bridge's own scheduler, or an administrator's `POST /refresh`, renews.

`PROJECT.json` lists every part with its status, and under `hazards` every place, by line, where
this code is hard to test, with the properties that watch it.

## 2. Modules

| Module | Models | Checked by |
|---|---|---|
| `SessionLife` | abstract: the one-way life of a session | `SessionsEndForGood` |
| `AuthSessions` | sign-in, sessions, password and second-factor handlers, account administration | `MCAuth` and four cfgs |
| `RoleMatrix` | start-up and seeding, the role matrix, managers who edit it and one another | `MCRoles` |
| `ChatTurns` | limiter, one turn with budgets and deadline, release | `MCChat` |
| `ChatHistory` | saved chats, statement by statement | `MCHistory` |
| `ToolProxy` | tools offered, decided and run for a question | `MCServices` |
| `QueryCatalog` | editing the catalog, following a release at a restart, what may be sent to Splunk | `MCCatalog` |
| `BoundedStaleness` | abstract: what a caller of a cached search is promised about age | `AnswersAreFresh`, `SoarAnswersAreFresh` |
| `QueryRuns` | running a query: scope, filter, cache, search, filter on the rows | `MCRuns` |
| `DetectionRefresh` | export runs, scheduler, restarts, cached reads | `MCDetection`, through `DetectionService` |
| `ExportPipeline` over `DetectionDataset` | the scripts of an export; the dataset made of what they export | `MCPipeline` |
| `SoarConnector` | threads over the Splunk client and its cache | `MCServices` |
| `RosterCache` | the roster parsed, cached and asked | `MCServices` |
| `LoginThrottle` | failed sign-ins of an address | `MCServices` |
| `UsageCounts` | page views counted by day | `MCServices` |
| `Services` | `SoarConnector`, `LoginThrottle`, `UsageCounts`, `RosterCache` and `ToolProxy` side by side | `MCServices` |
| `DetectionService` | `DetectionRefresh` as an instance, with names apart from those of `ExportPipeline` | `MCDetection` |
| `AuthProofs`, `ChatTurnsProofs`, `ChatHistoryProofs`, `QueryCatalogProofs`, `QueryRunsProofs`, `RoleMatrixProofs`, `ServicesProofs` | theorems on the module each is named after | tlapm |
| `DetectionProofs` | theorems on `ExportPipeline`, `DetectionDataset` and `DetectionRefresh` | tlapm |

`Services` has five modules as instances that share nothing; three of them have clocks (`now`, `throttleNow`,
`rosterNow`), and the day of the usage counts is a fourth. Its variable `part` says which of them is at work: the others rest, so the
states to explore are the sum of theirs and not the product. What is proved of a component from its own
specification holds of `Services` by the lemma `Parts`. `MCServices` gives the constants, lets the parts at rest
start in one state, and gives tenants and cases their labels at the start (edits change both).

### AuthSessions

`acct` and `sess` are the two tables, `req` the requests in flight. A handler is cut at its
awaits into at most three steps:

- `ReadForSignIn`, or `ReadSession` then `ReadCaller` (with `IdleOut`): the reads of `login` and of
  `current_user`, `active_user` and `require_capability`. The request keeps its copy of the row.
- `ReadTarget` for the administrator's handlers: the target's row, and the early refusals.
- the commit: `RefuseSignIn`, `AcceptSignIn`, `Logout`, `ChangePassword`, `TotpEnroll`,
  `TotpVerify`, `CreateUser`, `UpdateUser`, `SetPassword`, `DisableUser`. Each computes the wanted
  row from the copy; `Flush` writes to the table the columns that differ from that copy and leaves
  the others as they are by then. This is what SQLAlchemy's unit of work does, and where the
  interesting races come from: a column whose new value equals the stale copy is not written.

`revoke_sessions` is a single UPDATE and sees committed rows only (`Revoke`). `Abort` ends a
request at any point and leaves nothing. `via`, `hash.temp`, `raced` and `confirmed` are history
variables: no guard reads them.

### RoleMatrix

`user` and `rows` are the tables `users` and `role_caps`, `override` is `_OVERRIDE`. `boot` walks
through `lifespan`: `SeedAdmin`, `PrintPassword`, `SeedTenants`, `Sweep`, `SeedRoles`, `LoadAtStart`.
`Restart` may come at any await and keeps the tables. `Init` is a new database, or one an older build
left with leaked passwords and open sessions. While the portal serves, accounts sign in (`SignIn`, also one that
has to change its password first), end their sessions (`SessionsEnd`) and choose a password
(`OwnPassword`); `live` tells whether an account has sessions from before the sweep of leaked passwords, since, or both. An edit
of the matrix is `Enter` (the check at the door), `SelectRow` and `CommitRow` (the two statements of
`save_role`), `ReadMatrix`, `SetOverride`; a change of an account is `Enter`, `LoadTarget`, `CommitTarget`. At the load the
columns the change will write are noted (`Dirty`), at the commit these alone are written (`Written`).
`raced` and `excuse` are history variables and name the exceptions of the properties.

### ChatTurns

`busy` and `recent` are the fields of `ChatLimiter`, `turn[r]` is a generator. `Admit` is one step
because `chat` and `chat_stream` do not await between the check and the reservation. `LeaveEarly`
is a response dropped before its generator was first advanced; `Leave` closes it at one of its
awaits. A model call is under way in phase `model`, from `CallModel` to one of `Reply`'s actions or to
the deadline (`TimeLimit`, the timeout around the call); it may hang. `Serve(r)` collects what the server does by
itself.

### ChatHistory

One user's chats. Every statement of `save_turn`, `prune`, `remove`, `get`, `read` and
`as_history` is a step; a DELETE takes the rows there at its start and they go at the commit.
`access` is changed by an administrator (`Grant`) at any time, and a request keeps the access it
was let in with. `holds` of a turn is what it may contain: what the asker could see, and what the
turns handed to the model contained. `leaked`, `early`, `overtaken`, `cut` and `replaced` are history
variables; `replaced` has the chats that were saved anew because theirs was deleted under the answer, the
one exception of `ScopeCoversTurns` (finding 11).

### ToolProxy

`turn[q]` is a question: `Begin` and `ReadLabels` resolve the labels, `Offer` is `tools_for`. A tool
call is `Call` (every decision of `execute` and `run` up to the next await), `ReadScope`, `CheckCase` (the
case is read and its label compared), `Last` (the call itself). The tools in `Checked` are those `run` looks at; the others are
passed through, and what they show may be of any case: the property is about the first, finding 13 about the second. `BridgeFails` is an answer that is not
200, `ToolFails` one that says the tool failed: then a case of the caller's own is refused like one that does not exist, and
the property leaves such refusals out. The model may call any tool with any argument. An id has ways of being
written; `Number` is what `int()` makes of one, `Reads` what SOAR would. Around the questions managers rename
tenants (`SetLabel`) and edit the matrix (`SetCaps`), and SOAR moves and deletes cases (`MoveCase`).
`since` is a history variable.

### QueryRuns

`tenant`, `text` and the clock are what changes around; a request goes `Ask`, `Resolve` (the tenants
in scope, the look at the cache), `Search` or `Fail`, `Finish` (the entry is stored under the time
before the search), and is `answered` with the rows that `Kept` leaves. A row is the value of its
tenant field. `Texts` are what the query may be: an SPL that filters by labels or ids, that only names a token (`loose`), or a
global one, each with a `scope_field` or without; without one `Kept` leaves every row. A value that looks like a number (`Numeric`)
is read as one (`_typed`), and compared as `Str` writes it. `reach` and `held` are history variables: what the caller could be shown at some time
since asking, and all the time. With `asked`, `end` and `shown` computed from the requests,
`QueryRuns` implements `BoundedStaleness`; `SoarConnector` does the same for the bridge's own cache,
so the promise of both caches is one specification.

### DetectionRefresh

The files, the status and the lock of `Refresher`; each export is a thread whose steps are the
single file operations. `Export` chooses any exit code and any staging file. `Restart` drops the
threads, the lock and the cache and keeps the files. A reader takes one step for each access to
the file or to a field of the cache. `DetectionService` has this module as the instance `Refresh`; its
`RefreshSpec` and properties are those of the instance.

### ExportPipeline and DetectionDataset

`run[n]` is a process of `automatic.py` with the script it is in. `FetchSplunk` takes one list,
`FetchFalcon` one page of what is `Offered` to its filter (`offset` against the total of that answer); `OpenFile` and `WriteFile` write
one rule file; `ReadDir` and `Combine` are the mapper. `Timeout` kills `automatic.py` and
leaves its script as an orphan that goes on; `Restart` ends all of them. `Collect` is what
`Refresher` does with a run's end; its own steps are in `DetectionRefresh`. Rules change at
their sources (`Edit`). `DetectionDataset` holds no state: `Dataset(rules, scope)` is what `adapter.dataset`
computes, with the kinds of rules, the counts of each tenant and the roll-up. `Exported` is what it is given: Splunk may write
the flag of an active rule as the text "0", which `is_active` (`splunk-export.py:142-144`) takes for active and
`_enabled` (`adapter.py:38-40`) for disabled, so such a rule is served and counted nowhere; the figures
agree with one another either way.

### SoarConnector, RosterCache, LoginThrottle, UsageCounts

`SoarConnector`: `client` is a number, so a new login is told from the old; a thread looks in the cache
(`Look`), takes or makes the client, searches, and may `Drop` the client on an error.
`RosterCache`: the two fields of the cache are written by `Put` and `Stamp`, one after the other.
`LoginThrottle`: `Begin` is the look at the throttle, `Fail` the record after the awaits of a sign-in.
`UsageCounts`: `Read`, `Write` and `Commit` of one row, with the retry after a lost race for the first
insert of a day.

### QueryCatalog

`catalog` and `versions` are the tables, `req` an editor's request. `service.catalog()` reads the
whole catalog in one database session; `_save` then reads, checks and writes its entry in a second
one. So a save is `Save` (`Update`, `Reset`, or `Rollback` after `ReadVersion`), `ReadEntry`,
`Commit`; `Create` is followed by `Insert`, `Remove` by `Delete`. `Commit` writes the columns that
differ from the row that was loaded, and the number after the one loaded. A text is reduced to what
it includes and whether it filters by tenant. `Expands` is `expand` by layers of nesting: a
fragment that includes itself is one nested too deeply. `RunQuery`, `TestQuery` and `RunAdhoc` read
the catalog once and check again. `Restart` is `seed_data_queries` with any shipped release, and
ends the requests in flight. `loose` and `mixed` are history variables. `mixed` has the ids two
hands have numbered. `loose` has those that were written after a check of another catalog, or never
checked, or dropped while another entry includes them, each until it is a checked fragment again or nothing includes it (`Loosened`).
`FirstAssumption` says of the release a database begins with that its entries include fragments it ships.

## 3. Runs

Each run is one question. Its bounds are in its `.cfg` file.

| Run | Shows |
|---|---|
| `auth_passwords` | two requests at a time of an administrator and an analyst who sign in, change, reset, disable and enable: a live session belongs to the current password, and a disabled account has none, except for sessions of a sign-in that straddled the change |
| `auth_sessions` | sessions over time (expiry, idle limit, touches, sign-out, disabling) implement `SessionLife`: no interleaving brings an ended session back |
| `auth_factor` | wrong passwords and codes, enrolment and confirmation interleaved: the counter of failures stays below its limit, only a confirmed factor comes into force, and it stays |
| `auth_reset` | **violated**: without the exception of `auth_passwords`, a session of the old password lives on |
| `chat_turns` | limits, budget and release, whatever the model, the bridge and the client do; every question ends |
| `chat_history` | the scope of a chat covers its turns, turns are in order, orphans come from one window only, the cap holds |
| `detection_refresh` | one export at a time, only checked rules live, none lost, the status true, each run ends |
| `catalog_edits` | edits, deletions and restarts with another release: histories complete, includes resolve, except at ids two hands raced for; no search goes out unfiltered for one who may not; edited entries outlive restarts |
| `roles_startup` | starts cut off at every await on a new database or an older build's, then managers who edit the matrix and one another: the process serves only when each step of the start is done, whoever signs in and changes a password meanwhile, decides by the stored rows, and somebody can manage it |
| `query_runs` | two callers, of one tenant and of all, share the cache while tenants are renamed and archived and the query is rewritten: an answer has the rows in reach and all of them (with the exceptions of findings 8 and 12), and is no older than promised (`BoundedStaleness`) |
| `pipeline_export` | two runs of the scripts with failures, timeouts, restarts and rules that change: a run that succeeds serves every rule that was there all along; the figures agree for every scope |
| `services` | the SOAR client is replaced once broken and its cached answers are fresh (`BoundedStaleness`); sign-ins are throttled and let in again; views are lost only to a simultaneous one; who is on shift is recent; calls of the tools `run` checks show the caller's own cases and refuse none of them |

Bounds, and why they are enough:

- Two requests in flight, in all models: every hazard named in `PROJECT.json` is a pair of
  handlers, one of which commits inside the other. The history variables keep what earlier requests did, so
  longer sequences are explored as well: requests are slots that are used again without a bound.
- `auth_passwords`: one administrator, one analyst, two passwords (old and new), three sessions
  (the administrator's, one kept and one revoked). The clock stands still, for no step of this
  question reads it; `LockoutAttempts = 1` keeps the counter out of the way. `auth_sessions` has the clock instead: an idle
  limit of 1, a life of 2, time up to 3, so that a session can idle out, expire, or do both.
  `auth_factor`: two secrets (the one in force, the one pending), limits of 2, so that one wrong code
  and the limit are both reached.
- `chat_turns`: one user, for users share nothing in the limiter but a section that never
  awaits; two questions; two per minute of 2 ticks and three per day of 3 ticks within 6 ticks, so
  both windows slide past the first stamps; a budget of two tool rounds and two tools, replies
  with up to two tools, so a reply can overrun what is left. A question has two ticks (`Timeout`); the clock goes past
its bound only to the deadline of a call that is awaited, so a hanging call meets it.
- `chat_history`: two chats under a cap of one, three saves, two changes of access among one
  tenant, two tenants and "*": the scope that absorbs the others, and access that is widened for one turn
  and narrowed again before the next.
- `detection_refresh`: two exports, one restart, two reader threads: a success over a success, a failure after one,
  a restart in each.
- `catalog_edits`: two editors, three ids: a shipped fragment, a shipped query over it, and an id that an
  editor may take for a fragment or for a query, and free again; the two fragments may include each other,
  and the query either of them or none; nesting up to 2 in place of 4, which a chain of three ids passes; two releases, the second
  without the fragment; five rows of history, three beyond the shipped ones, enough for two saves of one
  entry to race and a third to follow; one restart.
- `roles_startup`: one manager from the seed and a second, one role to edit, one
  capability of each kind; two requests at a time and two restarts, so that a start is cut off twice, or once and the edits after it.
- `query_runs`: two tenants, of which one is named like a number, a caller of one and a caller of all; three texts, one that filters
  by labels without a `scope_field`, one that only names the token but has one, and a global one; cached for two ticks of
  two, so that an answer is fresh or just stale; three asks (one fills the cache, two others use
  it) and one edit between any two of their steps.
- `pipeline_export`: five rules, of which two share a technique and two the name of their file; two
  customers, one without Splunk; pages of one rule, so that rules shift between pages; two runs and
  two upsets (a change, a failure, a timeout, a restart).
- `services`: two threads over each cache with three asks, one trouble, one change of the list; two sign-ins in flight,
  a limit of two failures within three ticks of six and one entry kept, so that purging begins with the
  second address; three page views in flight over three days with one kept; one question with two tool calls
  and two edits, callers of one tenant, of two and of all, two cases, three ways of writing an id; a tool of each kind, one
  that is passed through among them.

`CHECK_DEADLOCK FALSE` is given where a system at its bounds stops: the clock at its end, all session
rows used, no export, save, edit or question left. `catalog_edits` checks deadlock: the catalog can
always be searched.

Requests, threads, sessions, passwords, secrets and chats are symmetric where SYMMETRY is declared: no
definition tells their members apart, and those runs check no liveness.

For every property of a passing run the modules also hold a mutated form of one definition (named
`X_what` beside `X`), with a fault a change of that code could bring in: a dropped guard, a missing
revocation, a whole-row write, a limit off by one. No next-state relation uses them. Put in the
place of the definition, each breaks its property, which shows that the property speaks about the code.

## 4. Fairness and assumptions

- `ChatTurns`: weak fairness of `Serve(r)` for each question. asyncio runs a ready coroutine; a
  model call ends by `asyncio.timeout` at the deadline, a tool call by the timeout of its HTTP
  client. Weak fairness of `Tick`: time goes on. Nothing is assumed of clients, nor that a model call is ever answered.
- `DetectionRefresh`: weak fairness of each run's thread. The export process is killed at its
  timeout. Nothing is assumed of readers or of the schedule.
- All other modules have safety properties only, and no fairness. Implementing `BoundedStaleness` is a
  safety property too: it says how old an answer may be, not that one comes.
- PostgreSQL at read committed: a statement sees what was committed before it. One worker process,
  as `services/core/Dockerfile` starts it: the limiter and its lock are in its memory.
- SQLAlchemy writes the columns whose value changed since they were loaded.
- A one-time code matches when the secret it was computed from matches; a password hash matches
  when the password is the one that was hashed.

## 5. What is proved

All for every value of the constants, under the named assumptions of the module, which TLC evaluates in
each of its runs. Nothing is bounded but by constants that may be any number: accounts, requests, inputs and limits;
conversations, saves and changes of access; exports, restarts and readers; editors, texts, releases and depths of
nesting; roles, capabilities and accounts of the matrix; tenants, texts and cache times; threads, addresses,
page views, lists of the roster, questions, tools and ways of writing an id.

| Module | Theorem | States | Rests on |
|---|---|---|---|
| `AuthProofs` | `TypeCorrect` | `TypeOK` | inductive by itself: `TypeOK` holds `RequestOK`, what each phase of a request carries |
| | `CounterCorrect` | `FailedBelowLimit` | a failure is counted from a stale copy; inductive only together with the claim that the copies in flight are below the limit too |
| | `CopiesCorrect` | `CopiesOK` | the strengthening: what a request holds at its commit (a copy below the limit, an account that exists, no disabled account for a sign-in, the owner of its session) |
| | `StaleCorrect`, `DisabledCorrect` | `StaleSessionsAreRaces`, `DisabledSessionsAreRaces` | `CopiesOK` and the classification of steps below |
| | `LifecycleImplemented` | `SessionsEndForGood` | initial states map to initial states, each step of `Next` to a step of `SessionLife` or a stutter |
| | `FactorIsConfirmed`, `FactorStays` | `FactorConfirmed`, `FactorStaysInForce` | `FactorOK` |
| `ChatTurnsProofs` | `OneQuestion`, `NobodyIsStuck` | `OneQuestionAtATime`, `BusyIsServed` | `UsersOK`: two questions in flight have different users, and both users are busy |
| | `BudgetIsKept` | `BudgetHolds` | `BudgetOK`: each turn is within its budget, and one that has not ended is not marked as ended |
| | `RateIsKept` | `RateHolds` | `StampsOK` |
| `ChatHistoryProofs` | `TypeCorrect` | `TypeOK` | `IInv` of the module, below |
| | `ScopeCorrect`, `EarlierCorrect` | `ScopeCoversTurns`, `EarlierTurnsAreCovered` | its parts `Seen`, `Answer` and `Writing` |
| | `OrphansCorrect`, `OrderCorrect`, `CapCorrect` | `OrphansAreRaces`, `TurnsInOrder`, `CapHolds` | its parts `Deletion`, `InOrder`, and `Dated` with `Pruned` |
| `DetectionProofs` | `PipelineTypes` | the types of `ExportPipeline` | `ProcessesOK`: what a process may have at hand at each line of its script |
| | `ExportIsComplete` | `LiveIsComplete` | `PipelineOK`, below |
| | `FiguresAgree` | `ScopedFiguresAgree` | the types of the pipeline; lemmas on `DetectionDataset` for every set of rules and every scope |
| | `RefreshTypes`, `OneExportAtATime`, `NewestIsSafe`, `StatusIsTrue` | the types of `DetectionRefresh`, `OneExport`, `NewestIsKept`, `StatusTellsLive` | `RunsOK`: a run at work is that of the last export, and `WorkAt` says what it knows of the files at each point |
| | `OnlyCheckedIsServed`, `CacheIsPaired` | `LiveIsChecked`, `StaleCacheIsARace` | `CacheOK`: what a request holds was live after the time it read; one at a time sets rules, then time |
| `QueryCatalogProofs` | `SearchesAreFiltered` | `RunsAreFiltered` | `CatalogOK`: a stored mode is one of the two, so passing the checks of a run means a filter or a global query |
| | `EditsSurvive` | `EditsSurviveRestarts` | `CatalogOK`; each step that changes an entry names it, or finds it owned by the system |
| | `IncludesCorrect` | `IncludesResolve` | `IncludesInv` |
| | `HistoryCorrect` | `HistoryIsComplete` | `InOrder`: the rows of an entry number its texts up to its version, each once |
| `QueryRunsProofs` | `InReach`, `Complete` | `RowsAreInReach`, `RowsAreComplete` | `IInv` of the module, below |
| | `Fresh` | `AnswersAreFresh`: `QueryRuns` implements `BoundedStaleness` | the same; each step maps to a step of `BoundedStaleness` or a stutter |
| `RoleMatrixProofs` | `MatrixCurrent` | `MatrixIsCurrent` | `Current`: an edit that read the matrix read it as it is now, unless another overtook it |
| | `ManagersStay` | `ManagersRemain` | `Managed` and `Polite`: nobody disables or resets himself |
| | `StartCompletes` | `StartIsComplete` | `Clear` (once the sweep is marked, no account has the shared password, and one with a committed password must change it and has no session from before) and `Seeded` |
| `ServicesProofs` | `ClientIsReplaced`, `SoarIsFresh` | `BrokenClientIsReplaced`, `SoarAnswersAreFresh`: `SoarConnector` implements `BoundedStaleness` | `SoarInv`: the client in use has never failed, an entry was read no earlier than its stamp |
| | `UsageIsCounted` | `ViewsAreCounted` | `UsageInv`: what a request read is what the row has, unless another has read it too |
| | `ThrottleHolds` | `SignInsAreThrottled` | `ThrottleInv` |
| | `ScopeHolds` | `ScopeIsExact` | `ProxyInv`: what a question has read lies between what was so all along and what was so at some time |
| | `OnShiftHolds` | `OnShiftIsRecent` | `RosterInv`, and `ParsedRight` on the parser of the list |

The arguments, where an invariant is not inductive by itself:

- Revocation (`StaleCorrect`, `DisabledCorrect`). A lemma divides the steps of `Next` into quiet ones, which
  change no password, no account's state and open no session, and the six commits that may (`Acts`). Quiet
  steps preserve both invariants at once; for each of the six a lemma shows that the sessions it does
  not revoke are the one it keeps, which then belongs to the new password, or are marked in `raced`. `CopiesOK`
  excludes, for instance, a sign-in that decided on a copy of a disabled account.
- Second factors. A confirmation writes the columns that differ from a stale copy, so it could leave the old secret
  in force under a new mark. `Proper` excludes it: a pending secret is never the one in force, in the table and in
  every copy, for `totp_enroll` draws it fresh; so what was checked is always written.
- The rate. Each admission prunes what the next one counts. `StampsOK` says of every user that the stamps are
  all admissions but the first few, which are older than a day (`Forgets`), in order of time (`InTime`), and that admissions
  are as far apart as the limits ask (`Spaced`). The daily pruning loses nothing to the limit per minute since a minute
  is no longer than a day, which `LimitsAssumption` says.
- Conversations. `IInv` of `ChatHistoryProofs` has what a request carries between two of its transactions: the row a save
  is about to write is new, or as it was read, or deleted since (`Writing`); a deletion between its statements
  is about all turns of its chats but those saved since (`Deletion`); what was there at the door is covered
  (`Seen`), and so is the answer made of it, by the scope its chat will have (`Answer`). This is where the
  exception of `replaced` was found: without it `Answer` is not inductive, and TLC has the behaviour. Chats have different dates
  (`Dated`), so pruning leaves the newest; `Pruned` allows for chats about to be deleted.
- The catalog. `IncludesInv` says that what is not loose includes fragments that are there or loose ones (`Local`), that no ids
  which are not loose lead endlessly to one another (`Acyclic`), and what a request was checked against
  (`AllChecked`). A save that was checked on the catalog as it still is cannot close a circle, for its text expands in
  finitely many layers. That `Expands` by layers says so for any depth is `LayersFromBelow` and `NothingEndless`.
- The matrix. A start may be cut off at any await, so `Seeded` says that the stored matrix has a row for each role or none, and
  `Clear` counts only on the mark the sweep leaves in the same transaction as its changes. A sign-in adds a session of after the sweep,
  and whatever takes the mark to change a password off an account also gives it another password, so both keep `Clear`. A reset that
  sets a password which need not be changed writes both in one statement.
- The throttle. What is kept of an address is all of its failures but some that are out of the window (`Forgets`), though entries are
  purged. The failures of a window and the sign-ins let in count together (`CountOK`), since each of these may become a
  failure. `WaitOK` names the failure that has to leave the window before a refused address is let in.
- The caches (`QueryRuns`, `SoarConnector`, `RosterCache`). An answer comes from a cache where another caller's
  search put it, so the invariants say of each entry that it was read no earlier than its stamp, and what its key stands for, and of each
  request that what it holds is no older than promised. `RosterInv` is claimed as long as no two fetches have overlapped.
- The export. `PipelineOK` says that one process of `automatic.py` at most is alive, the others being orphans of
  runs that ended (`OneAtATime`); that what has been so since a run began is so now, and what the run has got of such a rule
  is that (`SteadyOK`); that falcon's rules are the author's wherever they are, on disk, in an orphan or served, until the
  fallback is taken (`OnlyMine`); and that none is lost (`NothingIsLost`): as long as a run has met no error and no
  orphan has crossed it, each rule it is to export is on the way (`OnTheWay`), which says for each point of
  the three scripts where that is: still to come in the list, at hand, in its file, read by the mapper or in
  the staging file. For a page of falcon's it says that the rules before the offset have been got (`Covered`), which an edit
  that shifts the list would break; a rule that was `Unshifted` is before the offset now if it was before. A file is written in two
  steps, so `OnTheWay` has the rule at hand while its file is torn. Two rules whose names make one file are left out by
  the property itself (`Alone`). TLC checked `PipelineOK` on the instance of `MCPipeline` before it was proved.
  The proof found one fault of the model: two arms of the CASE in `Ended` held at once, so what followed a script was not
  determined; they are disjoint now.
- The figures. The number of pairs of a tactic and a technique is a sum over tactics. `TotalUnfolds` shows, by well-foundedness of the strict subsets of
  a finite set, that such a sum is that of its recursion element by element, and so the cardinality of the pairs. The
  kinds divide the rules of a scope into disjoint sets, whose counts therefore add up.
- `DetectionRefresh`. That no second run starts needs `Alone`, that the lock is held by whoever works, and
  `StatusTellsLive` needs that a failing run carries on the rules it read (`kept`), which holds
  only because nobody else writes the status meanwhile.

In each module one lemma per action shows that the step keeps the invariant; a lemma on the shape of a step
(`GoesOn`, `RunMoves`, `RequestMoves`, `OthersStay`, `QuestionMoves`) says what is enough to look at.

Where a loop or a recursive function is involved, the proofs reason from a smallest counterexample instead of by
induction: `Smallest`, from the well-foundedness of the naturals, gives the first stamp a pruning loop stops at, the
lowest layer at which two expansions differ, the first column of the roster that is read wrongly.

Every invariant that a passing run checks is proved, and so are both refinements and the action properties. Only model-checked are
`QuestionsEnd` and `RefreshEnds`: they are liveness under fairness, which the prover does not reach. The types of
the modules whose type invariant no theorem names by itself are parts of the invariants above. The violated properties of
section 6 stay with TLC by their nature.

## 6. Findings

Places where the code does not do what its own words say; each is listed in `PROJECT.json` with the
line quoted. The first has a run, `auth_reset`; the others are definitions beside the properties, and are
violated when added to the cfg named.

1. `NoSessionOutlivesPassword` (`auth_reset`): a password reset does not end a session whose sign-in
   verified the old password before the reset and commits after it.
2. `TemporaryPasswordIsChanged` (`MCAuthPasswords.cfg`): `set_password` does not write
   `must_change_password` when its stale copy already has the value, so a password change committed in
   between leaves the temporary password unmarked.
3. `TurnIsClosed` (`MCChat.cfg`): an unreachable bridge ends a turn's event stream with neither `done`
   nor `error`.
4. `NothingBeyondAccess` (`MCHistory.cfg`): a saved chat is checked in one transaction and read in
   another; an answer saved in between is handed to a user whose access no longer covers it.
5. `LiveFileStays` (`MCDetection.cfg`): the live rules file is moved away before the new one is put in
   its place; a restart in between leaves none until a later export succeeds.
6. `SavedQueriesAreValid` (`MCCatalog.cfg`): saving a fragment does not check the queries that include
   it, and every check is made on a catalog read before the commit, and a release may drop a fragment
   that edited queries include; a stored query may then fail its own validation.
   `RunsAreFiltered` holds nevertheless, since the text is checked again when it is run.
7. `VersionsGoUp` (`MCCatalog.cfg`): a save computes its number from the row it loaded; one that commits
   after two others takes the number back, and a roll-back to the doubled number ends in an error.
8. `EveryLabelIsAsked` (`MCRuns.cfg`, with a text that filters by labels and has a `scope_field`): a label with a
   character `quoted` does not allow is left out of the filter, and one that looks like a number but is written
   otherwise (007) is read as that number and then not found among the labels; its tenant has no rows in
   such answers, and nothing says so.
9. `OnlyActiveAreServed` (`MCPipeline.cfg`): the export never deletes a rule file, so a rule disabled
   or deleted at its source is served as an enabled one for ever.
10. `ExpiredClientIsReplaced` (`MCServices.cfg`, once `Services` names it from `SoarConnector`): an expired session answers with
    a status, which is raised as `SplunkError`, and its handlers keep the client: each later search
    fails until something else breaks.
11. `ScopeHoldsAll` (`MCHistory.cfg`): a chat deleted while its next answer is on the way is saved anew with an
    empty scope, to which the scope its user had at the question is added; an answer that drew on more of the
    deleted chat is then in a chat whose scope does not cover it, and so are the turns that draw on that one.
12. `NoRowOutOfReach` (`MCRuns.cfg`, with a loose text without `scope_field`, or with the labels 7 and 007): the rows are
    filtered only if the query has a `scope_field`, and the check on a text asks that it names a token, not
    that it filters by it; and a row of 007 counts for a tenant labelled 7.
13. `EveryToolIsScoped` (`MCServices.cfg`, once `Services` names it from `ToolProxy`): the comment calls what `run`
    passes through "non-tenant tools (discovery, metadata)", but every tool of the role that is in none of the three
    groups is passed through, those that tell of the runs of actions and playbooks among them.

## 7. Not modelled

- In `AuthSessions`: profile fields, tenants and grants of an account, audit rows, tokens as
  text. `mfa_ok` is a column that sign-in always stores as true, and is modelled so. No run states the limit
  of wrong codes in an enrolment, which is counted from a copy as failures are.
- In `ChatTurns`: the text of prompts and events, `clean_history`. A restart of the
  process, which empties the limiter.
- In `ToolProxy`: schemas and texts; the tools of Watchfloor itself, which run what `QueryRuns` models.
- In `ChatHistory`: titles, other users (rows are always selected by user).
- In `DetectionRefresh`: `next_run`'s clock arithmetic, the log, the masking of secrets. A script that outlives the timeout of its
  run, and may write the staging file of the next one: `ExportPipeline` has it, and the choice of any staging file
  in `Export` covers what it leaves when the export ends, not what it writes between `Check` and `Install`.
- In `ExportPipeline`: tokens and requests to Splunk and Falcon, the fields of a rule but those the dataset reads. The
  mapper reads a directory in one step. `json_mapping_all.py`,
  `json_mapping_time_based.py` and `generate_coverage_html.py` are tools for the command line that
  `automatic.py` does not run: no state, text in and text out.
- In `QueryRuns`: the arithmetic of periods (a window ends now or long ago), `metrics.py`'s composition of
  several runs, creating tenants; a row without a value in the field that names its tenant.
- In `SoarConnector`: the slices of a long window, the texts of searches. They are arithmetic on one request.
- In `RoleMatrix`: the migration of the schema (`db.py`), the plain columns of an account, the creation of accounts (an older
  build's database has them all, a new one only the first). A sign-in and a change of one's own password are one step each;
  what happens between their statements is in `AuthSessions`. The sessions of an account are told apart only by the side of the sweep they were opened on.
- In `QueryCatalog`: commands, tokens and lengths of a text (no other entry changes what the checks say of
  them), names, descriptions, columns and cache times.
- The audit trail is append-only and read by nothing that decides. Pages, the prototype, the data
  model's plain columns and the infrastructure are rendering and configuration.

## 8. Plan

Done: all modules of section 2, model-checked; theorems on each of them, with every safety property of a passing run proved.

What is left, in this order:

1. That `DetectionRefresh` goes on from what `ExportPipeline` promises of a run: one module in which the orphans of
   the pipeline write while the refresher checks and installs.
2. The expansion by layers against one along the paths of `expand`, over every small catalog;
   `clean_history` and the slices of a window as operators over bounded inputs.
