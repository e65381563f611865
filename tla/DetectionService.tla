-------------------------- MODULE DetectionService --------------------------
(***************************************************************************)
(* The refresher of the detection service with the names of its state and  *)
(* of its properties kept apart from those of ExportPipeline, the scripts  *)
(* it runs, so that one module can reason about both.                      *)
(***************************************************************************)
EXTENDS Naturals

CONSTANTS Readers, MaxExports, MaxRestarts   \* of DetectionRefresh

VARIABLES
  combined, previous, nextFile, status, lock, worker, sched, cache, reader, exports, restarts, newest,
  settled, overlap

Refresh == INSTANCE DetectionRefresh WITH staging <- nextFile, run <- worker

\* What it asks of its constants.
ASSUME RefreshAssumption == Refresh!ConstantsOK

RefreshSpec == Refresh!Spec

----------------------------------------------------------------------------
\* Refresher.start: never two exports at once, and the lock says so, whoever started them.
OneExport == Refresh!OneExport

\* Refresher._run: no partial, empty or broken file is ever live, kept or served, whatever
\* an export leaves behind and wherever a run is cut short.
LiveIsChecked == Refresh!LiveIsChecked

\* Refresher._run: the rules last served are live, or the previous file of a run that has
\* not put its own in their place.
NewestIsKept == Refresh!NewestIsKept

\* Refresher._run and _save_status: between runs, unless one was cut short, the status
\* tells the rules that are live, through any number of failures.
StatusTellsLive == Refresh!StatusTellsLive

\* http_api._rules: the cache pairs a file's time with that file's rules or with newer
\* ones, unless two requests loaded the file at the same time.
StaleCacheIsARace == Refresh!StaleCacheIsARace

\* Refresher._run: a run ends, with or without an error, and leaves the lock free.
RefreshEnds == Refresh!RefreshEnds
=============================================================================
