------------------------------ MODULE Services ------------------------------
(***************************************************************************)
(* The small state machines of the services: the SOAR connector, the       *)
(* throttle of sign-ins, the usage counts, the roster connector and the    *)
(* authorization proxy of the assistant.                                   *)
(* They share nothing, each having a clock of its own, so a behaviour is   *)
(* one of them at work and the rest at rest: TLC explores the sum of their *)
(* states, and what holds of the component holds of the whole.             *)
(***************************************************************************)
EXTENDS Integers

CONSTANTS
  Threads, None, CacheSeconds,       \* of both connectors
  Names, SoarLimit, MaxSoarAsks, MaxTroubles,                         \* of SoarConnector
  Attempts, Addresses, FailureLimit, Window, MaxKeys, ThrottleLimit, MaxSignIns, \* of LoginThrottle
  Requests, Kinds, Tries, KeepDays, LastDay, MaxViews,             \* of UsageCounts
  Lists, NoDate, CodeOf, RosterLimit, MaxRosterAsks, MaxRosterEdits,     \* of RosterCache
  Questions, Callers, RoleTools, Tenants, Labels, Cases,           \* of ToolProxy
  Ids, Number, Reads, MaxCalls, MaxToolEdits

VARIABLES
  part,      \* which of them is at work
  now, client, alive, clients, cache, thread, asks, troubles, broken, refused,
  throttleNow, fails, attempt, signIns, log,
  day, rows, request, views, counted, raced,
  rosterNow, list, roster, rosterThread, rosterAsks, edits, shown, overlap,
  caps, label, case, catalogue, turn, calls, toolEdits, since

soarVars == <<now, client, alive, clients, cache, thread, asks, troubles, broken, refused>>
throttleVars == <<throttleNow, fails, attempt, signIns, log>>
usageVars == <<day, rows, request, views, counted, raced>>
rosterVars == <<rosterNow, list, roster, rosterThread, rosterAsks, edits, shown, overlap>>
proxyVars == <<caps, label, case, catalogue, turn, calls, toolEdits, since>>
vars == <<part, soarVars, throttleVars, usageVars, rosterVars, proxyVars>>

Soar == INSTANCE SoarConnector WITH Limit <- SoarLimit, MaxAsks <- MaxSoarAsks

Throttle == INSTANCE LoginThrottle WITH Limit <- ThrottleLimit, now <- throttleNow

Usage == INSTANCE UsageCounts

Roster == INSTANCE RosterCache WITH
  Limit <- RosterLimit, MaxAsks <- MaxRosterAsks, MaxEdits <- MaxRosterEdits,
  now <- rosterNow, cache <- roster, thread <- rosterThread, asks <- rosterAsks

Proxy == INSTANCE ToolProxy WITH MaxEdits <- MaxToolEdits, edits <- toolEdits

\* What each of them asks of its constants.
ASSUME ServicesAssumption ==
  /\ Soar!ConstantsOK /\ Throttle!ConstantsOK /\ Usage!ConstantsOK
  /\ Roster!ConstantsOK /\ Proxy!ConstantsOK

----------------------------------------------------------------------------
Init ==
  /\ part \in {"soar", "throttle", "usage", "roster", "proxy"}
  /\ Soar!Init /\ Throttle!Init /\ Usage!Init /\ Roster!Init /\ Proxy!Init

Next ==
  /\ UNCHANGED part
  /\ \/ part = "soar" /\ Soar!Next /\ UNCHANGED <<throttleVars, usageVars, rosterVars, proxyVars>>
     \/ part = "throttle" /\ Throttle!Next /\ UNCHANGED <<soarVars, usageVars, rosterVars, proxyVars>>
     \/ part = "usage" /\ Usage!Next /\ UNCHANGED <<soarVars, throttleVars, rosterVars, proxyVars>>
     \/ part = "roster" /\ Roster!Next /\ UNCHANGED <<soarVars, throttleVars, usageVars, proxyVars>>
     \/ part = "proxy" /\ Proxy!Next /\ UNCHANGED <<soarVars, throttleVars, usageVars, rosterVars>>

Spec == Init /\ [][Next]_vars

----------------------------------------------------------------------------
\* SoarConnector: once a call has ended with an error of the connection (_guard), no call
\* that begins after it is given the same client.
BrokenClientIsReplaced == Soar!BrokenClientIsReplaced

\* SoarConnector: what a cached endpoint answers is at most CACHE_SECONDS old and of a
\* window whose end is as near (_cached); it implements BoundedStaleness.
SoarAnswersAreFresh == Soar!AnswersAreFresh

\* LoginThrottle: the failures of an address stay within the limit but for sign-ins in
\* flight together, and whoever waits as long as retry_after says is let in.
SignInsAreThrottled == Throttle!SignInsAreThrottled

\* UsageCounts: record_view loses a view only to two requests that read the same row,
\* and never to the race for the first row of a day.
ViewsAreCounted == Usage!ViewsAreCounted

\* RosterCache: who on_shift names is on shift by the list as it was less than a minute
\* before the question, unless two threads fetched it at the same time.
OnShiftIsRecent == Roster!OnShiftIsRecent

\* ToolProxy: a call of a tool that run checks shows a scoped caller cases of his own
\* tenants only, and none of them is refused, whatever is renamed, moved and edited
\* between its steps.
ScopeIsExact == Proxy!ScopeIsExact
=============================================================================
