----------------------------- MODULE ChatTurns -----------------------------
(***************************************************************************)
(* The assistant's questions: admission by the ChatLimiter                 *)
(* (assistant/limits.py), the event stream of one turn (turn_events in     *)
(* api/chat.py) with its budgets and deadline, and the release.            *)
(*                                                                         *)
(* The language model, the SOAR bridge and the client are outside: the     *)
(* model answers or asks for tools, or does not come back; a tool call may *)
(* fail in a way proxy does not turn into a refusal; the client may go.    *)
(***************************************************************************)
EXTENDS Integers, Sequences, FiniteSets

CONSTANTS
  Users, Requests,
  PerMinute, PerDay,        \* assistant_requests_per_minute, _per_day
  Minute, Day,              \* 60 and 86400 seconds, in clock ticks
  MaxToolTurns, MaxToolCalls, Timeout,   \* config.py
  Blocks,                   \* tool calls one model reply may hold (bound)
  MaxTime                   \* bound on the clock, but for the deadlines of calls begun by then

ASSUME LimitsAssumption ==
  /\ PerMinute \in Nat \ {0} /\ PerDay \in Nat \ {0} /\ Minute \in Nat \ {0} /\ Day \in Nat
  /\ Minute =< Day
  /\ MaxToolTurns \in Nat /\ MaxToolCalls \in Nat /\ Timeout \in Nat
  /\ Blocks \in Nat \ {0} /\ MaxTime \in Nat

VARIABLES
  busy,     \* ChatLimiter._busy
  recent,   \* ChatLimiter._recent: per user, the times of the admitted questions
  turn,     \* the question each request slot is serving
  now,      \* the clock
  asked,    \* history: per user, every admission since the start
  lost      \* history: users whose response was dropped before its body started

vars == <<busy, recent, turn, now, asked, lost>>

\* "round" is the top of the loop, "model" a model call under way.
Phases == {"free", "admitted", "round", "model", "tools", "closing"}
Stops == {"none", "answered", "answered_at_limit", "time_limit", "turn_limit"}

Turn == [phase : Phases, user : Users \cup {"nobody"}, deadline : Nat, rounds : Nat,
         calls : Nat, blocks : Nat, stop : Stops, gone : BOOLEAN,
         last : {"none", "start", "text", "tool_end", "done", "error"}]

Free == [phase |-> "free", user |-> "nobody", deadline |-> 0, rounds |-> 0, calls |-> 0,
         blocks |-> 0, stop |-> "none", gone |-> FALSE, last |-> "none"]

BudgetSpent(t) == t.rounds = MaxToolTurns \/ t.calls >= MaxToolCalls

----------------------------------------------------------------------------
(* Admission. *)

\* The while loop over the deque: the stamps from the first that is no older than span.
From(times, span) ==
  LET old == CHOOSE n \in 0..Len(times) :
               /\ \A i \in 1..n : now - times[i] > span
               /\ n < Len(times) => now - times[n + 1] =< span
  IN SubSeq(times, old + 1, Len(times))

Kept_ForTheMinute(times) == From(times, Minute)

\* The stamps still counted for the daily limit.
Kept(times) == From(times, Day)

LastMinute(times) == Cardinality({i \in DOMAIN times : now - times[i] < Minute})

Admissible(u) == Len(Kept(recent[u])) < PerDay /\ LastMinute(Kept(recent[u])) < PerMinute

Admit_WhileBusy(r) ==
  \E u \in Users :
    /\ turn[r] = Free /\ now =< MaxTime /\ Admissible(u)
    /\ recent' = [recent EXCEPT ![u] = Append(Kept(@), now)]
    /\ asked' = [asked EXCEPT ![u] = Append(@, now)]
    /\ busy' = busy \cup {u}
    /\ turn' = [turn EXCEPT ![r] = [Free EXCEPT !.phase = "admitted", !.user = u]]
    /\ UNCHANGED <<now, lost>>

\* chat and chat_stream, up to the body: one critical section that never awaits.
Admit(r) ==
  \E u \in Users :
    /\ turn[r] = Free /\ now =< MaxTime /\ u \notin busy /\ Admissible(u)
    /\ recent' = [recent EXCEPT ![u] = Append(Kept(@), now)]
    /\ asked' = [asked EXCEPT ![u] = Append(@, now)]
    /\ busy' = busy \cup {u}
    /\ turn' = [turn EXCEPT ![r] = [Free EXCEPT !.phase = "admitted", !.user = u]]
    /\ UNCHANGED <<now, lost>>

\* A refusal changes nothing but the stamps dropped on the way.
Refuse ==
  \E u \in Users :
    /\ u \notin busy /\ ~Admissible(u)
    /\ recent' = [recent EXCEPT ![u] = Kept(@)]
    /\ UNCHANGED <<busy, turn, now, asked, lost>>

\* The client is gone before the response's body starts: the generator whose
\* finally clause releases the user never runs.
LeaveEarly(r) ==
  /\ turn[r].phase = "admitted"
  /\ lost' = lost \cup {turn[r].user}
  /\ turn' = [turn EXCEPT ![r] = Free]
  /\ UNCHANGED <<busy, recent, now, asked>>

----------------------------------------------------------------------------
(* One turn. *)

Set(r, t) == turn' = [turn EXCEPT ![r] = t] /\ UNCHANGED <<busy, recent, now, asked, lost>>

\* The generator ends by an exception: no closing event.
Fail(t) == [t EXCEPT !.phase = "closing", !.blocks = 0]

\* done, after history.save_turn (whose database errors are caught).
Done(t, stop) == [t EXCEPT !.phase = "closing", !.stop = stop, !.last = "done", !.blocks = 0]

\* tools_for, clean_history and the start event; a saved chat's history or the
\* tenant labels may fail to load.
Begin(r) ==
  LET t == turn[r] IN
  /\ t.phase = "admitted"
  /\ \/ Set(r, [t EXCEPT !.phase = "round", !.deadline = now + Timeout, !.last = "start"])
     \/ Set(r, Fail(t))

\* The loop is over.
TurnLimit(r) ==
  /\ turn[r].phase = "round" /\ turn[r].rounds = MaxToolTurns + 1
  /\ Set(r, Done(turn[r], "turn_limit"))

TimeLimit_BetweenCalls(r) ==
  /\ turn[r].phase = "round" /\ turn[r].rounds =< MaxToolTurns /\ now >= turn[r].deadline
  /\ Set(r, Done(turn[r], "time_limit"))

\* Before a model call, and during one (asyncio.timeout).
TimeLimit(r) ==
  /\ turn[r].phase \in {"round", "model"} /\ turn[r].rounds =< MaxToolTurns
  /\ now >= turn[r].deadline
  /\ Set(r, Done(turn[r], "time_limit"))

CallModel(r) ==
  /\ turn[r].phase = "round" /\ turn[r].rounds =< MaxToolTurns /\ now < turn[r].deadline
  /\ Set(r, [turn[r] EXCEPT !.phase = "model"])

\* The reply is complete; at the deadline it may still come before the timeout does.
ModelAnswers(r) ==
  LET t == turn[r] IN
  /\ t.phase = "model"
  /\ Set(r, Done([t EXCEPT !.rounds = @ + 1],
                 IF BudgetSpent(t) THEN "answered_at_limit" ELSE "answered"))

\* With the budget spent the request forbids tools, but the code does not rely on it.
ModelCallsTools(r) ==
  LET t == turn[r] IN
  /\ t.phase = "model"
  /\ \E n \in 1..Blocks :
       Set(r, [t EXCEPT !.phase = "tools", !.rounds = @ + 1, !.blocks = n, !.last = "text"])

ModelFails(r) ==
  /\ turn[r].phase = "model"
  /\ Set(r, [turn[r] EXCEPT !.phase = "closing", !.last = "error"])

ToolEnd(t) == [t EXCEPT !.blocks = @ - 1, !.last = "tool_end",
                        !.phase = IF t.blocks = 1 THEN "round" ELSE "tools"]

ToolRefused(r) ==
  LET t == turn[r] IN
  /\ t.phase = "tools" /\ t.calls >= MaxToolCalls
  /\ Set(r, ToolEnd(t))

ToolRuns_Unbounded(r) ==
  LET t == turn[r] IN
  /\ t.phase = "tools"
  /\ Set(r, ToolEnd([t EXCEPT !.calls = @ + 1]))

\* Carried out or denied: either way one of the budget.
ToolRuns(r) ==
  LET t == turn[r] IN
  /\ t.phase = "tools" /\ t.calls < MaxToolCalls
  /\ Set(r, ToolEnd([t EXCEPT !.calls = @ + 1]))

\* The bridge is unreachable: an httpx error, which neither proxy.execute nor
\* turn_events catches.
ToolBreaks(r) ==
  LET t == turn[r] IN
  /\ t.phase = "tools" /\ t.calls < MaxToolCalls
  /\ Set(r, Fail([t EXCEPT !.calls = @ + 1]))

\* The client goes away once the body has started: the generator is closed where
\* it stands.
Leave(r) ==
  /\ turn[r].phase \in {"admitted", "round", "model", "tools"}
  /\ Set(r, Fail([turn[r] EXCEPT !.gone = TRUE]))

Release_OnlyWhenDone(r) ==
  /\ turn[r].phase = "closing"
  /\ busy' = IF turn[r].last = "done" THEN busy \ {turn[r].user} ELSE busy
  /\ turn' = [turn EXCEPT ![r] = Free]
  /\ UNCHANGED <<recent, now, asked, lost>>

\* The finally clause of chat and of chat_stream's generator.
Release(r) ==
  /\ turn[r].phase = "closing"
  /\ busy' = busy \ {turn[r].user}
  /\ turn' = [turn EXCEPT ![r] = Free]
  /\ UNCHANGED <<recent, now, asked, lost>>

\* Up to the bound, and on as long as a call is waited for.
Tick ==
  /\ now < MaxTime \/ \E r \in Requests : turn[r].phase = "model" /\ now < turn[r].deadline
  /\ now' = now + 1
  /\ UNCHANGED <<busy, recent, turn, asked, lost>>

----------------------------------------------------------------------------
Init ==
  /\ busy = {} /\ lost = {} /\ now = 0
  /\ recent = [u \in Users |-> <<>>] /\ asked = [u \in Users |-> <<>>]
  /\ turn = [r \in Requests |-> Free]

\* What the server does by itself once a question is admitted.
Serve(r) ==
  \/ Begin(r) \/ TurnLimit(r) \/ TimeLimit(r) \/ CallModel(r)
  \/ ToolRefused(r) \/ ToolRuns(r) \/ ToolBreaks(r) \/ Release(r)

\* What the model's reply does, if one comes.
Reply(r) == ModelAnswers(r) \/ ModelCallsTools(r) \/ ModelFails(r)

Next ==
  \/ Tick \/ Refuse
  \/ \E r \in Requests : Admit(r) \/ LeaveEarly(r) \/ Leave(r) \/ Serve(r) \/ Reply(r)

\* The event loop runs every ready coroutine, a tool call ends by its client's timeout, and
\* time goes on.  Nothing is assumed of the model: a call may hang.
Fairness == WF_vars(Tick) /\ \A r \in Requests : WF_vars(Serve(r))

Spec == Init /\ [][Next]_vars /\ Fairness

----------------------------------------------------------------------------
(* What must hold. *)

Serving(u) == {r \in Requests : turn[r].phase # "free" /\ turn[r].user = u}

TypeOK ==
  /\ busy \subseteq Users /\ lost \subseteq Users /\ now \in Nat
  /\ recent \in [Users -> Seq(0..MaxTime)] /\ asked \in [Users -> Seq(0..MaxTime)]
  /\ turn \in [Requests -> Turn]

\* "one question at a time": a user never has two questions between their admission
\* and their release, whatever becomes of them.
OneQuestionAtATime ==
  \A u \in Users : Cardinality(Serving(u)) =< 1 /\ (Serving(u) # {} => u \in busy)

\* Only a response dropped before its body began leaves a user busy with no
\* question: an error, a broken tool or a client that leaves mid-answer does not.
BusyIsServed == \A u \in busy \ lost : Serving(u) # {}

\* Any window of a minute, or of a day, holds no more questions than allowed,
\* although the stamps kept for one limit are those pruned for the other.
RateHolds ==
  \A u \in Users : LET a == asked[u] IN
    /\ \A i \in DOMAIN a : i + PerMinute \in DOMAIN a => a[i + PerMinute] - a[i] >= Minute
    /\ \A i \in DOMAIN a : i + PerDay \in DOMAIN a => a[i + PerDay] - a[i] > Day

\* A question never costs more than its budget of tool executions and model calls,
\* however many tools the replies ask for; and "answered" is not said of a question
\* that had run out of it.
BudgetHolds ==
  \A r \in Requests : LET t == turn[r] IN
    /\ t.calls =< MaxToolCalls /\ t.rounds =< MaxToolTurns + 1
    /\ t.stop = "answered" => t.rounds =< MaxToolTurns /\ t.calls < MaxToolCalls

\* Every question that is admitted and served is over at some time, also one whose model
\* call hangs: the deadline ends the call, not only the loop between the calls.
QuestionsEnd == \A r \in Requests : turn[r].phase # "free" ~> turn[r].phase = "free"

\* turn_events: "One question -> events: start, text (deltas), tool_start, tool_end,
\* error | done".  A turn that started, and whose client stays, ends with one of the
\* two.
TurnIsClosed ==
  \A r \in Requests : LET t == turn[r] IN
    t.phase = "closing" /\ t.last # "none" /\ ~t.gone => t.last \in {"done", "error"}
====
