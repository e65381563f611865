--------------------------- MODULE ChatTurnsProofs ---------------------------
(* The limiter's users, and the budget of one question: proofs for any       *)
(* users, requests and limits.                                               *)
EXTENDS ChatTurns, FiniteSetTheorems, SequenceTheorems, TLAPS

Idle(r) == turn[r].phase = "free"

\* A turn between two tool calls has one left to make.
Sound(t) == t \in Turn /\ (t.phase = "tools" => t.blocks > 0)

\* What most proofs need of types; the stamps play no part in them.
TurnsOK ==
  /\ busy \subseteq Users /\ now \in Nat /\ turn \in [Requests -> Turn]
  /\ \A r \in Requests : Sound(turn[r])

----------------------------------------------------------------------------
(* What a step does to the limiter and to the turns. *)

\* The turn of r goes on: its user stays the same, and it is not over.
GoesOn(r) ==
  /\ ~Idle(r) /\ Sound(turn'[r]) /\ turn'[r].phase # "free" /\ turn'[r].user = turn[r].user
  /\ turn' = [turn EXCEPT ![r] = turn'[r]]
  /\ UNCHANGED <<busy, now, lost>>

\* Nothing but stamps and the clock.
Quiet == UNCHANGED <<busy, turn, lost>> /\ now' \in Nat

\* A step of the handler of r that does not end it is one of GoesOn.
Continues(r) ==
  \/ Begin(r) \/ TurnLimit(r) \/ TimeLimit(r) \/ CallModel(r)
  \/ ModelAnswers(r) \/ ModelCallsTools(r) \/ ModelFails(r)
  \/ ToolRefused(r) \/ ToolRuns(r) \/ ToolBreaks(r) \/ Leave(r)

LEMMA FreeType == Free \in Turn
  BY DEF Free, Turn, Phases, Stops

\* A tool call leaves one block less, and counts as a call or not.
LEMMA ToolEndSound ==
  ASSUME NEW t, Sound(t), t.phase = "tools", NEW calls \in Nat
  PROVE  LET next == ToolEnd([t EXCEPT !.calls = calls]) IN
         Sound(next) /\ next.phase # "free" /\ next.user = t.user
<1> DEFINE blocks == t.blocks - 1
           phase == IF t.blocks = 1 THEN "round" ELSE "tools"
           next == [t EXCEPT !.calls = calls, !.blocks = blocks, !.last = "tool_end", !.phase = phase]
<1>1. blocks \in Nat /\ (phase = "tools" => blocks > 0) /\ phase \in {"round", "tools"}
  BY DEF Sound, Turn
<1>2. next = ToolEnd([t EXCEPT !.calls = calls])
  BY DEF ToolEnd, Sound, Turn
<1> HIDE DEF blocks, phase
<1>3. Sound(next) /\ next.phase # "free" /\ next.user = t.user
  BY <1>1 DEF Sound, Turn, Phases, Stops
<1> QED
  BY <1>2, <1>3

\* A turn set to a sound one of the same user goes on.
LEMMA SetGoesOn ==
  ASSUME TurnsOK, NEW r \in Requests, ~Idle(r), NEW t, Sound(t), t.phase # "free",
         t.user = turn[r].user, Set(r, t)
  PROVE  GoesOn(r)
  BY DEF TurnsOK, Set, GoesOn

LEMMA ContinuesIsGoesOn ==
  ASSUME TurnsOK, NEW r \in Requests, Continues(r)
  PROVE  GoesOn(r)
<1> DEFINE t == turn[r]
<1>0. /\ Sound(t) /\ t \in Turn /\ now \in Nat
      /\ Timeout \in Nat /\ MaxToolTurns \in Nat /\ MaxToolCalls \in Nat /\ Blocks \in Nat
  BY LimitsAssumption DEF TurnsOK, Sound
<1>1. CASE Begin(r)
  <2> DEFINE deadline == now + Timeout
             next == [t EXCEPT !.phase = "round", !.deadline = deadline, !.last = "start"]
  <2>1. ~Idle(r) /\ (Set(r, next) \/ Set(r, Fail(t)))
    BY <1>1 DEF Begin, Idle
  <2>0. deadline \in Nat
    BY <1>0
  <2> HIDE DEF deadline
  <2>2. Sound(next) /\ next.phase # "free" /\ next.user = t.user
    BY <1>0, <2>0 DEF Sound, Turn, Phases, Stops
  <2>3. Sound(Fail(t)) /\ Fail(t).phase # "free" /\ Fail(t).user = t.user
    BY <1>0 DEF Fail, Sound, Turn, Phases, Stops
  <2> QED
    BY <2>1, <2>2, <2>3, SetGoesOn
<1>2. CASE TurnLimit(r)
  <2> DEFINE next == Done(t, "turn_limit")
  <2>1. ~Idle(r) /\ Set(r, next)
    BY <1>2 DEF TurnLimit, Idle
  <2>2. Sound(next) /\ next.phase # "free" /\ next.user = t.user
    BY <1>0, <1>2 DEF TurnLimit, Sound, Turn, Phases, Stops, Done
  <2> QED
    BY <2>1, <2>2, SetGoesOn
<1>3. CASE TimeLimit(r)
  <2> DEFINE next == Done(t, "time_limit")
  <2>1. ~Idle(r) /\ Set(r, next)
    BY <1>3 DEF TimeLimit, Idle
  <2>2. Sound(next) /\ next.phase # "free" /\ next.user = t.user
    BY <1>0, <1>3 DEF TimeLimit, Sound, Turn, Phases, Stops, Done
  <2> QED
    BY <2>1, <2>2, SetGoesOn
<1>4. CASE ModelAnswers(r)
  <2> DEFINE rounds == t.rounds + 1
  <2>1. PICK stop \in {"answered", "answered_at_limit"} :
          Set(r, Done([t EXCEPT !.rounds = rounds], stop))
    BY <1>4 DEF ModelAnswers
  <2>0. rounds \in Nat
    BY <1>0 DEF Turn
  <2> HIDE DEF rounds
  <2> DEFINE next == Done([t EXCEPT !.rounds = rounds], stop)
  <2>2. ~Idle(r)
    BY <1>4 DEF ModelAnswers, Idle
  <2>3. Sound(next) /\ next.phase # "free" /\ next.user = t.user
    BY <1>0, <2>0 DEF Done, Sound, Turn, Phases, Stops
  <2> QED
    BY <2>1, <2>2, <2>3, SetGoesOn
<1>5. CASE ModelCallsTools(r)
  <2> DEFINE rounds == t.rounds + 1
  <2>1. PICK n \in 1..Blocks :
          Set(r, [t EXCEPT !.phase = "tools", !.rounds = rounds, !.blocks = n, !.last = "text"])
    BY <1>5 DEF ModelCallsTools
  <2>0. rounds \in Nat /\ n \in Nat /\ n > 0
    BY <1>0 DEF Turn
  <2> HIDE DEF rounds
  <2> DEFINE next == [t EXCEPT !.phase = "tools", !.rounds = rounds, !.blocks = n, !.last = "text"]
  <2>2. ~Idle(r)
    BY <1>5 DEF ModelCallsTools, Idle
  <2>3. Sound(next) /\ next.phase # "free" /\ next.user = t.user
    BY <1>0, <2>0 DEF Sound, Turn, Phases, Stops
  <2> QED
    BY <2>1, <2>2, <2>3, SetGoesOn
<1>6. CASE ModelFails(r)
  <2> DEFINE next == [t EXCEPT !.phase = "closing", !.last = "error"]
  <2>1. ~Idle(r) /\ Set(r, next)
    BY <1>6 DEF ModelFails, Idle
  <2>2. Sound(next) /\ next.phase # "free" /\ next.user = t.user
    BY <1>0, <1>6 DEF ModelFails, Sound, Turn, Phases, Stops
  <2> QED
    BY <2>1, <2>2, SetGoesOn
<1>7. CASE ToolRefused(r)
  <2> DEFINE next == ToolEnd(t)
  <2>1. ~Idle(r) /\ Set(r, next)
    BY <1>7 DEF ToolRefused, Idle
  <2>2. Sound(next) /\ next.phase # "free" /\ next.user = t.user
    <3>1. [t EXCEPT !.calls = t.calls] = t /\ t.calls \in Nat
      BY <1>0 DEF Turn
    <3> QED
      BY <1>0, <1>7, <3>1, ToolEndSound DEF ToolRefused
  <2> QED
    BY <2>1, <2>2, SetGoesOn
<1>8. CASE ToolRuns(r)
  <2> DEFINE next == ToolEnd([t EXCEPT !.calls = @ + 1])
  <2>1. ~Idle(r) /\ Set(r, next)
    BY <1>8 DEF ToolRuns, Idle
  <2>2. Sound(next) /\ next.phase # "free" /\ next.user = t.user
    <3>1. t.calls + 1 \in Nat
      BY <1>0 DEF Turn
    <3> QED
      BY <1>0, <1>8, <3>1, ToolEndSound DEF ToolRuns
  <2> QED
    BY <2>1, <2>2, SetGoesOn
<1>9. CASE ToolBreaks(r)
  <2> DEFINE calls == t.calls + 1
             next == Fail([t EXCEPT !.calls = calls])
  <2>1. ~Idle(r) /\ Set(r, next)
    BY <1>9 DEF ToolBreaks, Idle
  <2>0. calls \in Nat
    BY <1>0 DEF Turn
  <2> HIDE DEF calls
  <2>2. Sound(next) /\ next.phase # "free" /\ next.user = t.user
    BY <1>0, <2>0 DEF Sound, Turn, Phases, Stops, Fail
  <2> QED
    BY <2>1, <2>2, SetGoesOn
<1>10. CASE Leave(r)
  <2> DEFINE next == Fail([t EXCEPT !.gone = TRUE])
  <2>1. ~Idle(r) /\ Set(r, next)
    BY <1>10 DEF Leave, Idle
  <2>2. Sound(next) /\ next.phase # "free" /\ next.user = t.user
    BY <1>0, <1>10 DEF Leave, Sound, Turn, Phases, Stops, Fail
  <2> QED
    BY <2>1, <2>2, SetGoesOn
<1>11. CASE CallModel(r)
  <2> DEFINE next == [t EXCEPT !.phase = "model"]
  <2>1. ~Idle(r) /\ Set(r, next)
    BY <1>11 DEF CallModel, Idle
  <2>2. Sound(next) /\ next.phase # "free" /\ next.user = t.user
    BY <1>0 DEF Sound, Turn, Phases, Stops
  <2> QED
    BY <2>1, <2>2, SetGoesOn
<1> QED
  BY <1>1, <1>2, <1>3, <1>4, <1>5, <1>6, <1>7, <1>8, <1>9, <1>10, <1>11 DEF Continues

\* Every step is quiet, admits, drops, goes on or releases.
LEMMA StepKinds ==
  ASSUME TurnsOK, [Next]_vars
  PROVE  \/ Quiet
         \/ \E r \in Requests : Admit(r) \/ LeaveEarly(r) \/ GoesOn(r) \/ Release(r)
<1>1. CASE Tick \/ Refuse \/ UNCHANGED vars
  BY <1>1 DEF TurnsOK, Tick, Refuse, Quiet, vars
<1>2. ASSUME NEW r \in Requests, Admit(r) \/ LeaveEarly(r) \/ Leave(r) \/ Serve(r) \/ Reply(r)
      PROVE  Admit(r) \/ LeaveEarly(r) \/ GoesOn(r) \/ Release(r)
  BY <1>2, ContinuesIsGoesOn DEF Serve, Reply, Continues
<1> QED
  BY <1>1, <1>2 DEF Next

LEMMA TurnsInit == Init => TurnsOK
  BY FreeType DEF Init, TurnsOK, Sound, Free

LEMMA TurnsStep == TurnsOK /\ [Next]_vars => TurnsOK'
<1> SUFFICES ASSUME TurnsOK, [Next]_vars PROVE TurnsOK'
  OBVIOUS
<1>0. Sound(Free)
  BY FreeType DEF Sound, Free
<1>1. CASE Quiet
  BY <1>1 DEF TurnsOK, Quiet
<1>2. ASSUME NEW r \in Requests, Admit(r) PROVE TurnsOK'
  <2> DEFINE asking(u) == [Free EXCEPT !.phase = "admitted", !.user = u]
  <2>1. PICK u \in Users : busy' = busy \cup {u} /\ turn' = [turn EXCEPT ![r] = asking(u)] /\ now' = now
    BY <1>2 DEF Admit
  <2>2. Sound(asking(u))
    BY DEF Sound, Free, Turn, Phases, Stops
  <2> HIDE DEF asking
  <2> QED
    BY <2>1, <2>2 DEF TurnsOK, Sound
<1>3. ASSUME NEW r \in Requests, LeaveEarly(r) \/ Release(r) PROVE TurnsOK'
  BY <1>0, <1>3 DEF TurnsOK, Sound, LeaveEarly, Release
<1>4. ASSUME NEW r \in Requests, GoesOn(r) PROVE TurnsOK'
  BY <1>4 DEF TurnsOK, Sound, GoesOn
<1> QED
  BY <1>1, <1>2, <1>3, <1>4, StepKinds

----------------------------------------------------------------------------
(* One question at a time, and nobody left busy. *)

\* A question's user is busy, with that question only.
Alone ==
  /\ \A r \in Requests : ~Idle(r) => turn[r].user \in busy
  /\ \A r, s \in Requests : ~Idle(r) /\ ~Idle(s) /\ turn[r].user = turn[s].user => r = s

Served == \A u \in busy \ lost : \E r \in Requests : ~Idle(r) /\ turn[r].user = u

UsersOK == TurnsOK /\ Alone /\ Served

LEMMA UsersInit == Init => UsersOK
  BY TurnsInit DEF Init, UsersOK, Alone, Served, Idle, Free

LEMMA UsersStep == UsersOK /\ [Next]_vars => UsersOK'
<1> SUFFICES ASSUME UsersOK, [Next]_vars PROVE Alone' /\ Served'
  BY TurnsStep DEF UsersOK
<1>0. TurnsOK /\ Alone /\ Served /\ turn \in [Requests -> Turn]
  BY DEF UsersOK, TurnsOK
<1>1. CASE Quiet
  BY <1>0, <1>1 DEF Quiet, Alone, Served, Idle
\* Its user was not busy, so had no question.
<1>2. ASSUME NEW r \in Requests, Admit(r) PROVE Alone' /\ Served'
  <2>0. Idle(r)
    BY <1>2 DEF Admit, Idle, Free
  <2>1. PICK u \in Users : /\ u \notin busy /\ busy' = busy \cup {u} /\ lost' = lost
                          /\ turn' = [turn EXCEPT ![r] = [Free EXCEPT !.phase = "admitted", !.user = u]]
    BY <1>2 DEF Admit
  <2>2. /\ turn'[r].phase = "admitted" /\ turn'[r].user = u
        /\ \A s \in Requests \ {r} : turn'[s] = turn[s]
    BY <1>0, <2>1 DEF Free
  <2>3. Alone'
    BY <1>0, <2>0, <2>1, <2>2 DEF Alone, Idle
  <2>4. Served'
    BY <1>0, <2>0, <2>1, <2>2 DEF Served, Idle
  <2> QED
    BY <2>3, <2>4
\* Its user stays busy, and is lost.
<1>3. ASSUME NEW r \in Requests, LeaveEarly(r) PROVE Alone' /\ Served'
  <2>1. /\ turn'[r].phase = "free" /\ \A s \in Requests \ {r} : turn'[s] = turn[s]
        /\ busy' = busy /\ lost' = lost \cup {turn[r].user}
    BY <1>0, <1>3 DEF LeaveEarly, Free
  <2>2. Alone'
    BY <1>0, <2>1 DEF Alone, Idle
  <2>3. Served'
    BY <1>0, <2>1 DEF Served, Idle
  <2> QED
    BY <2>2, <2>3
<1>4. ASSUME NEW r \in Requests, GoesOn(r) PROVE Alone' /\ Served'
  <2>1. /\ ~Idle(r) /\ turn'[r].phase # "free" /\ turn'[r].user = turn[r].user
        /\ \A s \in Requests \ {r} : turn'[s] = turn[s]
        /\ busy' = busy /\ lost' = lost
    BY <1>0, <1>4 DEF GoesOn
  <2>2. Alone'
    BY <1>0, <2>1 DEF Alone, Idle
  <2>3. Served'
    BY <1>0, <2>1 DEF Served, Idle
  <2> QED
    BY <2>2, <2>3
\* Its user is no longer busy, and had no other question.
<1>5. ASSUME NEW r \in Requests, Release(r) PROVE Alone' /\ Served'
  <2>1. /\ ~Idle(r) /\ turn'[r].phase = "free" /\ \A s \in Requests \ {r} : turn'[s] = turn[s]
        /\ busy' = busy \ {turn[r].user} /\ lost' = lost
    BY <1>0, <1>5 DEF Release, Free, Idle
  <2>2. Alone'
    BY <1>0, <2>1 DEF Alone, Idle
  <2>3. Served'
    BY <1>0, <2>1 DEF Served, Idle
  <2> QED
    BY <2>2, <2>3
<1> QED
  BY <1>0, <1>1, <1>2, <1>3, <1>4, <1>5, StepKinds

\* A user never has two questions between their admission and their release, and is busy
\* while one is there: limits.py promises "one question at a time" of each user.
THEOREM OneQuestion == Spec => []OneQuestionAtATime
<1>1. UsersOK => OneQuestionAtATime
  <2> SUFFICES ASSUME UsersOK, NEW u \in Users
               PROVE  Cardinality(Serving(u)) =< 1 /\ (Serving(u) # {} => u \in busy)
    BY DEF OneQuestionAtATime
  <2>1. CASE Serving(u) = {}
    BY <2>1, FS_EmptySet
  <2>2. ASSUME NEW r \in Serving(u) PROVE Cardinality(Serving(u)) = 1 /\ u \in busy
    <3>1. Serving(u) = {r} /\ u \in busy
      BY <2>2 DEF UsersOK, Alone, Serving, Idle
    <3> QED
      BY <3>1, FS_Singleton
  <2> QED
    BY <2>1, <2>2
<1> QED
  BY <1>1, UsersInit, UsersStep, PTL DEF Spec

\* A broken tool, an error or a client that leaves in mid-answer leaves no user busy with
\* no question; only a response dropped before its body began does.
THEOREM NobodyIsStuck == Spec => []BusyIsServed
<1>1. UsersOK => BusyIsServed
  BY DEF UsersOK, Served, BusyIsServed, Serving, Idle
<1> QED
  BY <1>1, UsersInit, UsersStep, PTL DEF Spec

----------------------------------------------------------------------------
(* The budget of one question. *)

\* What one question has cost, and how it may have ended; the model is called with a round
\* to spare.
Within(t) ==
  /\ t.phase = "model" => t.rounds =< MaxToolTurns
  /\ t.calls =< MaxToolCalls /\ t.rounds =< MaxToolTurns + 1
  /\ t.stop = "answered" => t.rounds =< MaxToolTurns /\ t.calls < MaxToolCalls

\* A question that goes on has not ended any way.
BudgetOK ==
  /\ TurnsOK
  /\ \A r \in Requests : Within(turn[r]) /\ (turn[r].phase # "closing" => turn[r].stop = "none")

\* A step that leaves r with such a turn, and the others as they are.
LEMMA BudgetSet ==
  ASSUME BudgetOK, TurnsOK', NEW r \in Requests, NEW t, turn' = [turn EXCEPT ![r] = t],
         Within(t), t.phase # "closing" => t.stop = "none"
  PROVE  BudgetOK'
  BY DEF BudgetOK, TurnsOK, Within

LEMMA BudgetInit == Init => BudgetOK
  BY TurnsInit, LimitsAssumption DEF Init, BudgetOK, Within, Free

\* A step of the handler costs at most what is left.
LEMMA ContinuesWithin ==
  ASSUME BudgetOK, TurnsOK', NEW r \in Requests, Continues(r)
  PROVE  BudgetOK'
<1> DEFINE t == turn[r]
<1>0. /\ t \in Turn /\ Within(t) /\ (t.phase # "closing" => t.stop = "none")
      /\ t.calls \in Nat /\ t.rounds \in Nat /\ MaxToolTurns \in Nat /\ MaxToolCalls \in Nat
  BY LimitsAssumption DEF BudgetOK, TurnsOK, Sound, Turn
<1>1. CASE Begin(r)
  <2> DEFINE deadline == now + Timeout
             next == [t EXCEPT !.phase = "round", !.deadline = deadline, !.last = "start"]
  <2>1. Within(next) /\ next.stop = "none"
    BY <1>0, <1>1 DEF Begin, Within, Turn
  <2>2. Within(Fail(t)) /\ Fail(t).phase = "closing"
    BY <1>0 DEF Fail, Within, Turn
  <2>3. turn' = [turn EXCEPT ![r] = next] \/ turn' = [turn EXCEPT ![r] = Fail(t)]
    BY <1>1 DEF Begin, Set
  <2> QED
    BY <2>1, <2>2, <2>3, BudgetSet
<1>2. CASE TurnLimit(r) \/ TimeLimit(r)
  <2>1. PICK stop \in {"turn_limit", "time_limit"} : turn' = [turn EXCEPT ![r] = Done(t, stop)]
    BY <1>2 DEF TurnLimit, TimeLimit, Set
  <2>2. Within(Done(t, stop)) /\ Done(t, stop).phase = "closing"
    BY <1>0 DEF Done, Within, Turn
  <2> QED
    BY <2>1, <2>2, BudgetSet
\* A question answered with budget left has a round to spare.
<1>3. CASE ModelAnswers(r)
  <2> DEFINE rounds == t.rounds + 1
             stop == IF BudgetSpent(t) THEN "answered_at_limit" ELSE "answered"
             next == Done([t EXCEPT !.rounds = rounds], stop)
  <2>1. turn' = [turn EXCEPT ![r] = next] /\ t.rounds =< MaxToolTurns
    BY <1>0, <1>3 DEF ModelAnswers, Set, Within
  <2>2. rounds =< MaxToolTurns + 1
    BY <1>0, <2>1
  <2>3. stop = "answered" => rounds =< MaxToolTurns /\ t.calls < MaxToolCalls
    BY <1>0, <2>1 DEF BudgetSpent
  <2> HIDE DEF rounds, stop
  <2>4. next.calls = t.calls /\ next.rounds = rounds /\ next.stop = stop /\ next.phase = "closing"
    BY <1>0 DEF Done, Turn
  <2> QED
    BY <1>0, <2>1, <2>2, <2>3, <2>4, BudgetSet DEF Within
<1>4. CASE ModelCallsTools(r)
  <2> DEFINE rounds == t.rounds + 1
             next(n) == [t EXCEPT !.phase = "tools", !.rounds = rounds, !.blocks = n, !.last = "text"]
  <2>1. PICK n \in 1..Blocks : turn' = [turn EXCEPT ![r] = next(n)]
    BY <1>4 DEF ModelCallsTools, Set
  <2>2. rounds =< MaxToolTurns + 1 /\ t.stop = "none"
    BY <1>0, <1>4 DEF ModelCallsTools, Within
  <2> HIDE DEF rounds
  <2>3. next(n).calls = t.calls /\ next(n).rounds = rounds /\ next(n).stop = t.stop
        /\ next(n).phase = "tools"
    BY <1>0 DEF Turn
  <2> QED
    BY <1>0, <2>1, <2>2, <2>3, BudgetSet DEF Within
<1>5. CASE ModelFails(r) \/ Leave(r)
  <2>1. PICK next \in {[t EXCEPT !.phase = "closing", !.last = "error"], Fail([t EXCEPT !.gone = TRUE])} :
          turn' = [turn EXCEPT ![r] = next]
    BY <1>5 DEF ModelFails, Leave, Set
  <2>2. Within(next) /\ next.phase = "closing"
    BY <1>0 DEF Fail, Within, Turn
  <2> QED
    BY <2>1, <2>2, BudgetSet
<1>6. CASE ToolRefused(r)
  <2>1. Within(ToolEnd(t)) /\ ToolEnd(t).stop = "none"
    BY <1>0, <1>6 DEF ToolRefused, ToolEnd, Within, Turn
  <2> QED
    BY <1>6, <2>1, BudgetSet DEF ToolRefused, Set
\* A tool is called only with a call left.
<1>7. CASE ToolRuns(r) \/ ToolBreaks(r)
  <2> DEFINE calls == t.calls + 1
             used == [t EXCEPT !.calls = calls]
  <2>1. calls =< MaxToolCalls /\ t.stop = "none"
    BY <1>0, <1>7 DEF ToolRuns, ToolBreaks
  <2>2. PICK next \in {ToolEnd(used), Fail(used)} : turn' = [turn EXCEPT ![r] = next]
    BY <1>7 DEF ToolRuns, ToolBreaks, Set
  <2> HIDE DEF calls
  <2>3. next.calls = calls /\ next.rounds = t.rounds /\ next.stop = t.stop /\ next.phase # "model"
    BY <1>0, <2>2 DEF ToolEnd, Fail, Turn
  <2> QED
    BY <1>0, <2>1, <2>2, <2>3, BudgetSet DEF Within
<1>8. CASE CallModel(r)
  <2> DEFINE next == [t EXCEPT !.phase = "model"]
  <2>1. turn' = [turn EXCEPT ![r] = next] /\ t.rounds =< MaxToolTurns /\ t.stop = "none"
    BY <1>0, <1>8 DEF CallModel, Set
  <2>2. Within(next) /\ next.stop = "none"
    BY <1>0, <2>1 DEF Within, Turn
  <2> QED
    BY <2>1, <2>2, BudgetSet
<1> QED
  BY <1>1, <1>2, <1>3, <1>4, <1>5, <1>6, <1>7, <1>8 DEF Continues

LEMMA BudgetStep == BudgetOK /\ [Next]_vars => BudgetOK'
<1> SUFFICES ASSUME BudgetOK, [Next]_vars PROVE BudgetOK'
  OBVIOUS
<1>0. TurnsOK /\ TurnsOK'
  BY TurnsStep DEF BudgetOK
<1>1. CASE Tick \/ Refuse \/ UNCHANGED vars
  BY <1>0, <1>1 DEF BudgetOK, Within, Tick, Refuse, vars
<1>2. ASSUME NEW r \in Requests, Admit(r) PROVE BudgetOK'
  <2> DEFINE asking(u) == [Free EXCEPT !.phase = "admitted", !.user = u]
  <2>1. PICK u \in Users : turn' = [turn EXCEPT ![r] = asking(u)]
    BY <1>2 DEF Admit
  <2>2. Within(asking(u)) /\ asking(u).stop = "none"
    BY LimitsAssumption DEF Within, Free
  <2> QED
    BY <1>0, <2>1, <2>2, BudgetSet
<1>3. ASSUME NEW r \in Requests, LeaveEarly(r) \/ Release(r) PROVE BudgetOK'
  <2>1. Within(Free) /\ Free.stop = "none"
    BY LimitsAssumption DEF Within, Free
  <2> QED
    BY <1>0, <1>3, <2>1, BudgetSet DEF LeaveEarly, Release
<1>4. ASSUME NEW r \in Requests, Leave(r) \/ (Serve(r) /\ ~Release(r)) \/ Reply(r) PROVE BudgetOK'
  BY <1>0, <1>4, ContinuesWithin DEF Serve, Reply, Continues
<1> QED
  BY <1>1, <1>2, <1>3, <1>4 DEF Next

\* However many tools the replies ask for, a question runs no more tools and no more model
\* calls than its budget, and one it says was answered had some of it left.
THEOREM BudgetIsKept == Spec => []BudgetHolds
<1>1. BudgetOK => BudgetHolds
  BY DEF BudgetOK, Within, BudgetHolds
<1> QED
  BY <1>1, BudgetInit, BudgetStep, PTL DEF Spec

----------------------------------------------------------------------------
(* The rate of a user's questions. *)

\* Some numbers have a smallest one: Nat is well founded.
LEMMA Smallest ==
  ASSUME NEW S \in SUBSET Nat, S # {}
  PROVE  \E m \in S : \A k \in S : m =< k
<1> DEFINE Less == {p \in Nat \X Nat : p[1] < p[2]}
<1>1. IsWellFoundedOn(Less, Nat)
  BY NatLessThanWellFounded DEF OpToRel
<1> HIDE DEF Less
<1>2. PICK m \in S : \A k \in S : <<k, m>> \notin Less
  BY <1>1, WFMin
<1>3. \A k \in S : <<k, m>> \in Less \/ m =< k
  BY DEF Less
<1> QED
  BY <1>2, <1>3

\* n stamps are dropped: they are older than a day, and the next is not.
Drops(times, n) ==
  /\ \A i \in 1..n : now - times[i] > Day
  /\ n < Len(times) => now - times[n + 1] =< Day

\* The loop over the deque ends, at the first stamp that is recent.
LEMMA SomeAreDropped ==
  ASSUME NEW times \in Seq(Nat), now \in Nat
  PROVE  \E n \in 0..Len(times) : Drops(times, n)
<1> DEFINE L == Len(times)
           S == {n \in 0..L : n < L => now - times[n + 1] =< Day}
<1>1. L \in Nat /\ Day \in Nat /\ \A i \in 1..L : times[i] \in Nat
  BY LimitsAssumption
<1> HIDE DEF L
<1>2. S \in SUBSET Nat /\ L \in S
  BY <1>1
<1>3. PICK m \in S : \A k \in S : m =< k
  BY <1>2, Smallest
<1>4. ASSUME NEW i \in 1..m PROVE now - times[i] > Day
  <2>1. m \in 0..L
    OBVIOUS
  <2>2. i - 1 \in 0..L /\ i - 1 < m /\ i - 1 < L /\ i - 1 + 1 = i /\ i \in 1..L
    BY <1>1, <2>1
  <2>3. i - 1 \notin S
    BY <1>3, <2>2
  <2>4. ~(now - times[i] =< Day)
    BY <2>2, <2>3
  <2> QED
    BY <1>1, <2>2, <2>4
<1> QED
  BY <1>4 DEF Drops, L

LEMMA KeptIsTheRest ==
  ASSUME NEW times \in Seq(Nat), now \in Nat
  PROVE  /\ Kept(times) \in Seq(Nat)
         /\ \E n \in 0..Len(times) :
              /\ Drops(times, n) /\ Len(Kept(times)) = Len(times) - n
              /\ \A i \in 1..Len(Kept(times)) : Kept(times)[i] = times[n + i]
<1> DEFINE n == CHOOSE m \in 0..Len(times) : Drops(times, m)
<1>1. n \in 0..Len(times) /\ Drops(times, n)
  BY SomeAreDropped
<1>2. Kept(times) = SubSeq(times, n + 1, Len(times))
  BY DEF Kept, From, Drops
<1> HIDE DEF n
<1>3. n \in Nat /\ Len(times) \in Nat /\ n =< Len(times)
  BY <1>1
<1>4. SubSeq(times, n + 1, Len(times)) \in Seq(Nat)
  BY <1>3
<1>5. Len(SubSeq(times, n + 1, Len(times))) = Len(times) - n
  BY <1>3
<1>6. \A i \in 1..(Len(times) - n) : SubSeq(times, n + 1, Len(times))[i] = times[n + i]
  BY <1>3
<1> QED
  BY <1>1, <1>2, <1>4, <1>5, <1>6

\* The stamps are of all admissions but the first d, which are older than a day.
Forgets(times, a, d) ==
  /\ d \in 0..Len(a) /\ Len(times) = Len(a) - d
  /\ \A i \in 1..Len(times) : times[i] = a[d + i]
  /\ \A i \in 1..d : now - a[i] > Day

\* In the order of time, and none to come.
InTime(a) ==
  /\ \A i \in 1..Len(a) : a[i] =< now
  /\ \A i, j \in 1..Len(a) : i =< j => a[i] =< a[j]

\* RateHolds, for one user.
Spaced(a) ==
  /\ \A i \in DOMAIN a : i + PerMinute \in DOMAIN a => a[i + PerMinute] - a[i] >= Minute
  /\ \A i \in DOMAIN a : i + PerDay \in DOMAIN a => a[i + PerDay] - a[i] > Day

Stamped(times, a) ==
  /\ times \in Seq(Nat) /\ a \in Seq(Nat)
  /\ InTime(a) /\ Spaced(a) /\ \E d \in 0..Len(a) : Forgets(times, a, d)

StampsOK ==
  /\ now \in Nat /\ recent = [u \in Users |-> recent[u]] /\ asked = [u \in Users |-> asked[u]]
  /\ \A u \in Users : Stamped(recent[u], asked[u])

\* What is dropped for the daily limit is older than a day, so the rest goes on to be all
\* that the limits look at.
LEMMA KeptIsStamped ==
  ASSUME now \in Nat, NEW times, NEW a, Stamped(times, a)
  PROVE  Stamped(Kept(times), a)
<1> USE DEF Stamped
<1>1. PICK d \in 0..Len(a) : Forgets(times, a, d)
  OBVIOUS
<1>2. PICK n \in 0..Len(times) :
        /\ Drops(times, n) /\ Len(Kept(times)) = Len(times) - n
        /\ \A i \in 1..Len(Kept(times)) : Kept(times)[i] = times[n + i]
  BY KeptIsTheRest
<1>3. Kept(times) \in Seq(Nat)
  BY KeptIsTheRest
<1>4. Len(a) \in Nat /\ Len(times) = Len(a) - d /\ d + n \in 0..Len(a) /\ d \in Nat /\ n \in Nat
  <2>1. Len(a) \in Nat /\ Len(times) \in Nat
    OBVIOUS
  <2>2. Len(times) = Len(a) - d
    BY <1>1 DEF Forgets
  <2>3. d \in Nat /\ n \in Nat /\ n =< Len(times)
    BY <2>1
  <2> QED
    BY <2>1, <2>2, <2>3
<1>5. \A i \in 1..Len(Kept(times)) : Kept(times)[i] = a[d + n + i]
  <2> SUFFICES ASSUME NEW i \in 1..Len(Kept(times)) PROVE Kept(times)[i] = a[d + n + i]
    OBVIOUS
  <2>1. n + i \in 1..Len(times) /\ d + (n + i) = d + n + i
    BY <1>2, <1>4
  <2> QED
    BY <1>1, <1>2, <2>1 DEF Forgets
<1>6. \A i \in 1..(d + n) : now - a[i] > Day
  <2> SUFFICES ASSUME NEW i \in 1..(d + n) PROVE now - a[i] > Day
    OBVIOUS
  <2>1. CASE i =< d
    BY <1>1, <1>4, <2>1 DEF Forgets
  <2>2. CASE i > d
    <3>1. i - d \in 1..n /\ i - d \in 1..Len(times) /\ d + (i - d) = i
      BY <1>4, <2>2
    <3> QED
      BY <1>1, <1>2, <3>1 DEF Forgets, Drops
  <2> QED
    BY <1>4, <2>1, <2>2
<1>7. Forgets(Kept(times), a, d + n)
  <2>1. Len(Kept(times)) = Len(a) - (d + n)
    BY <1>2, <1>4
  <2> QED
    BY <1>4, <1>5, <1>6, <2>1 DEF Forgets
<1> QED
  BY <1>3, <1>4, <1>7

\* So many stamps of the last minute are counted.
LEMMA LastMinuteCounts ==
  ASSUME NEW times \in Seq(Nat), NEW k \in 1..Len(times),
         \A i \in k..Len(times) : now - times[i] < Minute
  PROVE  LastMinute(times) >= Len(times) - k + 1
<1> DEFINE L == Len(times)
           S == {i \in DOMAIN times : now - times[i] < Minute}
<1>1. k \in Nat /\ L \in Nat /\ 1 \in Int /\ k \in Int /\ L \in Int /\ k =< L
  OBVIOUS
<1>2. DOMAIN times = 1..L /\ k..L \subseteq S
  BY <1>1
<1> HIDE DEF L, S
<1>3. IsFiniteSet(1..L)
  BY <1>1, FS_Interval
<1>4. IsFiniteSet(k..L) /\ Cardinality(k..L) = IF k > L THEN 0 ELSE L - k + 1
  BY <1>1, FS_Interval
<1>5. S \subseteq 1..L
  BY <1>2 DEF S
<1>6. IsFiniteSet(S)
  BY <1>3, <1>5, FS_Subset
<1>7. Cardinality(k..L) =< Cardinality(S)
  BY <1>2, <1>6, FS_Subset
<1>8. Cardinality(S) >= L - k + 1
  <2>1. Cardinality(S) \in Nat /\ Cardinality(k..L) \in Nat
    BY <1>4, <1>6, FS_CardinalityType
  <2> QED
    BY <1>1, <1>4, <1>7, <2>1
<1> QED
  BY <1>8 DEF L, S, LastMinute

\* An admission that both limits allow keeps the rate: what is no longer in the deque is
\* older than a day, and than a minute.
LEMMA AdmittedIsStamped ==
  ASSUME now \in Nat, NEW times, NEW a, Stamped(times, a), Len(times) < PerDay,
         LastMinute(times) < PerMinute
  PROVE  Stamped(Append(times, now), Append(a, now))
<1> DEFINE L == Len(a)
           b == Append(a, now)
<1>0. /\ times \in Seq(Nat) /\ a \in Seq(Nat) /\ InTime(a) /\ Spaced(a)
      /\ PerMinute \in Nat \ {0} /\ PerDay \in Nat \ {0} /\ Minute \in Nat /\ Day \in Nat /\ Minute =< Day
  BY LimitsAssumption DEF Stamped
<1>1. PICK d \in 0..L : Forgets(times, a, d)
  BY DEF Stamped
<1>2. /\ L \in Nat /\ d \in Nat /\ d =< L /\ Len(times) = L - d
      /\ b \in Seq(Nat) /\ Len(b) = L + 1 /\ DOMAIN b = 1..(L + 1) /\ DOMAIN a = 1..L
      /\ b[L + 1] = now /\ \A i \in 1..L : b[i] = a[i] /\ a[i] \in Nat
  BY <1>0, <1>1 DEF Forgets
<1> HIDE DEF L, b
<1>3. InTime(b)
  <2>1. \A i \in 1..L : a[i] =< now /\ \A j \in 1..L : i =< j => a[i] =< a[j]
    BY <1>0 DEF InTime, L
  <2>2. \A i \in 1..(L + 1) : i = L + 1 \/ i \in 1..L
    BY <1>2
  <2>3. \A i \in 1..(L + 1) : b[i] =< now
    BY <1>2, <2>1, <2>2
  <2>4. ASSUME NEW i \in 1..(L + 1), NEW j \in 1..(L + 1), i =< j PROVE b[i] =< b[j]
    <3>1. CASE j = L + 1
      BY <1>2, <2>3, <3>1
    <3>2. CASE j # L + 1
      <4>1. i \in 1..L /\ j \in 1..L
        BY <1>2, <2>4, <3>2
      <4> QED
        BY <1>2, <2>1, <2>4, <4>1
    <3> QED
      BY <3>1, <3>2
  <2> QED
    BY <1>2, <2>3, <2>4 DEF InTime
<1>4. ASSUME NEW i \in 1..L, i + PerDay = L + 1 PROVE now - b[i] > Day
  <2>1. i \in 1..d
    BY <1>0, <1>2, <1>4
  <2> QED
    BY <1>1, <1>2, <2>1 DEF Forgets
<1>5. ASSUME NEW i \in 1..L, i + PerMinute = L + 1 PROVE now - b[i] >= Minute
  <2>1. CASE i =< d
    <3>1. now - a[i] > Day
      BY <1>1, <1>2, <2>1 DEF Forgets
    <3> QED
      BY <1>0, <1>2, <3>1
  <2>2. CASE i > d
    <3> SUFFICES ASSUME ~(now - b[i] >= Minute) PROVE FALSE
      OBVIOUS
    <3>1. now - a[i] < Minute
      BY <1>0, <1>2
    <3>2. i - d \in 1..Len(times)
      BY <1>2, <2>2
    <3>3. ASSUME NEW j \in (i - d)..Len(times) PROVE now - times[j] < Minute
      <4>1. j \in 1..Len(times) /\ d + j \in 1..L /\ i =< d + j
        BY <1>2, <2>2, <3>2
      <4>2. times[j] = a[d + j]
        BY <1>1, <4>1 DEF Forgets
      <4>3. a[i] =< a[d + j]
        BY <1>0, <4>1 DEF InTime, L
      <4> QED
        BY <1>0, <1>2, <3>1, <4>1, <4>2, <4>3
    <3>4. LastMinute(times) >= Len(times) - (i - d) + 1
      BY <1>0, <3>2, <3>3, LastMinuteCounts
    <3>5. Len(times) - (i - d) + 1 = PerMinute
      BY <1>0, <1>2, <1>5
    <3>6. LastMinute(times) \in Nat
      <4> DEFINE S == {k \in DOMAIN times : now - times[k] < Minute}
      <4>1. DOMAIN times = 1..Len(times) /\ 1 \in Int /\ Len(times) \in Int
        BY <1>0
      <4>2. IsFiniteSet(1..Len(times))
        BY <4>1, FS_Interval
      <4>3. S \subseteq 1..Len(times)
        BY <4>1
      <4> HIDE DEF S
      <4>4. Cardinality(S) \in Nat
        BY <4>2, <4>3, FS_Subset, FS_CardinalityType
      <4> QED
        BY <4>4 DEF S, LastMinute
    <3> QED
      BY <1>0, <3>4, <3>5, <3>6
  <2> QED
    BY <1>2, <2>1, <2>2
<1>6. Spaced(b)
  <2>1. ASSUME NEW i \in DOMAIN b, i + PerMinute \in DOMAIN b PROVE b[i + PerMinute] - b[i] >= Minute
    <3>1. i \in 1..L /\ i + PerMinute \in 1..(L + 1)
      BY <1>0, <1>2, <2>1
    <3>2. CASE i + PerMinute = L + 1
      BY <1>2, <1>5, <3>1, <3>2
    <3>3. CASE i + PerMinute # L + 1
      <4>1. i + PerMinute \in 1..L
        BY <1>2, <3>1, <3>3
      <4> QED
        BY <1>0, <1>2, <3>1, <4>1 DEF Spaced
    <3> QED
      BY <3>2, <3>3
  <2>2. ASSUME NEW i \in DOMAIN b, i + PerDay \in DOMAIN b PROVE b[i + PerDay] - b[i] > Day
    <3>1. i \in 1..L /\ i + PerDay \in 1..(L + 1)
      BY <1>0, <1>2, <2>2
    <3>2. CASE i + PerDay = L + 1
      BY <1>2, <1>4, <3>1, <3>2
    <3>3. CASE i + PerDay # L + 1
      <4>1. i + PerDay \in 1..L
        BY <1>2, <3>1, <3>3
      <4> QED
        BY <1>0, <1>2, <3>1, <4>1 DEF Spaced
    <3> QED
      BY <3>2, <3>3
  <2> QED
    BY <2>1, <2>2 DEF Spaced
<1>7. Forgets(Append(times, now), b, d)
  <2> DEFINE more == Append(times, now)
  <2>1. /\ Len(more) = Len(times) + 1 /\ more[Len(times) + 1] = now
        /\ \A i \in 1..Len(times) : more[i] = times[i]
    BY <1>0
  <2> HIDE DEF more
  <2>2. ASSUME NEW i \in 1..Len(more) PROVE more[i] = b[d + i]
    <3>1. CASE i = Len(times) + 1
      BY <1>2, <2>1, <3>1
    <3>2. CASE i # Len(times) + 1
      <4>1. i \in 1..Len(times) /\ d + i \in 1..L
        BY <1>2, <2>1, <3>2
      <4> QED
        BY <1>1, <1>2, <2>1, <4>1 DEF Forgets
    <3> QED
      BY <3>1, <3>2
  <2>3. \A i \in 1..d : now - b[i] > Day
    BY <1>1, <1>2 DEF Forgets
  <2>4. d \in 0..Len(b) /\ Len(more) = Len(b) - d
    BY <1>2, <2>1
  <2>5. Forgets(more, b, d)
    BY <2>2, <2>3, <2>4 DEF Forgets
  <2> QED
    BY <2>5 DEF more
<1>8. Append(times, now) \in Seq(Nat) /\ d \in 0..Len(b)
  BY <1>0, <1>2
<1> QED
  BY <1>2, <1>3, <1>6, <1>7, <1>8 DEF Stamped, b

LEMMA StampsInit == Init => StampsOK
<1> SUFFICES ASSUME Init PROVE StampsOK
  OBVIOUS
<1>1. <<>> \in Seq(Nat) /\ Len(<<>>) = 0 /\ 1..0 = {} /\ DOMAIN <<>> = {}
  OBVIOUS
<1>2. Forgets(<<>>, <<>>, 0)
  BY <1>1 DEF Forgets
<1>3. Stamped(<<>>, <<>>)
  BY <1>1, <1>2 DEF Stamped, InTime, Spaced
<1> QED
  BY <1>3 DEF Init, StampsOK

\* The clock only makes what is forgotten older.
LEMMA TickIsStamped ==
  ASSUME now \in Nat, now' = now + 1, NEW times, NEW a, Stamped(times, a)
  PROVE  Stamped(times, a)'
<1>1. PICK d \in 0..Len(a) : Forgets(times, a, d)
  BY DEF Stamped
<1>2. times \in Seq(Nat) /\ a \in Seq(Nat) /\ InTime(a) /\ Spaced(a) /\ Day \in Nat
  BY LimitsAssumption DEF Stamped
<1>3. Forgets(times, a, d)'
  BY <1>1, <1>2 DEF Forgets
<1>4. InTime(a)'
  BY <1>2 DEF InTime
<1> QED
  BY <1>2, <1>3, <1>4 DEF Stamped, Spaced

LEMMA StampsStep == StampsOK /\ [Next]_vars => StampsOK'
<1> SUFFICES ASSUME StampsOK, [Next]_vars PROVE StampsOK'
  OBVIOUS
<1>0. now \in Nat /\ \A u \in Users : Stamped(recent[u], asked[u])
  BY DEF StampsOK
<1>1. CASE Tick
  <2>1. now' = now + 1 /\ recent' = recent /\ asked' = asked
    BY <1>1 DEF Tick
  <2>2. ASSUME NEW u \in Users PROVE Stamped(recent[u], asked[u])'
    <3> PICK times : times = recent[u]
      OBVIOUS
    <3> PICK a : a = asked[u]
      OBVIOUS
    <3>1. Stamped(times, a)'
      BY <1>0, <2>1, TickIsStamped
    <3> QED
      BY <2>1, <3>1
  <2> QED
    BY <1>0, <2>1, <2>2 DEF StampsOK
<1>2. CASE Refuse
  <2>1. PICK u \in Users : recent' = [recent EXCEPT ![u] = Kept(recent[u])] /\ UNCHANGED <<now, asked>>
    BY <1>2 DEF Refuse
  <2>2. Stamped(Kept(recent[u]), asked[u])
    BY <1>0, KeptIsStamped
  <2>3. \A v \in Users : recent'[v] = IF v = u THEN Kept(recent[u]) ELSE recent[v]
    BY <2>1 DEF StampsOK
  <2>4. \A v \in Users : Stamped(recent'[v], asked[v])
    BY <1>0, <2>2, <2>3
  <2>5. recent' = [v \in Users |-> recent'[v]] /\ asked' = asked /\ now' = now
    BY <2>1 DEF StampsOK
  <2>6. \A v \in Users : Stamped(recent[v], asked[v])'
    BY <2>4, <2>5 DEF Stamped, InTime, Spaced, Forgets
  <2> QED
    BY <1>0, <2>5, <2>6 DEF StampsOK
<1>3. ASSUME NEW r \in Requests, Admit(r) PROVE StampsOK'
  <2>1. PICK u \in Users :
          /\ Admissible(u) /\ now' = now
          /\ recent' = [recent EXCEPT ![u] = Append(Kept(recent[u]), now)]
          /\ asked' = [asked EXCEPT ![u] = Append(asked[u], now)]
    BY <1>3 DEF Admit
  <2>2. Stamped(Kept(recent[u]), asked[u])
    BY <1>0, KeptIsStamped
  <2>3. Len(Kept(recent[u])) < PerDay /\ LastMinute(Kept(recent[u])) < PerMinute
    BY <2>1 DEF Admissible
  <2>4. Stamped(Append(Kept(recent[u]), now), Append(asked[u], now))
    BY <1>0, <2>2, <2>3, AdmittedIsStamped
  <2>5. \A v \in Users : /\ recent'[v] = IF v = u THEN Append(Kept(recent[u]), now) ELSE recent[v]
                         /\ asked'[v] = IF v = u THEN Append(asked[u], now) ELSE asked[v]
    BY <2>1 DEF StampsOK
  <2>6. \A v \in Users : Stamped(recent'[v], asked'[v])
    BY <1>0, <2>4, <2>5
  <2>7. recent' = [v \in Users |-> recent'[v]] /\ asked' = [v \in Users |-> asked'[v]] /\ now' = now
    BY <2>1 DEF StampsOK
  <2>8. \A v \in Users : Stamped(recent[v], asked[v])'
    BY <2>6, <2>7 DEF Stamped, InTime, Spaced, Forgets
  <2> QED
    BY <1>0, <2>7, <2>8 DEF StampsOK
<1>4. CASE UNCHANGED <<now, recent, asked>>
  BY <1>4 DEF StampsOK, Stamped, InTime, Spaced, Forgets
<1>5. ASSUME NEW r \in Requests, LeaveEarly(r) \/ Leave(r) \/ Serve(r) \/ Reply(r)
      PROVE  UNCHANGED <<now, recent, asked>>
  BY <1>5 DEF LeaveEarly, Leave, Serve, Reply, Begin, TurnLimit, TimeLimit, CallModel, ModelAnswers, ModelCallsTools,
              ModelFails, ToolRefused, ToolRuns, ToolBreaks, Release, Set
<1> QED
  BY <1>1, <1>2, <1>3, <1>4, <1>5 DEF Next, vars

\* limits.py: no user asks more often than a minute and a day allow, wherever the minute or
\* the day begins, although the one deque serves both limits and is pruned for the longer.
THEOREM RateIsKept == Spec => []RateHolds
<1>1. StampsOK => RateHolds
  BY DEF StampsOK, Stamped, Spaced, RateHolds
<1> QED
  BY <1>1, StampsInit, StampsStep, PTL DEF Spec
=============================================================================
