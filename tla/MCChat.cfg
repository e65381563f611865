SPECIFICATION Spec
CHECK_DEADLOCK FALSE
CONSTANTS
  Users = {ana}
  Requests = {r1, r2}
  PerMinute = 2
  PerDay = 3
  Minute = 2
  Day = 3
  MaxToolTurns = 2
  MaxToolCalls = 2
  Timeout = 2
  Blocks = 2
  MaxTime = 6
INVARIANTS OneQuestionAtATime BusyIsServed RateHolds BudgetHolds
PROPERTY QuestionsEnd
