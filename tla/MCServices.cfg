SPECIFICATION MCSpec
CHECK_DEADLOCK FALSE
CONSTANTS
  None = none
  Threads = {w1, w2}
  CacheSeconds = 2
  Names <- OneName
  SoarLimit = 2
  MaxSoarAsks = 3
  MaxTroubles = 1
  Attempts = {w1, w2}
  Addresses = {x, y}
  FailureLimit = 2
  Window = 3
  MaxKeys = 1
  ThrottleLimit = 6
  MaxSignIns = 6
  Requests = {w1, w2, w3}
  Kinds <- OneKind
  Tries = 2
  KeepDays = 1
  LastDay = 3
  MaxViews = 5
  Lists <- Months
  NoDate <- Dash
  CodeOf <- Codes
  RosterLimit = 4
  MaxRosterAsks = 3
  MaxRosterEdits = 1
  Questions = {q1}
  Callers <- Askers
  RoleTools <- Toolbox
  Tenants <- Letters
  Labels <- Letters
  Cases <- TwoCases
  Ids <- Writings
  Number <- Numbers
  Reads <- Readings
  MaxCalls = 2
  MaxToolEdits = 2
SYMMETRY InterchangeableThreads
INVARIANTS BrokenClientIsReplaced SignInsAreThrottled ViewsAreCounted OnShiftIsRecent ScopeIsExact
PROPERTY SoarAnswersAreFresh
