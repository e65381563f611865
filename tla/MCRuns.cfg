SPECIFICATION Spec
CHECK_DEADLOCK FALSE
CONSTANTS
  Requests = {q1, q2}
  Tenants = {"a", "007"}
  Labels = {"a", "007"}
  Unsafe = {}
  Asking <- AllOrOne
  Numeric = {"007"}
  Str <- AsNumber
  Texts <- Catalog
  CacheSeconds = 2
  Keep = 2
  Limit = 2
  MaxAsks = 3
  MaxEdits = 1
  None = none
SYMMETRY InterchangeableRequests
INVARIANTS RowsAreInReach RowsAreComplete
PROPERTY AnswersAreFresh
