SPECIFICATION Spec
CHECK_DEADLOCK FALSE
CONSTANTS
  None = None
  Admin = ana2
  Analyst = ana
  Users = {ana}
  Managers = {}
  Members = {ana}
  SignedIn = {}
  Sessions = {s1}
  Requests = {r1, r2}
  Passwords = {p1}
  Secrets = {x1, x2}
  Inputs <- FactorInputs
  LockoutAttempts = 2
  LockoutTime = 1
  SessionTtl = 1
  IdleLimit = 1
  VerifyAttempts = 2
  OtpRequired = TRUE
  MaxTime = 1
SYMMETRY Symmetry
INVARIANTS FailedBelowLimit FactorConfirmed
PROPERTY FactorStaysInForce
