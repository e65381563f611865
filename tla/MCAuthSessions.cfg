SPECIFICATION Spec
CHECK_DEADLOCK FALSE
CONSTANTS
  None = None
  Admin = adm
  Analyst = ana
  Users = {adm, ana}
  Managers = {adm}
  Members = {}
  SignedIn = {adm}
  Sessions = {s1, s2}
  Requests = {r1, r2}
  Passwords = {p1}
  Secrets = {}
  Inputs <- SessionInputs
  LockoutAttempts = 1
  LockoutTime = 1
  SessionTtl = 2
  IdleLimit = 1
  VerifyAttempts = 2
  OtpRequired = FALSE
  MaxTime = 3
SYMMETRY Symmetry
PROPERTY SessionsEndForGood
