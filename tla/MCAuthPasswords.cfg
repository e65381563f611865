SPECIFICATION Spec
CHECK_DEADLOCK FALSE
CONSTANTS
  None = None
  Admin = adm
  Analyst = ana
  Users = {adm, ana}
  Managers = {adm}
  Members = {ana}
  SignedIn = {adm}
  Sessions = {s1, s2, s3}
  Requests = {r1, r2}
  Passwords = {p1, p2}
  Secrets = {}
  Inputs <- PasswordInputs
  LockoutAttempts = 1
  LockoutTime = 1
  SessionTtl = 1
  IdleLimit = 1
  VerifyAttempts = 2
  OtpRequired = FALSE
  MaxTime = 0
SYMMETRY Symmetry
INVARIANTS StaleSessionsAreRaces DisabledSessionsAreRaces
