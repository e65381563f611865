SPECIFICATION Spec
CHECK_DEADLOCK FALSE
CONSTANTS
  Accounts = {m1, m2}
  First = m1
  Roles = {"lead"}
  RoleCaps = {"run_adhoc_queries"}
  ManagerOnly = {"manage_users"}
  Grantable = {"publish_analyst_rota"}
  Default <- DefaultCaps
  Requests = {q1, q2}
  MaxRestarts = 2
SYMMETRY InterchangeableRequests
INVARIANTS MatrixIsCurrent ManagersRemain StartIsComplete
