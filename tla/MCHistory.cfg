SPECIFICATION Spec
CHECK_DEADLOCK FALSE
CONSTANTS
  a = a
  b = b
  All = All
  None = None
  Requests = {r1, r2}
  Chats = {c1, c2}
  Accesses <- Scopes3
  Cap = 1
  MaxSaves = 3
  MaxGrants = 2
SYMMETRY Symmetry
INVARIANTS   TurnsInOrder OrphansAreRaces CapHolds
