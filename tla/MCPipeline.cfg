SPECIFICATION Spec
CHECK_DEADLOCK FALSE
CONSTANTS
  Listing <- Some
  CustomersOf <- Configured
  Dirs <- Directories
  TenantOf <- Named
  TopLevel <- Top
  Tenants = {"umbrella_co", "hooli_media", "acme_corp"}
  Tactics = {"TA1", "TA2"}
  Filtered = TRUE
  Page = 1
  MaxRuns = 2
  MaxUpsets = 2
INVARIANTS LiveIsComplete ScopedFiguresAgree
