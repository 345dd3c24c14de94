CONSTANTS
  q1 = q1
  q2 = q2
  q3 = q3
  w1 = w1
  w2 = w2
  t1 = t1
  t2 = t2
  acme = acme
  globex = globex
  Viewer = Viewer
  NoTicket = NoTicket
  Requests = {q1, q2, q3}
  Workers = {w1, w2}
  Tickets = {t1, t2}
  OrgOf <- MCOrgOf
  Scenarios <- MCScenarios
  Limit = 2
  Window = 2
  RunCap = 2
  OrgBudget = 2
  PlatformBudget = 3
  Costs = {1}
  MaxFetches = 3
  MaxWire = 1
SPECIFICATION FairSpec
INVARIANTS
  TypeOK
  WindowHolds
  OnlyRacesDoubleUp
  BudgetOvershoot
  HolesComeFromReloads
  DoneShowsEverything
PROPERTIES
  ViewCatchesUp
CHECK_DEADLOCK FALSE
