CONSTANTS
  r1 = r1
  r2 = r2
  o1 = o1
  o2 = o2
  g1 = g1
  Runs = {r1, r2}
  Orders = {o1, o2}
  Orgs = {g1}
  OrgOf <- MCOrgOf
  Total <- MCTotal
  RunCap <- MCRunCap
  DayCap = 4
  Amounts = {1, 2}
  LastDay = 1
  Nobody = Nobody
  NoOrder = NoOrder
SPECIFICATION Spec
INVARIANTS
  TypeOK
  DraftsAreCovered
  OrderNeverOverRefunded
  RunCapHolds
  DayCapHolds
CHECK_DEADLOCK FALSE
