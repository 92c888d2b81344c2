SPECIFICATION Safety
CONSTANTS
  Orgs = {A, B}
  Plans = {p1}
  Priced = {p1}
  Customers = {k1, k2}
  Subs = {s1, s2}
  Requests = {q1}
  Hooks = {h1, h2}
  MaxEvents = 2
  None = None
SYMMETRY Symmetry
INVARIANTS TypeOK BillingStaysInTenant RowFollowsEvents
CHECK_DEADLOCK FALSE
