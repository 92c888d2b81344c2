SPECIFICATION Spec
CONSTANTS
  Orgs = {A}
  Plans = {p1}
  Priced = {p1}
  Customers = {k1}
  Subs = {s1, s2}
  Requests = {q1}
  Hooks = {h1}
  MaxEvents = 2
  None = None
PROPERTY SubscriptionRecorded
CHECK_DEADLOCK FALSE
