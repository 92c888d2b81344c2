SPECIFICATION Spec
CONSTANTS
  A = A
  B = B
  Orgs = {A, B}
  None = None
  Grants <- MCGrants
  MaxInputs = 3
INVARIANTS TypeOK ListsAreTheirOrgs OwnWritesShow SpinnersAreAwaited TimersMatchToasts
CHECK_DEADLOCK FALSE
