SPECIFICATION Spec
CONSTANTS
  Orgs = {A, B, C}
  Users = {u}
  Requests = {r1}
  Grants = {"owner", "member"}
  MaxChanges = 1
  None = None
INVARIANTS TypeOK RoleWasHeld RoleIsHighestUnbroken
PROPERTY RequestsResolve
