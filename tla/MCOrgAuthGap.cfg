SPECIFICATION Safety
CONSTANTS
  Orgs = {A, B, C}
  Users = {u}
  Requests = {r1}
  Grants = {"owner", "member"}
  MaxChanges = 0
  None = None
SYMMETRY Symmetry
INVARIANT RoleIsHighest
