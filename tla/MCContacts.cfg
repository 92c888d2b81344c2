SPECIFICATION Spec
CONSTANTS
  A = A
  B = B
  Orgs = {A, B}
  Contacts = {k1, k2}
  Tags = {t1, t2}
  Phones = {p1}
  Names = {vip}
  SlugOf <- Slugged
  Requests = {r1, r2}
  Contexts <- MCContexts
  None = None
  Undefined = Undefined
SYMMETRY Symmetry
INVARIANTS TypeOK RefusedMeansTaken TagsStayInTenant
PROPERTY WritesStayInTenant
