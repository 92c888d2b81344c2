SPECIFICATION RaceSpec
CONSTANTS
  A = A
  B = B
  ka = ka
  kb = kb
  u = u
  None = None
  Undefined = Undefined
  Users <- MCUsers
  Members <- MCMembers
  Orgs <- MCOrgs
  Contacts <- MCContacts
  ContactOrg <- MCContactOrg
  Contexts <- MCContexts
  Channels = {whatsapp}
  Convs = {c1}
  Msgs = {m1}
  Requests = {r1, r2}
SYMMETRY Symmetry
INVARIANTS RaceTypeOK TenantAgreement ReadsStayInTenant AssigneeBelonged ResumesInTenant
PROPERTIES WritesStayInTenant PermittedAssignment SendToClosedIsRace WriteToDeletedIsRace
