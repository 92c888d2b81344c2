SPECIFICATION RaceSpec
CONSTANTS
  A = A
  B = B
  ka = ka
  kb = kb
  u = u
  None = None
  Undefined = Undefined
  Users <- MCUsers
  Members <- MCMembers
  Orgs <- MCOneOrg
  Contacts <- MCOneContact
  ContactOrg <- MCOneContactOrg
  Contexts <- MCOneTenant
  Channels = {whatsapp}
  Convs = {c1, c2}
  Msgs = {m1}
  Requests = {r1, r2}
SYMMETRY Symmetry
INVARIANT OneOpenPerContactChannel
