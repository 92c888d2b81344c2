SPECIFICATION InboxSpec
CONSTANTS
  A = A
  ka = ka
  None = None
  Undefined = Undefined
  Users = {}
  Members = {}
  Orgs = {A}
  Contacts = {ka}
  ContactOrg <- MCContactOrg
  Contexts <- MCContexts
  Channels = {whatsapp}
  Convs = {c1, c2, c3}
  Msgs = {m1, m2}
  Requests = {r1}
  Take = 1
  Filters <- MCFilters
SYMMETRY Symmetry
INVARIANTS InboxTypeOK NothingMissed NothingRepeated
PROPERTY SecondOpenIsRace
