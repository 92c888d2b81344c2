SPECIFICATION Spec
CONSTANTS
  A = A
  ka = ka
  None = None
  Undefined = Undefined
  Orgs <- MCOrgs
  Contacts <- MCContacts
  ContactOrg <- MCContactOrg
  Contexts <- MCContexts
  Users = {}
  Members = {}
  Channels = {whatsapp, email}
  Convs = {c1}
  Msgs = {m1}
  Requests = {r1, r2}
  Attempts = 2
  KeepFailed = 1
  MaxStalls = 0
  MaxReplays = 0
INVARIANTS OneProducerPerMessage JobsMatchTheirRows
PROPERTY AcceptedIsSettled
