SPECIFICATION Spec
CONSTANTS
  Msgs = {m1, m2}
  Attempts = 2
  KeepFailed = 1
  MaxStalls = 1
  MaxReplays = 1
INVARIANTS TypeOK CompletedMeansSent DuplicatesExplained
PROPERTY DeliverySpec
CHECK_DEADLOCK FALSE
