SPECIFICATION Spec
CONSTANTS
  NumOriginals = 2
  NumMessages = 4
  MaxRetries = 1
  MaxAttempts = 4
  MaxDeaths = 1
INVARIANTS
  SettledOnce
  NotLost
  ClassicRetriesBounded
PROPERTIES
  PanicAcksNothing
CHECK_DEADLOCK FALSE
