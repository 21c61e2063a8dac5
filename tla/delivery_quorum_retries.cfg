SPECIFICATION Spec
CONSTANTS
  NumOriginals = 1
  NumMessages = 1
  MaxRetries = 1
  MaxAttempts = 3
  MaxDeaths = 0
INVARIANTS
  RetriesBounded
CHECK_DEADLOCK FALSE
