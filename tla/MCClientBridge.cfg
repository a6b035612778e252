SPECIFICATION FairSpec
CONSTANTS
  N = 2
  MaxRetries = 1
  ChanCap = 1
  MaxEvents = 2
  MaxSessions = 2
INVARIANTS TypeOK PostsBounded ExpiryRecovers
PROPERTIES Promise ShutdownEnds
CHECK_DEADLOCK FALSE
