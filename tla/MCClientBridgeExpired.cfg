SPECIFICATION Spec
CONSTANTS
  N = 2
  MaxRetries = 1
  ChanCap = 1
  MaxEvents = 1
  MaxSessions = 1
INVARIANTS ExpiredNotReused
CHECK_DEADLOCK FALSE
