SPECIFICATION FairSpec
CONSTANTS
  Ids = {s1, s2}
  MaxSessions = 1
  BufCap = 1
  Notifs = {n1}
  Posts = {p1}
  Deletes = {d1}
  Conns = {k1, k2}
  None = None
INVARIANTS TypeOK NoSendOnClosed ClosedIffRemoved
PROPERTIES DirectWriteLive StreamEnds IdleEvicted QueuedIsKept QueueDelivers
CHECK_DEADLOCK FALSE
