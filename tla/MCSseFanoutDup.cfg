SPECIFICATION FairSpec
CONSTANTS
  Ids = {s1, s2}
  MaxSessions = 1
  BufCap = 1
  Notifs = {n1}
  Posts = {p1}
  Deletes = {d1}
  Conns = {k1, k2}
  None = None
INVARIANT NoDuplicates
CHECK_DEADLOCK FALSE
