SPECIFICATION FairSpec
CONSTANTS
  r1 = r1
  r2 = r2
  r3 = r3
  Requests = {r1, r2, r3}
  MayNotify = {r2}
  Ids = {1, 2}
  IdOf <- MCIdOf
  MaxGen = 2
  None = None
  NL = NL
INVARIANTS TypeOK PendingLive FramesWhole
PROPERTIES Promise AnswerArrives
CHECK_DEADLOCK FALSE
