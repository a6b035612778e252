SPECIFICATION FairSpec
CONSTANTS
  c1 = c1
  c2 = c2
  Callers = {c1, c2}
  Free = Free
  Programs <- MCPrograms
  MaxProcs = 3
  MaxRestarts = 1
INVARIANTS TypeOK NoSendAfterClose RestartLimit OneProcess CloseReleases Watched
PROPERTIES StopSeesItsExit CloseTerminates RunningSettles
CHECK_DEADLOCK FALSE
