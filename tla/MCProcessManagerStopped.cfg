SPECIFICATION FairSpec
CONSTANTS
  c1 = c1
  c2 = c2
  Callers = {c1}
  Free = Free
  Programs <- MCPrograms
  MaxProcs = 3
  MaxRestarts = 1
INVARIANT StoppedMeansNotRunning
CHECK_DEADLOCK FALSE
