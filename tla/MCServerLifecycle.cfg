SPECIFICATION FairSpec
CONSTANTS
  Posts = {p1, p2}
  Streams = {s1}
INVARIANTS TypeOK PostsFinishFirst ExitIsClean
PROPERTY StopEnds
CHECK_DEADLOCK FALSE
