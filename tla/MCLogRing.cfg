SPECIFICATION FairSpec
CONSTANTS
  Followers = {f}
  Size = 2
  Room = 2
  MaxLines = 4
INVARIANT NoLineLost
PROPERTIES EveryLineFollowed CrashEnds
CHECK_DEADLOCK FALSE
