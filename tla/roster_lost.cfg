SPECIFICATION FairSpec
CONSTANTS
  Others = {"p1"}
  None = "none"
  MaxMoves = 0
  MaxFaults = 1
PROPERTY FailedIsOffered
\* the program may end
CHECK_DEADLOCK FALSE
