SPECIFICATION FairSpec
CONSTANTS
  Others = {"p1", "p2"}
  None = "none"
  MaxMoves = 2
  MaxFaults = 2
INVARIANTS RosterExact
PROPERTY EachLinked
\* the program may end
CHECK_DEADLOCK FALSE
