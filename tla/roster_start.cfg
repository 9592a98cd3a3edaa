SPECIFICATION Spec
CONSTANTS
  Others = {"p1", "p2"}
  None = "none"
  MaxMoves = 2
  MaxFaults = 0
INVARIANTS StartSurvives
\* the program may end
CHECK_DEADLOCK FALSE
