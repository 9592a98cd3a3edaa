SPECIFICATION Spec
CONSTANTS
  None = None
  OPeers = {o1, o2}
  APeers = {a1, a2}
  Modes <- LossyNew
  Trusting = {"off", "ans"}
  MaxLate = 0
  MaxCuts = 0
SYMMETRY Symmetry
PROPERTIES LinkSurvives
CHECK_DEADLOCK FALSE
