SPECIFICATION FairSpec
CONSTANTS
  None = None
  OPeers = {o1, o2, o3}
  APeers = {a1, a2}
  Modes <- TwoInsist
  Trusting = {"off", "ans"}
  MaxLate = 0
  MaxCuts = 0
PROPERTIES NewNodesMeet
CHECK_DEADLOCK FALSE
