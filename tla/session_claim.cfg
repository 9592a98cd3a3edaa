SPECIFICATION Spec
CONSTANTS
  None = None
  OPeers = {o1, o2}
  APeers = {a1}
  Modes <- FickleNew
  Trusting = {"off", "ans"}
  MaxLate = 0
  MaxCuts = 1
SYMMETRY Symmetry
INVARIANTS ClaimHonest
\* a dead sweep and the bounds let it stop
CHECK_DEADLOCK FALSE
