SPECIFICATION Spec
CONSTANTS
  None = None
  OPeers = {o1, o2, o3}
  APeers = {a1, a2}
  Modes <- LossyOrFickle
  Trusting = {"off", "ans"}
  MaxLate = 1
  MaxCuts = 1
SYMMETRY Symmetry
INVARIANTS KeysAgree RequireHonoured OffererHonest
PROPERTIES OpenLinkSettled
\* a dead sweep and the bounds let it stop
CHECK_DEADLOCK FALSE
