SPECIFICATION Spec
CONSTANTS
  None = None
  OPeers = {o1, o2, o3}
  APeers = {a1, a2}
  Modes <- FickleNew
  Trusting = {}
  MaxLate = 0
  MaxCuts = 0
INVARIANTS UntrustedIgnored
SYMMETRY Symmetry
