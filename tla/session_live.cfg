SPECIFICATION FairPageSpec
CONSTANTS
  None = None
  OPeers = {o1, o2, o3}
  APeers = {a1, a2}
  Modes <- AnyPair
  Trusting = {}
  MaxLate = 0
  MaxCuts = 0
INVARIANTS BothTrust KeysAgree ClaimsHonest
PROPERTIES Meet LinkReached ForgottenStaysOut
\* a Python sweep that has died lets it stop
CHECK_DEADLOCK FALSE
