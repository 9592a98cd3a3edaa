SPECIFICATION FairSpec
CONSTANTS
  p1 = p1
  w1 = w1
  w2 = w2
  Clients = {p1, w1}
  Web = {w1}
  IdOf <- Distinct
  ConnWindow = 4
  ConnMax = 4
  ConcMax = 3
  MsgWindow = 2
  MsgMax = 1
  MaxBackoff = 2
  Burst = 1
  Talkers = {p1}
  MaxFaults = 4
INVARIANTS ConcExact LimitsHold
PROPERTIES Recovers
