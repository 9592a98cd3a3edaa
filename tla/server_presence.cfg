SPECIFICATION Spec
CONSTANTS
  x1 = x1
  x2 = x2
  x3 = x3
  y1 = y1
  z1 = z1
  X = X
  Y = Y
  Z = Z
  n1 = n1
  None = None
  Conns = {x1, x2, y1, z1}
  Ids = {X, Y, Z}
  Nets = {n1}
  Slow = {y1}
  Senders = {}
  Overlap = FALSE
  IdOf <- Owner
  NetOf <- OneNet
INVARIANTS PresenceExact
\* every client may leave for good
CHECK_DEADLOCK FALSE
