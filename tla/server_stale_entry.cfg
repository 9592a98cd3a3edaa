SPECIFICATION Spec
CONSTANTS
  x1 = x1
  x2 = x2
  x3 = x3
  y1 = y1
  z1 = z1
  X = X
  Y = Y
  Z = Z
  n1 = n1
  None = None
  Conns = {x1, x2, x3, y1}
  Ids = {X, Y}
  Nets = {n1}
  Slow = {}
  Senders = {}
  Overlap = TRUE
  IdOf <- Owner
  NetOf <- OneNet
INVARIANTS EntriesAreServed
\* every client may leave for good
CHECK_DEADLOCK FALSE
