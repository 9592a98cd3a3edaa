SPECIFICATION Spec
CONSTANTS
  None = None
  Seeds = {m1, m2, m3, b}
  Backups = {b}
  MaxFaults = 1
INVARIANTS InKeychain
