SPECIFICATION MCSpec
CONSTANTS
  None = None
  Empty = Empty
  Ids = {i1, i2}
  Seeds = {s1, s2, s3}
  MaxCrashes = 3
  PageSeeds = {m1, m2, m3, b}
  Backups = {b}
  MaxFaults = 2
  Programs = {"p1", "p2"}
  Contacts = {"a", "b"}
  MaxAsks = 2
  Names <- FewNames
  Hidden = {".h", ".."}
  Places <- FewPlaces
  LinkTo <- FewLinks
  Split <- Unsplit
  LTrim <- Untrimmed
  RTrim <- Untrimmed
  Unreadable = {}
  Typed <- FewTyped
  Outside = "outside"
SYMMETRY Symmetry
INVARIANTS HomeTypeOK ToldIsKept ACopyRemains
INVARIANTS SeedKept OwnOrRestored KeyringShared ClickLeads FolderServed
PROPERTIES SameIdentity
\* a kill while the first identity is written: the peer cannot start any more
CHECK_DEADLOCK FALSE
