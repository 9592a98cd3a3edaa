SPECIFICATION Spec
CONSTANTS
  Names <- AllNames
  Hidden = {".h", ".."}
  Places <- Odd
  LinkTo <- Links
  Split <- Parted
  LTrim <- Begun
  RTrim <- Ended
  Unreadable <- NoPaths
  Typed <- Paths1
  Outside = "outside"
  MaxAsks = 1
INVARIANT ListedCanBeGot
