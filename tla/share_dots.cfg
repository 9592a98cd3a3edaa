SPECIFICATION Spec
CONSTANTS
  Names <- AllNames
  Hidden = {".h", ".."}
  Places <- Mixed
  LinkTo <- Links
  Split <- Parted
  LTrim <- Begun
  RTrim <- Ended
  Unreadable <- NoPaths
  Typed <- Paths1
  Outside = "outside"
  MaxAsks = 1
INVARIANT DotsOmitted
