SPECIFICATION Spec
CONSTANTS
  Names <- AllNames
  Hidden = {".h", ".."}
  Places <- Root
  LinkTo <- Links
  Split <- Parted
  LTrim <- Begun
  RTrim <- Ended
  Unreadable <- ReadProtected
  Typed <- Paths1
  Outside = "outside"
  MaxAsks = 1
INVARIANT EveryRequestAnswered
