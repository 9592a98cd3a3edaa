SPECIFICATION PageSpec
CONSTANTS
  empty = empty
  small = small
  large = large
  Xids = {empty, small, large}
  Size <- Sizes
  Window = 1
  Changing = {small}
  Early = FALSE
INVARIANTS TypeOK DeliveredIntact BufferBounded PageHolds
PROPERTIES PageAnswered PageServes
\* every transfer is over in the end
CHECK_DEADLOCK FALSE
