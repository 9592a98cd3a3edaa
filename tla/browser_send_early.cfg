SPECIFICATION PageSpec
CONSTANTS
  empty = empty
  small = small
  large = large
  Xids = {small}
  Size <- Sizes
  Window = 1
  Changing = {}
  Early = TRUE

PROPERTY SentArrives
\* every transfer is over in the end
CHECK_DEADLOCK FALSE
