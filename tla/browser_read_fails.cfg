SPECIFICATION PageSpec
CONSTANTS
  empty = empty
  small = small
  large = large
  Xids = {small}
  Size <- Sizes
  Window = 1
  Changing = {small}
  Early = FALSE

PROPERTY EveryGetAnswered
\* every transfer is over in the end
CHECK_DEADLOCK FALSE
