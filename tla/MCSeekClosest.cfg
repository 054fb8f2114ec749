SPECIFICATION Spec
CONSTANTS
  Me <- me
  Target <- target
  Met <- met
  Few = 2
  MaxNear = 4
  MaxWithout = 1
  MaxLost = 1
INVARIANT KnownIsNamed
CHECK_DEADLOCK FALSE
