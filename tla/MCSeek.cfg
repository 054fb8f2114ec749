SPECIFICATION Spec
CONSTANTS
  Me <- me
  Target <- target
  Met <- met
  Few = 5
  MaxNear = 4
  MaxWithout = 1
  MaxLost = 1
INVARIANTS TypeOK AtMostThree DistanceRight Conclusive
CHECK_DEADLOCK FALSE
