SPECIFICATION Spec
CONSTANTS
  Lower = Lower
  Upper = Upper
  Marked = {"inner"}
  MaxAsks = 3
  MaxFaults = 1
INVARIANTS TypeOK ActiveJustified
PROPERTIES DirectFound
CHECK_DEADLOCK FALSE
