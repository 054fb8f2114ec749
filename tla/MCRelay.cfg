SPECIFICATION Spec
CONSTANTS
  Asker = Asker
  Target = Target
  Vias = {v1, v2}
  Starts = {1}
  MaxAsks = 1
  MaxTold = 1
  MaxFaults = 1
INVARIANTS TypeOK NoEcho IdsApart QuietPaired
PROPERTY RelayCompletes
CHECK_DEADLOCK FALSE
