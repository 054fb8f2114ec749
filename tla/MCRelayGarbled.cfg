SPECIFICATION Spec
CONSTANTS
  Asker = Asker
  Target = Target
  Vias = {v1}
  Starts = {1, 9}
  MaxAsks = 1
  MaxTold = 1
  MaxFaults = 0
INVARIANT ForwardedParses
CHECK_DEADLOCK FALSE
