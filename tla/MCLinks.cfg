SPECIFICATION Spec
CONSTANTS
  Lower = Lower
  Upper = Upper
  MaxOpens = 2
  MaxFaults = 1
INVARIANTS TypeOK SilenceBounded
PROPERTIES EstablishedKept Converges
CHECK_DEADLOCK FALSE
