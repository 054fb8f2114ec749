SPECIFICATION Spec
CONSTANTS
  Lower = Lower
  Upper = Upper
  MaxJobs = 1
  MaxChannels = 1
  MaxFaults = 1
PROPERTY WaitingEnds
CHECK_DEADLOCK FALSE
