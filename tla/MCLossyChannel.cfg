SPECIFICATION Spec
CONSTANTS
  Payload <- MCPayload
  Opener = Opener
  Responder = Responder
  Script <- TwoWays
  MaxBorn = 2
INVARIANTS TypeOK InOrder Retained AckSound MissingIsCurrent
PROPERTIES EndedStaysEnded StreamSpec
CHECK_DEADLOCK FALSE
