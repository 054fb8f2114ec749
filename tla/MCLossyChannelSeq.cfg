SPECIFICATION Spec
CONSTANTS
  Payload <- MCPayload
  Opener = Opener
  Responder = Responder
  Script <- OneWay
  MaxBorn = 1
INVARIANTS NewSeqPassedOff
CHECK_DEADLOCK FALSE
