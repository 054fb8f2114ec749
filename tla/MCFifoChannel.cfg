SPECIFICATION Spec
CONSTANTS
  Payload = {a}
  Opener = Opener
  Responder = Responder
  Amount <- MCAmount
  MaxLoss = 1
INVARIANTS NoFalseError
PROPERTIES EverythingProcessed EndReaches AcksDrain GapsClose FallsSilent
CHECK_DEADLOCK FALSE
