SPECIFICATION Spec
CONSTANTS
  MaxStream = 16
  Codecs = {"resp"}
  RespMessages <- Commands
  HttpMessages <- Requests
INVARIANTS ConsumesOneValue
CHECK_DEADLOCK FALSE
