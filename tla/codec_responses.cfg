SPECIFICATION Spec
CONSTANTS
  MaxStream = 24
  Codecs = {"http"}
  RespMessages <- Replies
  HttpMessages <- Responses
INVARIANTS InOrder
CHECK_DEADLOCK FALSE
