SPECIFICATION Spec
CONSTANTS
  MaxStream = 34
  Codecs = {"delimiter", "length", "fixed", "mqtt", "control", "resp", "http", "octet", "lines", "text"}
  RespMessages <- Replies
  HttpMessages <- Requests
INVARIANTS Prompt ConsumesOneValue AnswersInKind FieldsReadBack
PROPERTIES Implements
CHECK_DEADLOCK FALSE
