SPECIFICATION Spec
CONSTANTS
  Io = io
  Workers = {w1, w2}
  None = None
  Frames = {f1, f2}
  MaxEmit = 2
  MaxMsgs = 2
  Pooled = TRUE
  Dispatch = TRUE
  AppCloses = FALSE
  AppSyncs = FALSE
INVARIANT NoConcurrentOnMessage
CHECK_DEADLOCK FALSE
