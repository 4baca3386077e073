SPECIFICATION Spec
CONSTANTS
  Io = io
  Workers = {w1}
  None = None
  Frames = {f1, f2}
  MaxEmit = 2
  MaxMsgs = 2
  Pooled = FALSE
  Dispatch = TRUE
  AppCloses = FALSE
  AppSyncs = FALSE
INVARIANT NoUndefined
CHECK_DEADLOCK FALSE
