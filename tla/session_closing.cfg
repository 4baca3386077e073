SPECIFICATION Spec
CONSTANTS
  Io = io
  Workers = {}
  None = None
  Frames = {f1, f2}
  MaxEmit = 2
  MaxMsgs = 2
  Pooled = TRUE
  Dispatch = FALSE
  AppCloses = FALSE
  AppSyncs = FALSE
INVARIANT NoUndefined
CHECK_DEADLOCK FALSE
