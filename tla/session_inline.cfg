SPECIFICATION FairSpec
CONSTANTS
  Io = io
  Workers = {}
  None = None
  Frames = {f1, f2, f3}
  MaxEmit = 2
  MaxMsgs = 3
  Pooled = FALSE
  Dispatch = FALSE
  AppCloses = TRUE
  AppSyncs = TRUE
INVARIANTS TypeOK NoUndefined SingleWriter NoStrandedFrame Conservation Listening
PROPERTIES FramesWritten ResetCloses ImplementsChannel
CHECK_DEADLOCK FALSE
