SPECIFICATION Spec
CONSTANTS
  Io = io
  Workers = {w1, w2}
  None = None
  Frames = {f1, f2, f3}
  MaxEmit = 2
  MaxMsgs = 2
  Pooled = TRUE
  Dispatch = TRUE
  AppCloses = TRUE
  AppSyncs = TRUE
SYMMETRY Symmetry
INVARIANTS IInv NoStrandedFrame Listening
PROPERTY ImplementsSafely
CHECK_DEADLOCK FALSE
