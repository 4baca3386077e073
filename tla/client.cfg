SPECIFICATION FairSpec
CONSTANTS
  Frames = {f1, f2}
  MaxConnects = 3
INVARIANTS TypeOK ClosedIsQuiet OneReader Conservation IInv
PROPERTIES FramesWritten ResetCloses
CHECK_DEADLOCK FALSE
