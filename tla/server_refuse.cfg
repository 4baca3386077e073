SPECIFICATION Spec
CONSTANTS
  Io = io
  Control = control
  None = None
  Workers = {}
  Sessions = {s1, s2, s3}
  MaxClient = 1
  MaxTasks = 1
  InitResults = {"accept"}
  Managers = {"inline"}
  AcceptErrors = {}
  AppCloses = {}
  AppSends = {}
  MaxWrites = 0
  Stops = {}
INVARIANT NoUndefined
CHECK_DEADLOCK FALSE
