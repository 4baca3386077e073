SPECIFICATION FairSpec
CONSTANTS
  Io = io
  Control = control
  None = None
  Workers = {w1}
  Sessions = {s1, s2, s3}
  MaxClient = 1
  MaxTasks = 1
  InitResults = {"accept", "refuse", "close", "throw"}
  Managers = {"pooled", "inline", "own"}
  AcceptErrors = {"own"}
  AppCloses = {"pooled", "inline"}
  AppSends = {"inline"}
  MaxWrites = 1
  Stops = {"manager", "server"}
INVARIANTS TypeOK PoolExact NoneForgotten PendingIsLive KeepsAccepting StopEmpties IInv
PROPERTIES Released StopEnds ImplementsPool
CHECK_DEADLOCK FALSE
