SPECIFICATION Spec
CONSTANTS
  Query = {q1, q2}
  a1 = a1
  a2 = a2
  Addr = {a1, a2}
  UpstreamSets <- TwoAddresses
  MaxQueued = 1
  Timeout = 1
  BackoffMax = 1
  ConnectRetry = 1
  FailMigrate = 0
  MigrateMin = 1
  MigrateRatio = 150
  MaxPages = 1
  None = None
SYMMETRY QuerySymmetry
INVARIANT NeverStranded
 
 
PROPERTY ForwarderSpec
 
PROPERTY TimerMakesProgress
CHECK_DEADLOCK FALSE
