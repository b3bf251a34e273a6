SPECIFICATION Spec
CONSTANTS
  Query = {q1, q2}
  a1 = a1
  a2 = a2
  Addr = {a1, a2}
  UpstreamSets <- TwoAddresses
  MaxQueued = 1
  Timeout = 1
  BackoffMax = 1
  ConnectRetry = 1
  FailMigrate = 1
  MigrateMin = 2
  MigrateRatio = 150
  MaxPages = 1
  None = None
SYMMETRY QuerySymmetry
INVARIANT NoQueryLost
CHECK_DEADLOCK FALSE
