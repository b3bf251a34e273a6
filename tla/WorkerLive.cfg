SPECIFICATION FairSpec
CONSTANTS
  Query = {q1}
  a1 = a1
  a2 = a2
  Addr = {a1}
  UpstreamSets <- OneAddress
  MaxQueued = 1
  Timeout = 2
  BackoffMax = 1
  ConnectRetry = 1
  FailMigrate = 1
  MigrateMin = 2
  MigrateRatio = 150
  MaxPages = 0
  None = None
 
PROPERTY GoawayEnds
CHECK_DEADLOCK FALSE
