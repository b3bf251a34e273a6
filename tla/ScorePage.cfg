SPECIFICATION ScoresFairSpec
CONSTANTS
  NumWorkers = 2
  MaxWorkers = 2
  HalfModulus = 2
  CrashInWrite = FALSE
  MaxLag = 1
  MaxWrites = 3
  MaxCrashes = 1
PROPERTY FreshOwnSample
 
CHECK_DEADLOCK FALSE
