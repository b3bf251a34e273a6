SPECIFICATION FairSpec
CONSTANTS
  NumWorkers = 2
  CpuOf <- OwnCpu
  Pid = {p1, p2, p3}
  None = None
  BackoffCap = 1
  MaxDeaths = 3
INVARIANT OneProcessPerWorker
INVARIANT BooksAgree
INVARIANT NoOrphans
INVARIANT NoWorkerForgotten
PROPERTY WorkerComesBack
PROPERTY ShutdownEnds
CHECK_DEADLOCK FALSE
