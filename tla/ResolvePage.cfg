SPECIFICATION FairSpec
CONSTANTS
  Readers = {r1}
  MaxAddrs = 2
  HalfModulus = 3
  StoresInOrder = TRUE
  MaxLag = 1
  MaxPublish = 3
  MaxRestarts = 1
INVARIANT NoTornView
PROPERTY RegisterSpec
PROPERTY FreshInTheEnd
CHECK_DEADLOCK FALSE
