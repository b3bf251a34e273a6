SPECIFICATION ProbeSpec
CONSTANTS
  Hosts <- Three
  Records <- Nested
  probeCount = 3
  MaxDelay = 2
  MaxLost = 1
  None = None
INVARIANT AtMostOneOwner
INVARIANT SomebodyStays
CHECK_DEADLOCK FALSE
