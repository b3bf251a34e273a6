SPECIFICATION PublisherFairSpec
CONSTANTS
  Address = {a, b}
  MaxChanges = 2
  MaxQueries = 2
INVARIANT GoodbyeFinal
PROPERTY PeerFollowsInterface
PROPERTY SignalEnds
CHECK_DEADLOCK FALSE
