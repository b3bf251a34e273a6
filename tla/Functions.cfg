SPECIFICATION MCSpec
CONSTANTS
  None = None
  Bad = Bad
  NoReply = NoReply
  Unread = Unread
  MaxShift = 14
  GET_MAX_DNS_LEN = 120
  PAD_BLOCK = 64
  MaxWeight = 8
  MaxFleet = 8
  legacyUnicastMaxTTL = 3
  Streams <- AllStreams
  Inputs <- AllInputs
INVARIANT ChunkingIrrelevant
INVARIANT OneEventPerRequest
 
 
INVARIANT ServfailEchoes
INVARIANT OwnCpus
INVARIANT ExactSplit
 
CHECK_DEADLOCK FALSE
