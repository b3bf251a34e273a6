SPECIFICATION FairSpec
CONSTANTS
  Zones <- DualThenV4
  Ttls = {1}
  FirstTtls = {1}
  IdsOfA = {1, 2}
  IPv6 <- V6
  PreferIpv4 = TRUE
  MaxAddrs = 4
  QUERY_TIMEOUT = 1
  ATTEMPTS = 2
  DEFAULT_TTL = 3
  MIN_TTL = 2
  RETRY_INTERVAL = 3
  None = None
  MaxChanges = 1
  MaxDups = 1
  MaxInbox = 2
 
PROPERTY NoStaleAnswer
PROPERTY RefreshSpacing
PROPERTY RefreshEnds
PROPERTY CandidatesFollowDns
