SPECIFICATION Spec
CONSTANTS
  a1 = a1
  a2 = a2
  a3 = a3
  NumWorkers = 2
  Candidates <- Three
  Speeds <- SpeedsThree
  MaxAddrs = 3
  IPv6 = {}
  PreferIpv4 = FALSE
  Answers = {}
  MaxRefresh = 0
  MaxDeaths = 0
PROPERTY EveryCandidateTried
