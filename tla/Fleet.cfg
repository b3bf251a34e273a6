SPECIFICATION Spec
CONSTANTS
  a1 = a1
  a2 = a2
  a3 = a3
  NumWorkers = 2
  Candidates <- Two
  Speeds <- SpeedsTwo
  MaxAddrs = 2
  IPv6 = {a1}
  PreferIpv4 = TRUE
  Answers <- AnswersTwo
  MaxRefresh = 1
  MaxDeaths = 1
PROPERTY DroppedIsLeft
 
PROPERTY NeverWorkingIsLeft
