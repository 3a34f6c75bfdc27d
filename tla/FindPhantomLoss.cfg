CONSTANTS
  CacheCap = 2
  RetransmitCap = 2
  Corruption = {FALSE}
  Contention = FALSE
  Discards = FALSE
  MaxSeq = 3
  Stamp <- OwnStamp
  MaxWire = 2
  MaxRequests = 2
SPECIFICATION Spec
PROPERTY GapMeansLoss
CHECK_DEADLOCK FALSE
