\* Five readings, two of them with one timestamp; a cache that holds two of them;
\* every way to lose one.
CONSTANTS
  CacheCap = 2
  RetransmitCap = 1
  Corruption = {TRUE, FALSE}
  Contention = TRUE
  Discards = TRUE
  MaxSeq = 4
  Stamp <- TiedStamp
  MaxWire = 2
  MaxRequests = 2
SPECIFICATION FairSpec
INVARIANT TypeOK
INVARIANT CacheIsDistinct
INVARIANT LossIsNoticed
PROPERTY ImplementsStream
PROPERTY RequestsSettle
CHECK_DEADLOCK FALSE
