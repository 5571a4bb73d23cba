SPECIFICATION LogFairSpec
CONSTANTS
  Streams = {s1}
  RingSize = 2
  ChanSize = 1
  MaxChatter = 2
PROPERTY
  LoggingReturns
CHECK_DEADLOCK FALSE
