CONSTANTS
  t1 = t1
  t2 = t2
  Sockets <- MCSockets
  Limit = 3
  MaxSent = 7
SPECIFICATION RateSpec
INVARIANTS CountedWereSent LetThrough
PROPERTIES LimitLifts MarkerFollows
