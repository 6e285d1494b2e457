SPECIFICATION LedgerSpec
CONSTANTS
  e1 = e1
  e2 = e2
  e3 = e3
  w1 = w1
  w2 = w2
  NoEvent = NoEvent
  Events <- MCEvents
  Handled <- MCHandled
  Workers <- MCWorkers
  Overlapping <- MCEvents
  MaxCrashes = 0
  MaxRaises = 3
INVARIANT
  FailedIsOwed
