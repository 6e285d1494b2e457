SPECIFICATION FairLedgerSpec
CONSTANTS
  e1 = e1
  e2 = e2
  e3 = e3
  w1 = w1
  w2 = w2
  NoEvent = NoEvent
  Events <- MCEvents
  Handled <- MCHandled
  Workers <- MCWorkers
  Overlapping <- OnlyE1
  MaxCrashes = 2
  MaxRaises = 3
INVARIANTS
  HandlerExclusive
  AckedIsSettled
PROPERTIES
  TerminalIsFinal
  ClaimedOnceAtATime
  EverySettled
