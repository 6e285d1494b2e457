SPECIFICATION FairNoticeSpec
CONSTANTS
  e1 = e1
  e2 = e2
  w1 = w1
  Events <- MCEvents
  Handled <- MCEvents
  Workers <- MCWorkers
  NoEvent = NoEvent
  Overlapping <- None
  MaxCrashes = 1
  MaxRaises = 1
  Processes = 2
  MaxRetries = 1
  MaxFaults = 1
INVARIANTS
  NoticeTypeOK
  MailsBounded
  EndedMeansTold
PROPERTIES
  NoticeResolved
