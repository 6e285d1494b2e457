SPECIFICATION CancelSpec
CONSTANTS
  s1 = s1
  s2 = s2
  w1 = w1
  t1 = t1
  NoEvent = NoEvent
  NoSub = NoSub
  NoSnap = NoSnap
  Events <- MCEvents
  Handled <- MCEvents
  Workers <- OneWorker
  Subs <- TwoSubs
  MaxEvents = 6
  MaxPeriod = 2
  Overlapping <- None
  InOrder = TRUE
  Unreadable = FALSE
  MaxCrashes = 1
  MaxRaises = 1
  Tabs <- OneTab
SYMMETRY Symmetry
INVARIANTS
  RowAgrees
  LatestCheckoutRules
  AccessFollowsStripe
  EndIsTold
PROPERTIES
  CancelNeverRebinds
