SPECIFICATION BillingSpec
CONSTANTS
  s1 = s1
  s2 = s2
  w1 = w1
  w2 = w2
  NoEvent = NoEvent
  NoSub = NoSub
  NoSnap = NoSnap
  Events <- MCEvents
  Handled <- MCEvents
  Workers <- TwoWorkers
  Subs <- TwoSubs
  MaxEvents = 5
  MaxPeriod = 2
  Tabs <- None
  Overlapping <- None
  InOrder = FALSE
  Unreadable = TRUE
  MaxCrashes = 0
  MaxRaises = 0
SYMMETRY Symmetry
INVARIANTS
  EntitlementBacked
  ChargedGetsReceipt
PROPERTIES
  OnlyCheckoutRebinds
