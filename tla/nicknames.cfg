SPECIFICATION GuestSpec
CONSTANTS
  g1 = g1
  g2 = g2
  t1 = t1
  t2 = t2
  t3 = t3
  n1 = n1
  Browsers <- MCBrowsers
  Tabs <- MCTabs
  BrowserOf <- MCBrowserOf
  Nicks <- MCNicks
  MaxIds = 2
  NoToken = NoToken
  NoUser = NoUser
INVARIANTS
  IdsNameOne
  OpenIsReserved
  AccountNamesAreClosed
  OneGuestPerNick
CHECK_DEADLOCK FALSE
