SPECIFICATION CheckoutSpec
CONSTANTS
  r1 = r1
  r2 = r2
  Requests <- MCRequests
  NoRequest = NoRequest
  MaxWindows = 4
  MaxForgets = 1
SYMMETRY Symmetry
INVARIANTS
  OneCustomer
  SessionsOfTheCustomer
  LateSales
