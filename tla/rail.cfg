SPECIFICATION RailSpec
CONSTANTS
  a = a
  b = b
  c = c
  a1 = a1
  Tab = a1
  NoGroup = NoGroup
  NoUser = NoUser
  Users <- MCUsers
  Sockets <- MCSockets
  Owner <- MCOwner
  Bots <- OnlyC
  Capped <- OnlyA
  Limit = 1
  Capacity = 2
  ProPage = FALSE
  MaxRequests = 1
  MaxFrames = 1
  MaxRows = 2
  MaxWaiting = 1
INVARIANTS
  RailTypeOK
  CountedIsKnown
  WritableIsJoined
  ClosedStaysClosed
