SPECIFICATION ChatSpec
CONSTANTS
  a = a
  b = b
  c = c
  a1 = a1
  b1 = b1
  NoGroup = NoGroup
  NoUser = NoUser
  Users <- ThreeUsers
  Sockets <- OneEach
  Owner <- OwnerOneEach
  Bots <- OnlyC
  Capped <- TwoUsers
  Limit = 1
  Capacity = 1
INVARIANTS
  PrivateGroupsArePrivate
  RailIsJoined
  ClosedNotStored
  CeilingAtInvite
