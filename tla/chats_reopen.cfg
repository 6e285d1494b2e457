SPECIFICATION ChatSpec
CONSTANTS
  a = a
  b = b
  c = c
  a1 = a1
  b1 = b1
  NoGroup = NoGroup
  NoUser = NoUser
  Users <- TwoUsers
  Sockets <- OneEach
  Owner <- OwnerOneEach
  Bots <- Nobody
  Capped <- TwoUsers
  Limit = 3
  Capacity = 2
INVARIANT
  ReopenKeepsGroup
