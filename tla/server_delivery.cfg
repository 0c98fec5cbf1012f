SPECIFICATION Spec
CONSTANTS
  NoFd = NoFd
  Fd = {f1, f2}
  Listener = Listener
  NewNames = {n1}
  RoomRequests = {1, 2}
  BacklogLimit = 1
  SockBuf = 2
  MaxConn = 2
  MaxSent = 4
  NumRooms = 2
  MaxUsersPerRoom = 2
  InitialCapacity = 2
  ReallocResults = {"in_place", "moved"}
  StaleFds = {NoFd}
SYMMETRY Symmetry
CHECK_DEADLOCK FALSE
INVARIANTS
  RoomConsistency
  UsersAreConnections
  RecipientsAreMembers
  SameOrder
  SenderFifo
  RoomIsolation
