SPECIFICATION Spec
CONSTANTS
  NoFd = NoFd
  Fd = {f1, f2}
  Listener = Listener
  NewNames = {}
  RoomRequests = {1}
  BacklogLimit = 1
  SockBuf = 1
  MaxConn = 3
  MaxSent = 2
  NumRooms = 1
  MaxUsersPerRoom = 2
  InitialCapacity = 1
  ReallocResults = {"in_place", "moved", "failed"}
  StaleFds = {f1, f2, NoFd}
CHECK_DEADLOCK FALSE
INVARIANT EveryClientIsPolled
