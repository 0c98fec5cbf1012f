SPECIFICATION FairSpec
CONSTANTS
  NoFd = NoFd
  Fd = {f1, f2}
  Listener = Listener
  NewNames = {}
  RoomRequests = {1, 2, 3}
  BacklogLimit = 2
  SockBuf = 1
  MaxConn = 2
  MaxSent = 3
  NumRooms = 2
  MaxUsersPerRoom = 1
  InitialCapacity = 2
  ReallocResults = {"in_place"}
  StaleFds = {}
CHECK_DEADLOCK FALSE
INVARIANTS
  ToldRoom
  RoomConsistency
PROPERTIES
  Departed
  Served
