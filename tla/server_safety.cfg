SPECIFICATION Spec
CONSTANTS
  NoFd = NoFd
  Fd = {f1, f2, f3}
  Listener = Listener
  NewNames = {}
  RoomRequests = {1, 2}
  BacklogLimit = 2
  SockBuf = 1
  MaxConn = 3
  MaxSent = 3
  NumRooms = 2
  MaxUsersPerRoom = 2
  InitialCapacity = 1
  ReallocResults = {"in_place", "failed"}
  StaleFds = {}
SYMMETRY Symmetry
CHECK_DEADLOCK FALSE
INVARIANTS
  TypeOK
  Registry
  ReadinessFresh
  OnlyEnvironmentStopsServer
PROPERTIES
  ImplementsService
  ServerTakesPart
  OnlyAResetLosesInput
