SPECIFICATION FairSpec
CONSTANTS
  Fd = {f1, f2}
  Listener = Listener
  Typed <- OneSize
  Size <- AllOne
  EchoSize <- AllOne
  ReplySize = 1
  BacklogLimit = 1
  SockBuf = 1
  NumRooms = 1
  MaxUsersPerRoom = 2
CHECK_DEADLOCK FALSE
INVARIANT TypeOK
PROPERTIES
  StandstillLasts
  EverySendEnds
  EveryoneAttended
