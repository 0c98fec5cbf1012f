SPECIFICATION Spec
CONSTANTS
  Fd = {f1}
  Listener = Listener
  Typed <- TwoSizes
  Size <- ShortOrLong
  EchoSize <- Longer
  ReplySize = 2
  BacklogLimit = 1
  SockBuf = 2
  NumRooms = 1
  MaxUsersPerRoom = 2
CHECK_DEADLOCK FALSE
INVARIANT NoStandstill
