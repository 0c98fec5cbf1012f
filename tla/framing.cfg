SPECIFICATION FairSpec
CONSTANTS
  HeaderLen = 2
  Lengths = {3, 5, 8}
  GarbageLengths = {}
  SplitHeaders = FALSE
  WireBuf = 6
  MaxMessages = 4
CHECK_DEADLOCK FALSE
INVARIANTS
  TypeOK
  ReceivedWhole
PROPERTIES
  ImplementsChannel
  RecvallReturns
  SendallReturns
