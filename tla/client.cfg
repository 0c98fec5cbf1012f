SPECIFICATION FairSpec
CONSTANTS
  Lines <- MCLines
  ServerSends <- TwoMessages
  SockBuf = 1
  MaxLines = 3
CHECK_DEADLOCK FALSE
INVARIANTS
  TypeOK
  SentIsWhatWasTyped
  PrintsAllBeforeClose
  ExitIsLast
  EndOfInputLosesNothing
PROPERTIES
  InputHandled
  ServerHeard
  ClientTakesPart
