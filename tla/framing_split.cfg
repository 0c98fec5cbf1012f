SPECIFICATION Spec
CONSTANTS
  HeaderLen = 2
  Lengths = {3, 5}
  GarbageLengths = {1, 6}
  SplitHeaders = TRUE
  WireBuf = 4
  MaxMessages = 3
CHECK_DEADLOCK FALSE
INVARIANT EntireMessageObtained
