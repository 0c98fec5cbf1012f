SPECIFICATION Spec
CONSTANTS
  Descriptor = {d1, d2, d3, d4, d5, d6}
  InitialCapacity = 1
  ReallocResults = {"in_place", "failed"}
  StaleFds = {}
CHECK_DEADLOCK FALSE
INVARIANTS
  TypeOK
  CapacityCovers
  HoldsWhatWasAppended
