SPECIFICATION Spec
CONSTANTS
  Names <- MCNames
  TypedNames <- MCTypedNames
  Texts <- MCTexts
  Replies <- MCReplies
  Times <- MCTimes
  RoomIds <- MCRoomIds
CHECK_DEADLOCK FALSE
INVARIANTS
  RoundTrip
  HeaderTellsLength
  FieldsInMessage
