SPECIFICATION BothSpec
CONSTANTS
  MaxEvents = 8
INVARIANTS
  ClientFollows
  NothingLost
  ReasoningReplayable
  StreamAgreesWithResponse
  EndsWithDone
  ReasoningText
  OneModel
  SurfacesAgree
PROPERTIES
  SettledItems
  NothingAfterTheEnd
CHECK_DEADLOCK FALSE
