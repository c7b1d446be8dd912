SPECIFICATION Spec
CONSTANTS
  Capped <- MCCapped
  Cap <- CapOf
  LongVariants <- MCLongVariants
  NoneUnsupported <- MCNoneUnsupported
  Catalogues <- Answers
  MaxTalk = 4
  MaxTurns = 2
  Entries <- Writes
  Replies <- Gives
  Settings <- Clients
  Efforts = {"low", "high"}
INVARIANTS
  SaidIsSent
  RequestsAgree
  PickerIsTrue
PROPERTIES
  CacheStays
CHECK_DEADLOCK FALSE
