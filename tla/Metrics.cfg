SPECIFICATION Spec
CONSTANTS
  Turns = {t1, t2, t3}
  Window = 2
INVARIANTS
  TypeOK
  CountersAgree
  WindowsHoldLatest
PROPERTIES
  EveryTurnCounted
CHECK_DEADLOCK FALSE
