SPECIFICATION Spec
CONSTANTS
  MaxEvents = 6
INVARIANTS
  BlocksSeparated
CHECK_DEADLOCK FALSE
