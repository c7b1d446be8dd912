SPECIFICATION Spec
CONSTANTS
  MaxEvents = 3
INVARIANTS
  CreatedNamesRoutedModel
CHECK_DEADLOCK FALSE
