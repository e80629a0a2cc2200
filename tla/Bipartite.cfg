CONSTANTS
  NumCntrs = 4
  MaxEvents = 4
SPECIFICATION Spec
INVARIANTS
  AllocatorIsExact
CHECK_DEADLOCK FALSE
