SPECIFICATION Spec
CONSTANTS
  MaxQps = 3
  MaxConnect = 2
  Slots = 3
  MaxTime = 4
  MaxOpen = 3
  Half = 6
  MaxRecent = 8
  MaxSets = 2
CHECK_DEADLOCK FALSE
INVARIANTS TypeOK NoEarlyOverflow RateBounded
PROPERTIES DelayedForCause
