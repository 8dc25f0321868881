SPECIFICATION Spec
CONSTANTS
  MaxQps = 100
  MaxConnect = 100
  Slots = 100
  MaxTime = 0
  MaxOpen = 1
  Half = 1000
  MaxRecent = 110
  MaxSets = 0
CHECK_DEADLOCK FALSE
INVARIANTS SleepsThenBusy
