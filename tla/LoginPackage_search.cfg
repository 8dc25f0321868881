SPECIFICATION FairSpec
CONSTANTS
  NULL = NULL
  Byte = {0, 1, 2}
  Sync <- MCSync
  NUL = 0
  CardType = {1, 2}
  MaxLen = 8
CHECK_DEADLOCK FALSE
INVARIANTS TypeOK ReadsInside Decided
PROPERTIES Answered AdmissionSpec
