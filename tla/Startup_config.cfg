SPECIFICATION FairSpec
CONSTANTS
  NULL = NULL
  Unreadable = Unreadable
  Text <- MCText
  Atoi <- MCAtoi
  Junk = "junk"
  Default <- MCDefault
  MaxLines = 2
CHECK_DEADLOCK FALSE
INVARIANTS TypeOK ServesAsConfigured OneConfiguration
PROPERTIES StartsServing
