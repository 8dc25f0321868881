SPECIFICATION FairSpec
CONSTANTS
  NULL = NULL
  Unreadable = Unreadable
  Text <- MCText
  Atoi <- MCAtoi
  Junk = "junk"
  Default <- MCDefault
  MaxLines = 1
CHECK_DEADLOCK FALSE
PROPERTIES MissingFileExits
