SPECIFICATION FairSpec
CONSTANTS
  b1 = b1
  b2 = b2
  b3 = b3
  id1 = id1
  id2 = id2
  NULL = NULL
  Bev <- TwoBevs
  Id <- OneId
  Fd <- TwoFds
  LoginTimeout = 50
  MatchTimeout = 80
  ActiveTimeout = 80
  MaxSid = 3
  MaxInactive = 80
  MaxOutput = 3
CHECK_DEADLOCK FALSE
PROPERTIES ClosedIsRemoved SilentIsReaped
