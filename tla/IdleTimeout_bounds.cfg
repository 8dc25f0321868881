SPECIFICATION Spec
CONSTANTS
  b1 = b1
  b2 = b2
  id1 = id1
  NULL = NULL
  Bev <- TwoBevs
  Id <- OneId
  LoginTimeout = 3
  MatchTimeout = 4
  ActiveTimeout = 6
  Interval = 2
  MaxSince = 8
INVARIANTS TypeOK ReapedInTime
PROPERTIES NoEarlyClose
