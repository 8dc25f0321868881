SPECIFICATION Spec
CONSTANTS
  b1 = b1
  b2 = b2
  id1 = id1
  NULL = NULL
  Bev <- OneBev
  Id <- OneId
  LoginTimeout = 5
  MatchTimeout = 36
  ActiveTimeout = 180
  Interval = 4
  MaxSince = 40
INVARIANTS AnonymousFor30s
