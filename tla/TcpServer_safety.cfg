SPECIFICATION Spec
CONSTANTS
  b1 = b1
  b2 = b2
  b3 = b3
  id1 = id1
  id2 = id2
  NULL = NULL
  Bev <- ThreeBevs
  Id <- TwoIds
  Fd <- ThreeFds
  LoginTimeout = 40
  MatchTimeout = 40
  ActiveTimeout = 80
  MaxSid = 4
  MaxInactive = 80
  MaxOutput = 3
SYMMETRY Symmetry3
CHECK_DEADLOCK FALSE
INVARIANTS TypeOK HeapConsistent FdIndex PairsAreMutual NoMissedMatch StreamShape CleanSlate
PROPERTIES ServiceSpec PairForLife
