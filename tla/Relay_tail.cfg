SPECIFICATION FairSpec
CONSTANTS
  login = login
  x = x
  Host = Host
  Ok = Ok
  Byte <- LoginsOnly
  Login = login
  MaxRead = 2
  BufSize = 2
  Window = 1
  Fate = {"stalled", "closed", "reset"}
  MaxSent <- TwoEach
  MaxShortages = 1
CHECK_DEADLOCK FALSE
PROPERTIES RelayedArrives
