SPECIFICATION Spec
CONSTANTS
  login = login
  x = x
  Host = Host
  Ok = Ok
  Byte <- OneByte
  Login = login
  MaxRead = 2
  BufSize = 2
  Window = 1
  Fate = {"closed", "reset"}
  MaxSent <- ThreeAndTwo
  MaxShortages = 1
CHECK_DEADLOCK FALSE
INVARIANTS TypeOK NothingStranded InOrder NothingLost
PROPERTIES NothingDroppedOnceTold ConversationSpec
