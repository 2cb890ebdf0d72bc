SPECIFICATION Spec
CONSTANTS
  Kinds = {"accepted", "dialed", "reconnecting"}
  ChanCap = 2
  MaxAttempts = 2
  MaxMessages = 4
  MaxConns = 2
INVARIANTS
  InOrder
  NothingElseLost
PROPERTIES
  ChannelDrains
CHECK_DEADLOCK FALSE
