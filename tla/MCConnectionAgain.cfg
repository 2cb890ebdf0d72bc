SPECIFICATION Spec
CONSTANTS
  Kinds = {"reconnecting"}
  ChanCap = 2
  MaxAttempts = 2
  MaxMessages = 4
  MaxConns = 2
PROPERTIES
  SpeaksAgain
CHECK_DEADLOCK FALSE
