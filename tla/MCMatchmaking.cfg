SPECIFICATION Spec
CONSTANTS
  Players = {p, q}
  Launchers = {l}
  Reconnect = TRUE
  IdSpace = 2
  ChanCap = 1
  AtStart = 1
  MaxRequests = 3
  MaxLosses = 1
INVARIANTS
  PendingMatches
  BrowserComplete
PROPERTIES
  Drained
CHECK_DEADLOCK FALSE
