SPECIFICATION Spec
CONSTANTS
  Links = {mmA, mmB}
  AtStart = 1
  MaxServers = 4
  MaxRequests = 2
  MaxJoins = 1
  ChanCap = 1
INVARIANTS
  NoPanic
  AnnouncedStay
PROPERTIES
  ImplementsDirectory
  Answered
CHECK_DEADLOCK FALSE
