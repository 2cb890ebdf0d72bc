SPECIFICATION Spec
CONSTANTS
  PlayerIds = {1, 2}
  Params <- GoodAndBad
  AuthModes = {FALSE, TRUE}
  HasInfo = TRUE
  Launched = TRUE
  MaxGames = 1
  MaxCells = 1
  MaxMoves = 2
  MaxTokens = 2
  MaxLeaves = 1
  MaxRequests = 4
  MaxBusy = 2
  MaxLag = 0
  Slow = {1, 2}
  ChanCap = 1
INVARIANTS
  AuthGate
PROPERTIES
  Quiesces
CHECK_DEADLOCK FALSE
