SPECIFICATION Spec
CONSTANTS
  PlayerIds = {1, 2}
  Params <- OneCell
  AuthModes = {FALSE}
  HasInfo = FALSE
  Launched = FALSE
  MaxGames = 1
  MaxCells = 1
  MaxMoves = 1
  MaxTokens = 0
  MaxLeaves = 0
  MaxRequests = 2
  MaxBusy = 1
  MaxLag = 0
  Slow = {}
  ChanCap = 1
INVARIANTS
  ServerUp
CHECK_DEADLOCK FALSE
