SPECIFICATION Spec
CONSTANTS
  PlayerIds = {1, 2}
  Params <- TwoSizes
  AuthModes = {FALSE}
  HasInfo = TRUE
  Launched = TRUE
  MaxGames = 2
  MaxCells = 4
  MaxMoves = 2
  MaxTokens = 0
  MaxLeaves = 0
  MaxRequests = 4
  MaxBusy = 1
  MaxLag = 1
  Slow = {2}
  ChanCap = 1
INVARIANTS
  TypeOK
  Agreement
  ScreensAgree
CHECK_DEADLOCK FALSE
