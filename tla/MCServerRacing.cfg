SPECIFICATION Spec
CONSTANTS
  PlayerIds = {1, 2}
  Params <- TwoCells
  AuthModes = {FALSE}
  HasInfo = TRUE
  Launched = TRUE
  MaxGames = 2
  MaxCells = 2
  MaxMoves = 2
  MaxTokens = 0
  MaxLeaves = 0
  MaxRequests = 4
  MaxBusy = 2
  MaxLag = 0
  Slow = {}
  ChanCap = 1
INVARIANTS
  RevealsConverge
  EndsOnce
  ClientsSurvive
PROPERTIES
  MovesAtomic
CHECK_DEADLOCK FALSE
