SPECIFICATION SearchSpec
CONSTANTS
  PlayerIds = {1, 2}
  Params <- AllParams
  MaxCoord = 2
  MaxScore = 3
INVARIANTS
  TypeOK
  CountMatches
  MarksMatch
  ScoresAddUp
  FloodOnTrack
PROPERTIES
  WonIffCleared
  MinesOnlyBlown
  FloodComplete
  UpdatesSuffice
  FloodDescends
  ImplementsGame
