SPECIFICATION Spec
CONSTANTS
  Sizes <- TwoSizes
  MaxClicks = 2
  MaxAttempts = 2
INVARIANTS
  OneReader
  MenuFollows
  NoPanic
PROPERTIES
  Progresses
CHECK_DEADLOCK FALSE
