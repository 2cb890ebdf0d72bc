SPECIFICATION Spec
CONSTANTS
  ann = ann
  bob = bob
  one = one
  two = two
  long = long
  p1 = p1
  p2 = p2
  Players = {p1, p2}
  Names = {ann, bob}
  Passwords = {one, two, long}
  TooLong = {long}
  ChanCap = 1
  IdSpace = 8
  MaxRequests = 4
  MaxFailures = 1
  MaxSetups = 2
SYMMETRY Symmetry
INVARIANTS
  OnePlayerPerName
  RegisteredCanLogin
  HeldAsSent
  SetupHonest
CHECK_DEADLOCK FALSE
