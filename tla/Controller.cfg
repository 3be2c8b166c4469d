CONSTANTS
  d1 = d1
  d2 = d2
  None = None
  Nodes = {d1, d2}
  FabricOf <- MCFabricOf
  Passcode <- MCPasscode
  OurFabric = "f1"
  Addrs = {"a1", "a2"}
  Target = d1
  UserCode = "c1"
  Home = "a1"
  Plans = {"case", "pase", "ble"}
  NumSIDs = 2
  MaxBLE = 2
  MaxCASE = 2
  MaxMoves = 1
  MaxRepeats = 1
  MaxRejects = 1
SPECIFICATION FairSpec
INVARIANTS OneReader SharedWithPeer NothingHalfOpen Secured
PROPERTY CallerEnds
CHECK_DEADLOCK FALSE
