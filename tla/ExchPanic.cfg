CONSTANTS
  p1 = p1
  p2 = p2
  None = None
  Procs <- TwoProcs
  MaxOps = 1
  MaxSends = 1
  NumIDs = 3
  Cap = 1
  RemoteIDs = {}
  MaxRemote = 0
  MaxDups = 1
SPECIFICATION Spec
INVARIANT NoPanic
CHECK_DEADLOCK FALSE
