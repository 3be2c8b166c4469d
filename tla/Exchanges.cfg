CONSTANTS
  p1 = p1
  p2 = p2
  None = None
  Procs <- TwoProcs
  MaxOps = 1
  MaxSends = 1
  NumIDs = 2
  Cap = 1
  RemoteIDs = {0}
  MaxRemote = 3
  MaxDups = 1
SPECIFICATION FairSpec
INVARIANTS RoutedByKey NoLeaks OwnAnswers
PROPERTY LossUnblocks
CHECK_DEADLOCK FALSE
