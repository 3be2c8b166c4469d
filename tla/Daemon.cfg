CONSTANTS
  p1 = p1
  p2 = p2
  n1 = n1
  f1 = f1
  f2 = f2
  Absent = Absent
  None = None
  Procs <- TwoProcs
  Nodes = {n1}
  Fabrics = {f1}
  Addrs = {1, 2}
  Commands = {"op", "rename", "remove", "stop"}
  MaxMoves = 1
  Flaky = TRUE
SPECIFICATION FairSpec
INVARIANTS CachedIsOpen FailedNotReused
PROPERTY Answered
CHECK_DEADLOCK FALSE
