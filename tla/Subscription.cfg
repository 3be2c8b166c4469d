CONSTANTS
  MaxCycles = 2
  MaxChunks = 2
  Faults = 1
  Count = 3
  Cap = 1
SPECIFICATION FairSpec
INVARIANTS InOrder WholeCycles
PROPERTY CommandEnds
CHECK_DEADLOCK FALSE
