CONSTANTS
  s1 = s1
  s2 = s2
  Senders <- TwoSenders
  SeqMod = 4
  WindowSize = 2
  MaxSegs = 2
  PeerSegs = 2
  Buffer = 1
  MaxSend = 2
  MaxRecv = 1
  Faults = {"write", "lose", "cancel", "close"}
SPECIFICATION Spec
SYMMETRY Symmetry
INVARIANTS SequentialWrites ValidAcks
CHECK_DEADLOCK FALSE
