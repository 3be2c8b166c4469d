CONSTANTS
  s1 = s1
  s2 = s2
  Senders <- OneSender
  SeqMod = 4
  WindowSize = 2
  MaxSegs = 3
  PeerSegs = 2
  Buffer = 1
  MaxSend = 1
  MaxRecv = 2
  Faults = {"write", "lose"}
SPECIFICATION FairSpec
PROPERTIES InboundFifo AcksArrive MessagesArrive
CHECK_DEADLOCK FALSE
