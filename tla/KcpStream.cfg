SPECIFICATION FairSpec
CONSTANTS
  SnMod = 64
  PacketLife = 8
  SndWnd = 2
  RcvWnd = 2
  MaxFragments = 2
  MaxChunks = 3
  MaxFaults = 2
  MaxNet = 2
INVARIANTS TypeOK InOrderExactlyOnce NothingForgotten
PROPERTIES EdgesAdvance ImplementsStream EverythingAcknowledged
CHECK_DEADLOCK FALSE
