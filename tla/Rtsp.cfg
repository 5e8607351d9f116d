SPECIFICATION FairSpec
CONSTANTS
  Conns = {c1, c2}
  Pubs = {p1, p2}
  PathOf <- OnePath
  QueueSize = 2
  Stalling = {}
  Wide = {c2}
  LateAccept = FALSE
  MaxChunks <- FirstOnly
INVARIANTS TypeOK UnpublishedIsSilent NothingAfterStop EveryPictureDecodable
PROPERTIES StopReturns
CHECK_DEADLOCK FALSE
