SPECIFICATION FairSpec
CONSTANTS
  Conns = {c1}
  Pubs = {p1}
  PathOf <- TwoPaths
  QueueSize = 1
  Stalling = {}
  Wide = {}
  LateAccept = TRUE
  MaxChunks <- Silent
PROPERTIES NoneSurvivesStop
CHECK_DEADLOCK FALSE
