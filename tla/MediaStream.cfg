SPECIFICATION FairSpec
CONSTANTS
  Subscribers = {s1, s2}
  QueueSize = 2
  MaxChunks = 3
INVARIANTS TypeOK ChunksInOrder OnlyOverflowDrops EndSurvives
PROPERTIES CloseEndsIteration
CHECK_DEADLOCK FALSE
