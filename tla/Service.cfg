SPECIFICATION FairSpec
CONSTANTS
  Cameras = {a, b, c}
  Workers = 2
  Stops = {s1, s2}
  StopAnyTime = FALSE
INVARIANTS TypeOK Serving StreamsOutliveSessions AllReleased
PROPERTIES CleanupEnds
CHECK_DEADLOCK FALSE
