SPECIFICATION FairSpec
CONSTANTS
  Cameras = {a, b}
  Workers = 2
  Stops = {s1}
  StopAnyTime = FALSE

PROPERTIES FailedStreamEnds
CHECK_DEADLOCK FALSE
