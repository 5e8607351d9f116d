SPECIFICATION FairSpec
CONSTANTS
  Cameras = {a}
  Workers = 2
  Stops = {s1}
  StopAnyTime = TRUE

PROPERTIES StoppedIsFinal
CHECK_DEADLOCK FALSE
