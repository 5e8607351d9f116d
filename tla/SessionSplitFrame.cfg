SPECIFICATION FairSpec
CONSTANTS
  Protocols = {"3.3"}
  RtcModes = {"direct"}
  CameraAddrs = {a1}
  LifecycleFrames = 2
  MaxInterrupts = 0
  MaxQueued = 2
  MaxOddities = 1
PROPERTIES SlicesLoseNothing
CHECK_DEADLOCK FALSE
