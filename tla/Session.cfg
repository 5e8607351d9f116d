SPECIFICATION FairSpec
CONSTANTS
  Protocols = {"3.3", "3.4"}
  RtcModes = {"direct", "preconnect"}
  CameraAddrs = {a1}
  LifecycleFrames = 2
  MaxInterrupts = 2
  MaxQueued = 1
  MaxOddities = 1
INVARIANTS TypeOK OnePath PreviewNeedsCamera StartedIsDisconnected OwnedIsReleased
PROPERTIES ImplementsContract
CHECK_DEADLOCK FALSE
