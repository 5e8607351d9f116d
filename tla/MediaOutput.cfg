SPECIFICATION FairSpec
CONSTANTS
  MaxBytes = 3
  MaxNals = 5
  MaxFragments = 2
  MaxLost = 1
  LenOf <- Lengths
INVARIANTS TypeOK NothingGarbled NothingMixed NoMissedWakeup PlayerReaped
PROPERTIES CloseEnds
CHECK_DEADLOCK FALSE
