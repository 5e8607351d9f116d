SPECIFICATION Spec
CONSTANTS
  ClockMod = 256
  Starts = {240}
  Interval = 4
  Slap = 10
  MinRto = 4
  DefRto = 8
  MaxRto = 12
  Resend = 2
  NodelayModes = {TRUE, FALSE}
  ProbeInit = 5
  ProbeLimit = 6
  SndWnd = 2
  Gaps = {3, 11}
  MaxTime = 22
  MaxSegments = 2
  MaxAcks = 3
INVARIANTS TypeOK ResentInTime ProbedInTime
PROPERTIES NeverEarly
CHECK_DEADLOCK FALSE
