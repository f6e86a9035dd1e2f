CONSTANTS
  Pod = {p1, p2, p3}
  Newcomer = {}
  IndirectPingCount = 0
  MaxInFlight = 2
  MaxSpurious = 0
  MaxLost = 0
  MaxCrashes = 1
  MaxLeaves = 0
  MaxStops = 0
SPECIFICATION FairSpec
PROPERTY CrashIsNoticed
CHECK_DEADLOCK FALSE
