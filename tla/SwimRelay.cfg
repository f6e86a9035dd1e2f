CONSTANTS
  Pod = {p1, p2, p3}
  Newcomer = {}
  IndirectPingCount = 1
  MaxInFlight = 2
  MaxSpurious = 1
  MaxLost = 0
  MaxCrashes = 1
  MaxLeaves = 0
  MaxStops = 0
SPECIFICATION Spec
INVARIANT PingAckMeansAnswer
CHECK_DEADLOCK FALSE
