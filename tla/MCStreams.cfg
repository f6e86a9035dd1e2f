SPECIFICATION MCSpec
INVARIANT FlowControl
INVARIANT DeliveredInOrderAndWhole
INVARIANT NoOrphanStream
PROPERTY CloseReachesPeer
CONSTANTS
  Stream = {s1}
  TwoStreams = {s1, s2}
  InitialCredits = 0
  MaxCredits = 2
  MaxConcurrent = 1
  MaxSize = 2
  MaxWrites = 2
  Total = 2
  MaxArrivals = 2
  MaxAccepts = 2
CHECK_DEADLOCK FALSE
