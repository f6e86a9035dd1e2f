CONSTANTS
  LastTier = 3
  GuardInterval = 4
  MaxBatch = 2
  QueueCap = 3
  MuxTiers = 2
  MuxInterval = 2
  MuxBatch = 2
  MaxMessages = 2
  MaxArrivals = 2
  MaxOffers = 3
  MaxWaits = 2
  MaxAttempts = 2
  MaxConnects = 3
  MaxSockets = 3
  MaxSends = 3
  MaxStreams = 3
  MaxReconnectAttempts = 2
  MaxConns = 2
  MaxFaults = 4
  MaxMissed = 2
  MaxAppearances = 3
  MaxUnderWay = 1
  Types = {"webrtc", "ws"}
  MaxRetries = 2
  MaxCalls = 3
SPECIFICATION MCSpec
INVARIANTS StarvationBound WholeOnceInOrder
INVARIANTS TransportStateIsTrue SessionsMatch
PROPERTIES ImplementsScheduler ClosedStaysClosed TransportsSettle
CHECK_DEADLOCK FALSE
