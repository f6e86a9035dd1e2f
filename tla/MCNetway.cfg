CONSTANTS
  Tcp = {o1}
  Listen = {o2}
  Udp = {o3}
  Dns = {o4}
  MaxQueue = 2
  MaxDrains = 2
  MaxInbound = 1
  FirstEphemeral = 2
  LastEphemeral = 3
  QueueSize = 1
  MaxBinds = 3
  MaxConns = 3
  MaxWrites = 3
  HighWaterMark = 2
  MaxChunks = 3
  MaxMessages = 2
  PipeMark = 2
  PipeChunks = 4
  PipeReads = 2
SPECIFICATION Spec
INVARIANTS GatewayAnswerDecides LoopbackExact ChannelsKeepOrder
PROPERTIES GatewaySettles ClosesCross
CHECK_DEADLOCK FALSE
