CONSTANTS
  h1 = h1
  h2 = h2
  pa = pa
  ch = ch
  None = None
  a = a
  b = b
  c = c
  Pods = {a, b, c}
  Founder = a
  Founders = {a, b}
  MaxEpochHistory = 2
  MaxKeys = 4
  Hosts = {h1, h2}
  MaxRestarts = 2
  MaxConcurrent = 1
  MaxTasks = 2
  MaxEvents = 3
  NPods = 3
  Bootstrappers = {1}
  MaxAt = 2
  MaxRecords = 3
  Watched = {a, b}
  Preference = b
  MaxMissed = 2
  Items = 2
  MaxRuns = 1
  Auditors = {a, b}
  MaxAppends = 4
  Contracts = {"c1", "c2"}
  Payer = a
  Payee = b
  Amount = 2
  Funds = 4
  Writer = a
  Reader = b
  Chunks = {"k1", "k2"}
  MaxFetches = 2
  MaxCalls = 3
  MaxSpawns = 2
  Names = {a, b}
  MaxPageSpawns = 2
SPECIFICATION MCSpec
INVARIANTS RestartsAndFailoversAreDue EscrowBalances KeysStayWithMembers LogsAreTrue ChunkReportsAreTrue
PROPERTIES HostsHoldTheirPods RestartsEndAndKeysArrive
CHECK_DEADLOCK FALSE
