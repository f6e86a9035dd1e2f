CONSTANTS
  Keys = {"k1", "k2"}
  Authors = {1, 2}
  TrustPods = 3
  TrustTime = 2
  GrantPods = 2
  GrantTime = 1
  MaxWrites = 1
  MaxPushes = 1
  PlanSet = {"p1", "p2"}
  MaxPlans = 1
  Parties = {"a", "b"}
  Deposit = 2
  MaxPays = 3
  UnsignedOpens = 2
  SignedOpens = 1
  TaskSet = {1, 2, 3}
  NodeSet = {"x", "y"}
  Choosy = {3}
  Few = {"y"}
  MaxTasks = 2
  MaxTries = 2
  MaxReports = 2
  MaxRestarts = 1
  CallerSet = {"a", "b"}
  Busy = {"a"}
  MaxInflight = 2
  MaxIncoming = 2
  MaxIncomingPerPeer = 1
  VoterSet = {"a", "b", "c"}
  Proposer = "a"
  Heavy = {"a"}
  Fickle = {"c"}
  Choices = 2
  Quorums = {2}
  MaxChanges = 1
SPECIFICATION Spec
INVARIANTS KvConvergence CompletedWasVerified PaymentsAndVotesAddUp
PROPERTIES KvWritesGrantedAndNewer TasksWithinLimits CallsAreExact AppsSettle
CHECK_DEADLOCK FALSE
