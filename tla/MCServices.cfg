SPECIFICATION ServicesSpec
CONSTANTS
  k1 = k1
  k2 = k2
  k3 = k3
  o1 = o1
  o2 = o2
  g1 = g1
  ChunkIds = {k1, k2, k3}
  Terms = {"term"}
  TopKs = {1, 3}
  Thresholds <- MCThresholds
  DefaultTiers <- MCDefaultTiers
  MaxHits = 2
  MaxRestores = 1
  hard_limit = 4
  priority_reserve = 2
  window_duration = 2
  Requests = {1, 3}
  MaxConsumed = 5
  MaxEntries = 4
  Outputs = {o1, o2}
  Spent = {1, 3}
  CandidateLists <- MCCandidateLists
  MinConfidence = 2
  MaxConcurrent = 2
  InitialBudget = 4
  Additions = {1}
  MaxBranches = 3
  MaxGiven = 5
  MaxLate = 1
  DriverLists <- MCDriverLists
  LlmTasks <- MCLlmTasks
  Scripts <- MCScripts
  Modes = {"Fallback", "Pipeline"}
  Pieces = {1, 2, 7}
  SystemId = SystemId
  Missing = Missing
  BadId = BadId
  WireAgents <- MCWireAgents
  WireTasks <- MCWireTasks
  WireIntents <- MCWireIntents
  WireChunks <- MCWireChunks
  WireGrants <- MCWireGrants
  KernelErrors = {"AgentNotFound", "Timeout", "DelegationError", "NotImplemented", "ResourceExhausted", "IntentRoutingError"}
SYMMETRY Symmetry
INVARIANTS
  IndexExact TiersBounded
  TokensConserved MergeExact
  ToolCallsWhole FallbackFaithful
  RelayStable
PROPERTIES
  GrantsWithinBudget RateLimited WindowNeverBinds
CHECK_DEADLOCK FALSE
