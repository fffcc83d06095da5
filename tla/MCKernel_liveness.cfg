SPECIFICATION FairSpec
CONSTANTS
  AgentIds = {a1}
  TaskIds = {t1, t2}
  NoEntry = NoEntry
  max_agents = 1
  max_concurrent = 1
  ToolCallLimits = {0, 2}
  CallsPerReply = {1, 2}
  SubmitStates = {"Pending", "Completed"}
  Estimate = 2
  hard_limit = 3
  priority_reserve = 1
  JournalOverflows = TRUE
  MaxSubmissions = 2
INVARIANT RunningIsJournaled
PROPERTIES
  DispatchedTasksSettle QueueIsServed ShutdownStopsLoop
