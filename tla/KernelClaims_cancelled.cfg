SPECIFICATION Spec
CONSTANTS
  AgentIds = {a1}
  TaskIds = {t1, t2}
  NoEntry = NoEntry
  max_agents = 1
  max_concurrent = 1
  ToolCallLimits = {1}
  CallsPerReply = {1}
  SubmitStates = {"Pending"}
  Estimate = 1
  hard_limit = 3
  priority_reserve = 1
  JournalOverflows = FALSE
  MaxSubmissions = 2
PROPERTY CancelledStaysCancelled
