SPECIFICATION Spec
CONSTANTS
  AgentIds = {a1, a2}
  TaskIds = {t1, t2}
  NoEntry = NoEntry
  max_agents = 2
  max_concurrent = 1
  ToolCallLimits = {1}
  CallsPerReply = {1}
  SubmitStates = {"Pending"}
  Estimate = 2
  hard_limit = 5
  priority_reserve = 1
  JournalOverflows = FALSE
  MaxSubmissions = 3
SYMMETRY Symmetry
INVARIANTS
  TypeOK SlotAccounting QueueRefersToKnown NoLostTask CancelledNotQueued
  RunningIsJournaled ProcessTracksAgent AtMostOnce CountersAgree
PROPERTIES
  KeepsTickets
