------------------------------- MODULE Kernel -------------------------------
(***************************************************************************)
(* The agent kernel of crates/lak-services/src/kernel.rs: agent lifecycle, *)
(* cognitive tasks, the ready queue and slot count of the scheduler, and   *)
(* the background execution loop, with the calls of gRPC clients           *)
(* interleaved between the loop's critical sections.                       *)
(*                                                                         *)
(* One tokio RwLock guards the whole KernelState.  A client call that      *)
(* writes is one critical section, hence one action; the loop takes and    *)
(* releases the lock once per phase, hence one action per phase.  While    *)
(* the loop waits for the language model it holds the lock for reading, so *)
(* no writer runs: that wait is the control point "AwaitLlm".              *)
(*                                                                         *)
(* Kept out of this module: capabilities, memory, the intent router with   *)
(* its mailboxes, tool statistics and token counts, and prompt texts.  The *)
(* journal is seen through in_flight_tasks: the target of the last         *)
(* transition of each task that the journal still holds.                   *)
(***************************************************************************)
EXTENDS Integers, FiniteSets

CONSTANTS
  AgentIds,         \* ids that create_agent may generate (fresh UUIDs)
  TaskIds,          \* task ids that clients put into the tasks they submit
  NoEntry,          \* the loop holds no task
  max_agents,       \* KernelService::max_agents
  max_concurrent,   \* CognitiveScheduler::max_concurrent
  ToolCallLimits,   \* values of max_tool_calls_per_task in agent specs
  CallsPerReply,    \* numbers of tool calls a model reply may ask for
  SubmitStates,     \* task states that clients put into the tasks they submit
  Estimate,         \* tokens charged for a submission (512)
  hard_limit,       \* TokenBudget::hard_limit
  priority_reserve, \* TokenBudget::priority_reserve
  JournalOverflows, \* TRUE: the journal has outgrown its max_entries (10_000),
                    \* and every append drops its oldest entries
  MaxSubmissions    \* bound of the model: accepted submissions in a behaviour

AgentStates == {"Created", "Initializing", "Running", "Idle", "Blocked",
                "Suspended", "Sleeping", "Terminated"}
TaskStates == {"Pending", "Ready", "Running", "Blocked", "AwaitingLLM",
               "AwaitingTool", "AwaitingIntent", "Suspended",
               "Completed", "Failed", "Cancelled"}
TerminalStates == {"Completed", "Failed", "Cancelled"}
Absent == "Absent"  \* the id is not a key of the map

\* A ScheduledTask: the seq-th task ever submitted, with the ids copied into it.
Entries == [seq: 1..MaxSubmissions, task: TaskIds, agent: AgentIds]

ASSUME KernelAssumption ==
  /\ NoEntry \notin Entries
  /\ IsFiniteSet(AgentIds)
  /\ max_agents \in Nat
  /\ max_concurrent \in Nat \ {0}
  /\ ToolCallLimits \subseteq Nat
  /\ CallsPerReply \subseteq Nat \ {0}
  /\ SubmitStates \subseteq TaskStates
  /\ Estimate \in Nat \ {0}
  /\ hard_limit \in Nat
  /\ priority_reserve \in Nat
  /\ JournalOverflows \in BOOLEAN
  /\ MaxSubmissions \in Nat

VARIABLES
  agentState,       \* agents[a].agent.state, or Absent
  processState,     \* agents[a].process.state, or Absent
  callLimit,        \* agents[a].agent.spec.config.max_tool_calls_per_task
  consumed,         \* agents[a].token_budget.consumed
  stats,            \* agents[a].process.stats: tasks completed and failed
  taskState,        \* tasks[t].state, or Absent
  taskAgent,        \* tasks[t].agent_id, or Absent
  journal,          \* target of the last transition of t in the journal, or Absent
  ready,            \* scheduler.ready_queue
  running_count,    \* scheduler.running_count
  total_submitted,  \* scheduler.total_submitted
  total_completed,  \* scheduler.total_completed
  completed_tasks_total,
  shutdown,         \* the shutdown flag
  pc,               \* where the execution loop is
  cur,              \* the entry the loop works on
  safety_cap,       \* local variables of the loop's current task
  round,
  pending_calls,    \* tool calls of the last reply not yet executed
  outcome           \* pipeline_result: "Ok" or "Err"

agentVars == <<agentState, processState, callLimit, consumed, stats>>
taskVars  == <<taskState, taskAgent, journal>>
schedVars == <<ready, running_count, total_submitted, total_completed>>
localVars == <<safety_cap, round, pending_calls, outcome>>
loopVars  == <<pc, cur, localVars>>
vars == <<agentVars, taskVars, schedVars, completed_tasks_total, shutdown,
          loopVars>>

agents == {a \in AgentIds : agentState[a] # Absent}
tasks  == {t \in TaskIds : taskState[t] # Absent}
Live(t) == taskState[t] \notin TerminalStates \cup {Absent}
Held == ready \cup ({cur} \ {NoEntry})  \* queued or being worked on
Queued(t) == \E e \in ready : e.task = t
Holds(t) == cur # NoEntry /\ cur.task = t

Minimum(m, n) == IF m <= n THEN m ELSE n

(***************************************************************************)
(* append, as in_flight_tasks will see it: nothing new, but when the       *)
(* journal overflows the entries it drops may hold the last transitions of *)
(* any tasks, in flight or not (Journal.tla models the log itself).        *)
(***************************************************************************)
Appended ==
  LET Dropped == IF JournalOverflows THEN SUBSET TaskIds ELSE {{}}
  IN  {[t \in TaskIds |-> IF t \in D THEN Absent ELSE journal[t]] : D \in Dropped}

Journaled_Skipped(t, to) == Appended
Journaled_NotAgain(t, to) ==
  {IF journal[t] \in TerminalStates THEN log ELSE [log EXCEPT ![t] = to] :
     log \in Appended}
\* record_transition(t, _, _, to).
Journaled(t, to) == {[log EXCEPT ![t] = to] : log \in Appended}

\* The loop's read lock on the state is the only one held across a step.
WriteLockFree == pc # "AwaitLlm"

Init ==
  /\ agentState = [a \in AgentIds |-> Absent]
  /\ processState = [a \in AgentIds |-> Absent]
  /\ callLimit = [a \in AgentIds |-> 0]
  /\ consumed = [a \in AgentIds |-> 0]
  /\ stats = [a \in AgentIds |-> [completed |-> 0, failed |-> 0]]
  /\ taskState = [t \in TaskIds |-> Absent]
  /\ taskAgent = [t \in TaskIds |-> Absent]
  /\ journal = [t \in TaskIds |-> Absent]
  /\ ready = {}
  /\ running_count = 0
  /\ total_submitted = 0
  /\ total_completed = 0
  /\ completed_tasks_total = 0
  /\ shutdown = FALSE
  /\ pc = "Head"
  /\ cur = NoEntry
  /\ safety_cap = 0
  /\ round = 0
  /\ pending_calls = 0
  /\ outcome = "Ok"

-----------------------------------------------------------------------------
(* Client calls.  Each runs in one critical section of the write lock.     *)

CreateAgent(a, limit) ==
  /\ WriteLockFree
  /\ a \notin agents
  /\ Cardinality(agents) < max_agents
  /\ agentState' = [agentState EXCEPT ![a] = "Created"]
  /\ processState' = [processState EXCEPT ![a] = "Created"]
  /\ callLimit' = [callLimit EXCEPT ![a] = limit]
  /\ UNCHANGED <<consumed, stats, taskVars, schedVars, completed_tasks_total,
                 shutdown, loopVars>>

WithoutTasks_Nothing(T) == ready
WithoutTasks_Everything(T) == {}
WithoutTasks_Oldest(T) ==
  {e \in ready : \/ e.task \notin T
                \/ \E d \in ready : d.task \in T /\ d.seq < e.seq}
\* The ready queue without the entries of the tasks in T (scheduler.cancel).
WithoutTasks(T) == {e \in ready : e.task \notin T}

\* The cancelled tasks are not journaled.
DestroyAgent(a) ==
  LET owned == {t \in TaskIds : Live(t) /\ taskAgent[t] = a}
  IN  /\ WriteLockFree
      /\ a \in agents
      /\ agentState' = [agentState EXCEPT ![a] = "Terminated"]
      /\ processState' = [processState EXCEPT ![a] = "Terminated"]
      /\ taskState' = [t \in TaskIds |->
                          IF t \in owned THEN "Cancelled" ELSE taskState[t]]
      /\ ready' = WithoutTasks(owned)
      /\ UNCHANGED <<callLimit, consumed, stats, taskAgent, journal,
                     running_count, total_submitted, total_completed,
                     completed_tasks_total, shutdown, loopVars>>

\* Whatever the agent's state is, Terminated included.
PauseAgent(a) ==
  /\ WriteLockFree
  /\ a \in agents
  /\ agentState' = [agentState EXCEPT ![a] = "Suspended"]
  /\ processState' = [processState EXCEPT ![a] = "Suspended"]
  /\ UNCHANGED <<callLimit, consumed, stats, taskVars, schedVars,
                 completed_tasks_total, shutdown, loopVars>>

ResumeAgent_ToRunning(a) ==
  /\ WriteLockFree
  /\ a \in agents
  /\ agentState' = [agentState EXCEPT ![a] = "Running"]
  /\ UNCHANGED <<processState, callLimit, consumed, stats, taskVars, schedVars,
                 completed_tasks_total, shutdown, loopVars>>

ResumeAgent(a) ==
  /\ WriteLockFree
  /\ a \in agents
  /\ agentState' = [agentState EXCEPT ![a] = "Idle"]
  /\ processState' = [processState EXCEPT ![a] = "Running"]
  /\ UNCHANGED <<callLimit, consumed, stats, taskVars, schedVars,
                 completed_tasks_total, shutdown, loopVars>>

Grant_NoHardLimit(a, is_priority) == Estimate
(***************************************************************************)
(* check_allocation(Estimate, priority) as submit_task uses it.  Nothing   *)
(* in the kernel refunds or resets a budget, so the rolling window, whose  *)
(* cap is the hard limit, never binds before the hard limit does           *)
(* (TokenBudget.tla checks that); what is left is the grant below, and 0   *)
(* is a denial.                                                            *)
(***************************************************************************)
Grant(a, is_priority) ==
  LET remaining == hard_limit - consumed[a]
      available == IF is_priority THEN remaining
                   ELSE IF remaining <= priority_reserve THEN 0
                   ELSE remaining - priority_reserve
  IN  Minimum(Estimate, available)

Accepts_UnknownAgent(a, is_priority) == Grant(a, is_priority) > 0
\* The checks of submit_task: the agent exists and its budget has tokens left.
Accepts(a, is_priority) == a \in agents /\ Grant(a, is_priority) > 0

(***************************************************************************)
(* Clients choose the task's id, agent, state and priority.  An id that is *)
(* known already gets its record overwritten and a further queue entry.  A *)
(* denied submission changes nothing.  The journal gets an entry, which is *)
(* not a transition.  The agent is activated only when it is Idle;         *)
(* whatever its state, the task is accepted.                               *)
(***************************************************************************)
SubmitTask(t, a, s, is_priority) ==
  /\ WriteLockFree
  /\ total_submitted < MaxSubmissions
  /\ Accepts(a, is_priority)
  /\ consumed' = [consumed EXCEPT ![a] = @ + Grant(a, is_priority)]
  /\ total_submitted' = total_submitted + 1
  /\ ready' = ready \cup {[seq |-> total_submitted + 1, task |-> t, agent |-> a]}
  /\ taskState' = [taskState EXCEPT ![t] = s]
  /\ taskAgent' = [taskAgent EXCEPT ![t] = a]
  /\ journal' \in Appended
  /\ IF agentState[a] = "Idle"
     THEN /\ agentState' = [agentState EXCEPT ![a] = "Running"]
          /\ processState' = [processState EXCEPT ![a] = "Running"]
     ELSE UNCHANGED <<agentState, processState>>
  /\ UNCHANGED <<callLimit, stats, running_count, total_completed,
                 completed_tasks_total, shutdown, loopVars>>

\* Whatever the task's state is, terminal states included.
CancelTask(t) ==
  /\ WriteLockFree
  /\ t \in tasks
  /\ taskState' = [taskState EXCEPT ![t] = "Cancelled"]
  /\ ready' = WithoutTasks({t})
  /\ journal' \in Journaled(t, "Cancelled")
  /\ UNCHANGED <<agentVars, taskAgent, running_count, total_submitted,
                 total_completed, completed_tasks_total, shutdown, loopVars>>

\* send_intent, journaled under a fresh task id; the routing of the intent is
\* IntentRouter's.
SendIntent ==
  /\ WriteLockFree
  /\ journal' \in Appended
  /\ UNCHANGED <<agentVars, taskState, taskAgent, schedVars,
                 completed_tasks_total, shutdown, loopVars>>

\* The flag is atomic: no lock is taken.
Shutdown ==
  /\ shutdown' = TRUE
  /\ UNCHANGED <<agentVars, taskVars, schedVars, completed_tasks_total, loopVars>>

-----------------------------------------------------------------------------
(* The execution loop.                                                     *)

KeepRunning_Always == TRUE
\* while !shutdown
KeepRunning == ~shutdown

LoopHead ==
  /\ pc = "Head"
  /\ pc' = IF KeepRunning THEN "Dequeue" ELSE "Stopped"
  /\ UNCHANGED <<agentVars, taskVars, schedVars, completed_tasks_total,
                 shutdown, cur, localVars>>

Popped_Peek(e) == ready
\* BinaryHeap::pop
Popped(e) == ready \ {e}

(***************************************************************************)
(* Phase 1: schedule_next.  The heap orders entries by a score that grows  *)
(* with waiting time, so any entry may be on top: the choice is open here  *)
(* (Scheduler.tla models the heap).                                        *)
(***************************************************************************)
Dequeue(e) ==
  /\ pc = "Dequeue"
  /\ running_count < max_concurrent
  /\ e \in ready
  /\ ready' = Popped(e)
  /\ running_count' = running_count + 1
  /\ cur' = e
  /\ pc' = "Prepare"
  /\ UNCHANGED <<agentVars, taskVars, total_submitted, total_completed,
                 completed_tasks_total, shutdown, localVars>>

\* schedule_next has nothing to give: sleep for the poll interval.
PollAgain ==
  /\ pc = "Dequeue"
  /\ running_count >= max_concurrent \/ ready = {}
  /\ pc' = "Head"
  /\ UNCHANGED <<agentVars, taskVars, schedVars, completed_tasks_total,
                 shutdown, cur, localVars>>

(***************************************************************************)
(* Phase 2: mark the task Running, whatever its state is by now, and       *)
(* journal it.  The code skips a task that vanished from the map without   *)
(* giving the slot back; QueueRefersToKnown shows that never happens.      *)
(***************************************************************************)
Prepare ==
  /\ pc = "Prepare"
  /\ cur.task \in tasks
  /\ taskState' = [taskState EXCEPT ![cur.task] = "Running"]
  /\ journal' \in Journaled(cur.task, "Running")
  /\ pc' = "Configure"
  /\ UNCHANGED <<agentVars, taskAgent, schedVars, completed_tasks_total,
                 shutdown, cur, localVars>>

\* Phase 3, under a read lock of its own: read the agent's round limit.
Configure ==
  /\ pc = "Configure"
  /\ safety_cap' = Minimum(callLimit[cur.agent], 10)
  /\ round' = 0
  /\ pc' = "Think"
  /\ UNCHANGED <<agentVars, taskVars, schedVars, completed_tasks_total,
                 shutdown, cur, pending_calls, outcome>>

\* The rounds are used up: the pipeline ends well with what it has.
RoundsExhausted ==
  /\ pc = "Think"
  /\ round >= safety_cap
  /\ outcome' = "Ok"
  /\ pc' = "WriteBack"
  /\ UNCHANGED <<agentVars, taskVars, schedVars, completed_tasks_total,
                 shutdown, cur, safety_cap, round, pending_calls>>

RoundAfter_Stuck == round
RoundAfter == round + 1

\* Take the read lock and call the language model.
AskLlm ==
  /\ pc = "Think"
  /\ round < safety_cap
  /\ round' = RoundAfter
  /\ pc' = "AwaitLlm"
  /\ UNCHANGED <<agentVars, taskVars, schedVars, completed_tasks_total,
                 shutdown, cur, safety_cap, pending_calls, outcome>>

\* All drivers failed, or the answer asks for no tool: the pipeline ends.
LlmEnds(result) ==
  /\ pc = "AwaitLlm"
  /\ outcome' = result
  /\ pc' = "WriteBack"
  /\ UNCHANGED <<agentVars, taskVars, schedVars, completed_tasks_total,
                 shutdown, cur, safety_cap, round, pending_calls>>

LlmAsksForTools(n) ==
  /\ pc = "AwaitLlm"
  /\ pending_calls' = n
  /\ pc' = "Tools"
  /\ UNCHANGED <<agentVars, taskVars, schedVars, completed_tasks_total,
                 shutdown, cur, safety_cap, round, outcome>>

\* execute_tool, under the write lock; its result, good or bad, goes back
\* to the model as text.
ExecuteTool ==
  /\ pc = "Tools"
  /\ pending_calls' = pending_calls - 1
  /\ pc' = IF pending_calls = 1 THEN "Think" ELSE "Tools"
  /\ UNCHANGED <<agentVars, taskVars, schedVars, completed_tasks_total,
                 shutdown, cur, safety_cap, round, outcome>>

SlotsAfterComplete_Leak == running_count
\* scheduler.complete: a saturating decrement.
SlotsAfterComplete == IF running_count = 0 THEN 0 ELSE running_count - 1

StatsAfter_AllCompleted(a, ok) == [stats EXCEPT ![a].completed = @ + 1]
\* record_task_completion or record_task_failure of the agent's process.
StatsAfter(a, ok) == IF ok THEN [stats EXCEPT ![a].completed = @ + 1]
                           ELSE [stats EXCEPT ![a].failed = @ + 1]

(***************************************************************************)
(* Phase 4: the record, the agent, the journal and the slot, in one        *)
(* critical section and whatever happened to task and agent meanwhile.     *)
(***************************************************************************)
WriteBack ==
  LET ok == outcome = "Ok"
      final == IF ok THEN "Completed" ELSE "Failed"
      a == cur.agent
  IN  /\ pc = "WriteBack"
      /\ taskState' = [taskState EXCEPT ![cur.task] = final]
      /\ journal' \in Journaled(cur.task, final)
      /\ agentState' = [agentState EXCEPT ![a] = "Idle"]
      /\ stats' = StatsAfter(a, ok)
      /\ completed_tasks_total' = completed_tasks_total + IF ok THEN 1 ELSE 0
      /\ running_count' = SlotsAfterComplete
      /\ total_completed' = total_completed + 1
      /\ pc' = "Head"
      /\ cur' = NoEntry
      /\ safety_cap' = 0
      /\ round' = 0
      /\ pending_calls' = 0
      /\ outcome' = "Ok"
      /\ UNCHANGED <<processState, callLimit, consumed, taskAgent, ready,
                     total_submitted, shutdown>>

-----------------------------------------------------------------------------
ClientCall ==
  \/ \E a \in AgentIds, limit \in ToolCallLimits : CreateAgent(a, limit)
  \/ \E a \in AgentIds : DestroyAgent(a)
  \/ \E a \in AgentIds : PauseAgent(a)
  \/ \E a \in AgentIds : ResumeAgent(a)
  \/ \E t \in TaskIds, a \in AgentIds, s \in SubmitStates, p \in BOOLEAN :
       SubmitTask(t, a, s, p)
  \/ \E t \in TaskIds : CancelTask(t)
  \/ SendIntent
  \/ Shutdown

LlmReply ==
  \/ LlmEnds("Ok")
  \/ LlmEnds("Err")
  \/ \E n \in CallsPerReply : LlmAsksForTools(n)

LoopStep ==
  \/ LoopHead
  \/ \E e \in ready : Dequeue(e)
  \/ PollAgain
  \/ Prepare
  \/ Configure
  \/ RoundsExhausted
  \/ AskLlm
  \/ ExecuteTool
  \/ WriteBack

Next == ClientCall \/ LlmReply \/ LoopStep

Spec == Init /\ [][Next]_vars

(***************************************************************************)
(* Fairness.  The loop is one tokio task that is always runnable outside   *)
(* its awaits, tokio's RwLock is fair, and the model's reply is the only   *)
(* thing the loop waits for: WF of the loop's own steps.  A model that     *)
(* always answers is a second, separate assumption, because the code sets  *)
(* no timeout on the call.  Clients owe nothing.                           *)
(***************************************************************************)
LoopFairness == WF_vars(LoopStep)
LlmFairness  == WF_vars(LlmReply)

FairSpec     == Spec /\ LoopFairness /\ LlmFairness
SilentLlmSpec == Spec /\ LoopFairness

-----------------------------------------------------------------------------
(* Properties.                                                             *)

\* Type invariant; it also bounds the budget by its hard limit, which
\* check_allocation has to respect.
TypeOK ==
  /\ agentState \in [AgentIds -> AgentStates \cup {Absent}]
  /\ processState \in [AgentIds -> AgentStates \cup {Absent}]
  /\ callLimit \in [AgentIds -> Nat]
  /\ consumed \in [AgentIds -> 0..hard_limit]
  /\ stats \in [AgentIds -> [completed: Nat, failed: Nat]]
  /\ taskState \in [TaskIds -> TaskStates \cup {Absent}]
  /\ taskAgent \in [TaskIds -> AgentIds \cup {Absent}]
  /\ journal \in [TaskIds -> TaskStates \cup {Absent}]
  /\ ready \subseteq Entries
  /\ running_count \in Nat
  /\ total_submitted \in 0..MaxSubmissions
  /\ total_completed \in Nat
  /\ completed_tasks_total \in Nat
  /\ shutdown \in BOOLEAN
  /\ pc \in {"Head", "Dequeue", "Prepare", "Configure", "Think", "AwaitLlm",
             "Tools", "WriteBack", "Stopped"}
  /\ cur \in Entries \cup {NoEntry}
  /\ safety_cap \in Nat
  /\ round \in Nat
  /\ pending_calls \in Nat
  /\ outcome \in {"Ok", "Err"}

\* A slot is taken exactly while the loop holds a task, and the loop holds one
\* exactly between dequeue and write-back: no path through the loop leaks a
\* slot or gives one back twice (the saturating decrement would hide that).
SlotAccounting ==
  /\ running_count = IF cur = NoEntry THEN 0 ELSE 1
  /\ cur = NoEntry <=> pc \in {"Head", "Dequeue", "Stopped"}

\* Every entry in the queue or in the loop names a task and an agent the kernel
\* knows, so Prepare never skips a vanished task (kernel.rs:183, which would
\* keep the slot) and write-back always finds record and agent.
QueueRefersToKnown ==
  \A e \in Held : e.task \in tasks /\ e.agent \in agents

\* No accepted task is lost: one that is not in a terminal state is in the
\* ready queue or in the loop's hands, across cancellations, destroyed agents
\* and overwritten ids.
NoLostTask == \A t \in TaskIds : Live(t) => Queued(t) \/ Holds(t)

\* A task whose record says Cancelled has no entry left in the queue (as long
\* as clients do not submit tasks that say so themselves): cancelling it or
\* destroying its agent also takes it off the queue.
CancelledNotQueued ==
  \A t \in TaskIds :
    taskState[t] = "Cancelled" /\ "Cancelled" \notin SubmitStates => ~Queued(t)

\* A task that says Running is the one the loop works on (as long as clients do
\* not submit tasks that say so themselves), and the journal does not contradict
\* it: while the journal keeps all it was told, in_flight_tasks reports the task,
\* and once it drops entries the task may be missing, but a stale transition to
\* a terminal state, from an earlier life of the id, never speaks for it.
RunningIsJournaled ==
  \A t \in TaskIds :
    taskState[t] = "Running" /\ "Running" \notin SubmitStates =>
      /\ Holds(t)
      /\ journal[t] = "Running" \/ (JournalOverflows /\ journal[t] = Absent)

\* The agent record and its process, updated side by side by five handlers,
\* disagree only where the record says Idle: write-back and resume_agent.
ProcessTracksAgent ==
  \A a \in AgentIds : agentState[a] = "Idle" \/ agentState[a] = processState[a]

\* No submission is executed twice, and none appears from nowhere: what was
\* completed, runs or waits was submitted (the rest was cancelled), and the
\* entries in hand are different submissions.
AtMostOnce ==
  /\ total_completed + running_count + Cardinality(ready) <= total_submitted
  /\ cur \notin ready
  /\ \A e \in Held : e.seq <= total_submitted
  /\ \A d, e \in Held : d.seq = e.seq => d = e

SumOver(f, S) ==
  LET sum[T \in SUBSET S] ==
        IF T = {} THEN 0 ELSE LET x == CHOOSE x \in T : TRUE IN f[x] + sum[T \ {x}]
  IN  sum[S]

\* The kernel-wide, scheduler and per-agent counters, kept in three places,
\* tell the same story: every finished execution counts once, as a completion
\* or as a failure of the agent that was charged for it.
CountersAgree ==
  LET completed == SumOver([a \in AgentIds |-> stats[a].completed], AgentIds)
      failed    == SumOver([a \in AgentIds |-> stats[a].failed], AgentIds)
  IN  /\ completed_tasks_total = completed
      /\ total_completed = completed + failed

\* The kernel keeps the promise of TaskPool: over all its critical sections a
\* submission is one ticket, which leaves the queue once, runs alone, and is
\* counted once as finished and, unless the pipeline failed, as succeeded; and
\* a cancellation takes all queue entries of a task along, never some.
Pool == INSTANCE TaskPool
          WITH Tasks     <- TaskIds,
               Agents    <- AgentIds,
               waiting   <- ready,
               running   <- {cur} \ {NoEntry},
               accepted  <- total_submitted,
               finished  <- total_completed,
               succeeded <- completed_tasks_total
KeepsTickets == Pool!PoolSpec

\* What the loop has taken from the queue it brings to an end, and back into the
\* record, provided the language model answers: however many rounds the model
\* asks for, and whatever clients do to the task, its agent and the shutdown flag
\* meanwhile.
DispatchedTasksSettle ==
  \A e \in Entries :
    cur = e ~> cur = NoEntry /\ taskState[e.task] \in TerminalStates

\* The queue is served: while entries wait, the loop takes one of them, or
\* clients cancel them all, or the kernel is shut down.  Which one it takes is
\* the scheduler's choice, and one that waits may be passed over for ever.
QueueIsServed == ready # {} ~> cur # NoEntry \/ ready = {} \/ shutdown

\* shutdown stops the loop, and not in the middle of a task.
ShutdownStopsLoop == shutdown ~> (pc = "Stopped" /\ cur = NoEntry)
=============================================================================
