---------------------------- MODULE KernelProofs ----------------------------
(***************************************************************************)
(* Theorems about Kernel, for every set of agents and tasks and every      *)
(* value of the limits that KernelAssumption admits.                       *)
(***************************************************************************)
EXTENDS Kernel, Induction, FiniteSetTheorems, TLAPS

\* The loop executes a tool only while the model's reply has calls left.
CallsPending == pc = "Tools" => pending_calls > 0

\* Slots and types depend on each other: the loop's locals are well typed
\* because cur is an entry between dequeue and write-back.
TInv == TypeOK /\ SlotAccounting /\ CallsPending

\* Initially no id is known and the loop holds nothing.
LEMMA TInvInit == Init => TInv
  <1> SUFFICES ASSUME Init PROVE TInv
    OBVIOUS
  <1> USE KernelAssumption DEF KernelAssumption, Init
  <1>1. stats \in [AgentIds -> [completed: Nat, failed: Nat]]
    OBVIOUS
  <1>2. /\ agentState \in [AgentIds -> AgentStates \cup {Absent}]
        /\ processState \in [AgentIds -> AgentStates \cup {Absent}]
        /\ taskState \in [TaskIds -> TaskStates \cup {Absent}]
        /\ taskAgent \in [TaskIds -> AgentIds \cup {Absent}]
        /\ journal \in [TaskIds -> TaskStates \cup {Absent}]
    OBVIOUS
  <1>3. callLimit \in [AgentIds -> Nat] /\ consumed \in [AgentIds -> 0..hard_limit]
    OBVIOUS
  <1>4. SlotAccounting /\ CallsPending
    BY DEF SlotAccounting, CallsPending
  <1>5. total_submitted \in 0..MaxSubmissions /\ ready \subseteq Entries
    OBVIOUS
  <1>6. TypeOK
    BY <1>1, <1>2, <1>3, <1>5 DEF TypeOK
  <1>7. QED
    BY <1>4, <1>6 DEF TInv

\* The grant of check_allocation fits into what is left of the budget.
LEMMA GrantFits ==
  ASSUME TypeOK, NEW a \in AgentIds, NEW p \in BOOLEAN
  PROVE  /\ Grant(a, p) \in Int
         /\ consumed[a] + Grant(a, p) <= hard_limit
         /\ Grant(a, p) > 0 => consumed[a] + Grant(a, p) \in 0..hard_limit
  <1>1. consumed[a] \in 0..hard_limit /\ hard_limit \in Nat /\ Estimate \in Nat
        /\ priority_reserve \in Nat
    BY KernelAssumption DEF KernelAssumption, TypeOK
  <1>2. QED
    BY <1>1 DEF Grant, Minimum

\* An append to the journal leaves the last transition of a task as it is, or
\* drops it when the journal overflows.
LEMMA AppendKeepsOrDrops ==
  ASSUME TypeOK, NEW log \in Appended
  PROVE  /\ log \in [TaskIds -> TaskStates \cup {Absent}]
         /\ \A u \in TaskIds :
              log[u] = journal[u] \/ (JournalOverflows /\ log[u] = Absent)
  <1>1. PICK D : /\ D # {} => JournalOverflows
                 /\ log = [t \in TaskIds |-> IF t \in D THEN Absent ELSE journal[t]]
    BY DEF Appended
  <1>2. QED
    BY <1>1 DEF TypeOK

\* record_transition does that, and the transition it records is the last one.
LEMMA TransitionIsLast ==
  ASSUME TypeOK, NEW t \in TaskIds, NEW to \in TaskStates, NEW log \in Journaled(t, to)
  PROVE  /\ log \in [TaskIds -> TaskStates \cup {Absent}]
         /\ log[t] = to
         /\ \A u \in TaskIds \ {t} :
              log[u] = journal[u] \/ (JournalOverflows /\ log[u] = Absent)
  <1>1. PICK kept \in Appended : log = [kept EXCEPT ![t] = to]
    BY DEF Journaled
  <1>2. QED
    BY <1>1, AppendKeepsOrDrops

\* Every step preserves types and slots.
LEMMA TInvNext == TInv /\ [Next]_vars => TInv'
  <1> SUFFICES ASSUME TInv, [Next]_vars PROVE TInv'
    OBVIOUS
  <1> USE DEF TInv, SlotAccounting, CallsPending, KernelAssumption
  <1>1. ASSUME NEW a \in AgentIds, NEW limit \in ToolCallLimits,
               CreateAgent(a, limit)
        PROVE  TInv'
    BY <1>1, KernelAssumption
    DEF CreateAgent, TypeOK, AgentStates, taskVars, schedVars, loopVars, localVars
  <1>2. ASSUME NEW a \in AgentIds, DestroyAgent(a)
        PROVE  TInv'
    BY <1>2
    DEF DestroyAgent, WithoutTasks, TypeOK, AgentStates, TaskStates, loopVars, localVars
  <1>3. ASSUME NEW a \in AgentIds, PauseAgent(a)
        PROVE  TInv'
    BY <1>3
    DEF PauseAgent, TypeOK, AgentStates, taskVars, schedVars, loopVars, localVars
  <1>4. ASSUME NEW a \in AgentIds, ResumeAgent(a)
        PROVE  TInv'
    BY <1>4
    DEF ResumeAgent, TypeOK, AgentStates, taskVars, schedVars, loopVars, localVars
  <1>5. ASSUME NEW t \in TaskIds, NEW a \in AgentIds, NEW s \in SubmitStates,
               NEW p \in BOOLEAN, SubmitTask(t, a, s, p)
        PROVE  TInv'
    <2>1. consumed' \in [AgentIds -> 0..hard_limit]
      BY <1>5, GrantFits DEF SubmitTask, Accepts, TypeOK
    <2>2. total_submitted' \in 0..MaxSubmissions /\ ready' \subseteq Entries
      BY <1>5, KernelAssumption DEF SubmitTask, TypeOK, Entries
    <2>3. /\ agentState' \in [AgentIds -> AgentStates \cup {Absent}]
          /\ processState' \in [AgentIds -> AgentStates \cup {Absent}]
      BY <1>5 DEF SubmitTask, TypeOK, AgentStates
    <2>4. taskState' \in [TaskIds -> TaskStates \cup {Absent}]
      BY <1>5, KernelAssumption DEF SubmitTask, TypeOK
    <2>5. taskAgent' \in [TaskIds -> AgentIds \cup {Absent}]
      BY <1>5 DEF SubmitTask, TypeOK
    <2>6. journal' \in [TaskIds -> TaskStates \cup {Absent}]
      BY <1>5, AppendKeepsOrDrops DEF SubmitTask
    <2>7. QED
      BY <1>5, <2>1, <2>2, <2>3, <2>4, <2>5, <2>6
      DEF SubmitTask, TypeOK, loopVars, localVars
  <1>6. ASSUME NEW t \in TaskIds, CancelTask(t)
        PROVE  TInv'
    <2>1. journal' \in [TaskIds -> TaskStates \cup {Absent}]
      BY <1>6, TransitionIsLast DEF CancelTask, TaskStates
    <2>2. QED
      BY <1>6, <2>1
      DEF CancelTask, WithoutTasks, TypeOK, TaskStates, agentVars, loopVars, localVars
  <1>7. CASE Shutdown
    BY <1>7 DEF Shutdown, TypeOK, agentVars, taskVars, schedVars, loopVars, localVars
  <1>8. CASE LoopHead
    BY <1>8 DEF LoopHead, KeepRunning, TypeOK, agentVars, taskVars, schedVars, localVars
  <1>9. ASSUME NEW e \in ready, Dequeue(e)
        PROVE  TInv'
    BY <1>9, KernelAssumption
    DEF Dequeue, Popped, TypeOK, agentVars, taskVars, localVars
  <1>10. CASE PollAgain
    BY <1>10 DEF PollAgain, TypeOK, agentVars, taskVars, schedVars, localVars
  <1>11. CASE Prepare
    <2>1. cur.task \in TaskIds
      BY <1>11 DEF Prepare, tasks
    <2>2. journal' \in [TaskIds -> TaskStates \cup {Absent}]
      BY <1>11, <2>1, TransitionIsLast DEF Prepare, TaskStates
    <2>3. QED
      BY <1>11, <2>2
      DEF Prepare, TypeOK, TaskStates, agentVars, schedVars, localVars
  <1>12. CASE Configure
    <2>1. cur \in Entries
      BY <1>12 DEF Configure, TypeOK
    <2>2. safety_cap' \in Nat
      BY <1>12, <2>1 DEF Configure, Minimum, TypeOK, Entries
    <2>3. QED
      BY <1>12, <2>2 DEF Configure, TypeOK, agentVars, taskVars, schedVars
  <1>13. CASE RoundsExhausted
    BY <1>13 DEF RoundsExhausted, TypeOK, agentVars, taskVars, schedVars
  <1>14. CASE AskLlm
    BY <1>14, round + 1 \in Nat
    DEF AskLlm, RoundAfter, TypeOK, agentVars, taskVars, schedVars
  <1>15. ASSUME NEW result \in {"Ok", "Err"}, LlmEnds(result)
         PROVE  TInv'
    BY <1>15 DEF LlmEnds, TypeOK, agentVars, taskVars, schedVars
  <1>16. ASSUME NEW n \in CallsPerReply, LlmAsksForTools(n)
         PROVE  TInv'
    BY <1>16, KernelAssumption
    DEF LlmAsksForTools, TypeOK, agentVars, taskVars, schedVars
  <1>17. CASE ExecuteTool
    BY <1>17 DEF ExecuteTool, TypeOK, agentVars, taskVars, schedVars
  <1>18. CASE WriteBack
    <2>1. cur # NoEntry /\ running_count = 1
      BY <1>18 DEF WriteBack
    <2>2. running_count' = 0
      BY <1>18, <2>1 DEF WriteBack, SlotsAfterComplete
    <2>3. stats' \in [AgentIds -> [completed: Nat, failed: Nat]]
      <3>1. \A x \in AgentIds : stats[x] \in [completed: Nat, failed: Nat]
        BY DEF TypeOK
      <3>2. \A x \in AgentIds :
              /\ [stats[x] EXCEPT !.completed = @ + 1] \in [completed: Nat, failed: Nat]
              /\ [stats[x] EXCEPT !.failed = @ + 1] \in [completed: Nat, failed: Nat]
        BY <3>1
      <3>3. /\ [stats EXCEPT ![cur.agent].completed = @ + 1]
                 \in [AgentIds -> [completed: Nat, failed: Nat]]
            /\ [stats EXCEPT ![cur.agent].failed = @ + 1]
                 \in [AgentIds -> [completed: Nat, failed: Nat]]
        BY <3>1, <3>2 DEF TypeOK
      <3>4. QED
        BY <1>18, <3>3 DEF WriteBack, StatsAfter
    <2>4. total_completed' \in Nat /\ completed_tasks_total' \in Nat
      BY <1>18 DEF WriteBack, TypeOK
    <2>5. /\ taskState' \in [TaskIds -> TaskStates \cup {Absent}]
          /\ agentState' \in [AgentIds -> AgentStates \cup {Absent}]
      BY <1>18 DEF WriteBack, TypeOK, AgentStates, TaskStates
    <2>6. journal' \in [TaskIds -> TaskStates \cup {Absent}]
      <3>1. cur.task \in TaskIds
        BY <2>1 DEF TypeOK, Entries
      <3>2. QED
        BY <1>18, <3>1, TransitionIsLast DEF WriteBack, TaskStates
    <2>7. QED
      BY <1>18, <2>2, <2>3, <2>4, <2>5, <2>6
      DEF WriteBack, TypeOK
  <1>19. CASE UNCHANGED vars
    BY <1>19
    DEF vars, agentVars, taskVars, schedVars, loopVars, localVars, TypeOK
  <1>20. CASE SendIntent
    <2>1. journal' \in [TaskIds -> TaskStates \cup {Absent}]
      BY <1>20, AppendKeepsOrDrops DEF SendIntent
    <2>2. QED
      BY <1>20, <2>1 DEF SendIntent, TypeOK, agentVars, schedVars, loopVars, localVars
  <1>21. QED
    BY <1>1, <1>2, <1>3, <1>4, <1>5, <1>6, <1>7, <1>8, <1>9, <1>10, <1>11,
       <1>12, <1>13, <1>14, <1>15, <1>16, <1>17, <1>18, <1>19, <1>20
    DEF Next, ClientCall, LlmReply, LoopStep

\* Kernel.tla's type invariant: every state of the kernel is well typed, and no
\* agent's budget is overdrawn.
THEOREM TypeCorrect == Spec => []TypeOK
  <1>1. TInv => TypeOK
    BY DEF TInv
  <1>2. QED
    BY <1>1, TInvInit, TInvNext, PTL DEF Spec

\* The loop neither leaks a slot nor gives one back twice, whatever clients do
\* meanwhile (kernel.rs:142 schedule_next, kernel.rs:408 complete).
THEOREM SlotsAccountedFor == Spec => []SlotAccounting
  <1>1. TInv => SlotAccounting
    BY DEF TInv
  <1>2. QED
    BY <1>1, TInvInit, TInvNext, PTL DEF Spec

-----------------------------------------------------------------------------
(* Tasks and the queue.                                                    *)

\* Nothing happens to tasks, but that something may drop out of the journal.
TaskQuiet ==
  /\ UNCHANGED <<taskState, taskAgent, ready, cur>>
  /\ journal' = journal \/ journal' \in Appended

\* The six actions that touch task records, the queue or the loop's entry; all
\* others leave those as they are.
LEMMA TaskFrame ==
  ASSUME [Next]_vars
  PROVE  \/ TaskQuiet
         \/ \E a \in AgentIds : DestroyAgent(a)
         \/ \E t \in TaskIds, a \in AgentIds, s \in SubmitStates, p \in BOOLEAN :
              SubmitTask(t, a, s, p)
         \/ \E t \in TaskIds : CancelTask(t)
         \/ \E e \in ready : Dequeue(e)
         \/ Prepare
         \/ WriteBack
  <1> USE DEF TaskQuiet
  <1>1. ASSUME NEW a \in AgentIds, NEW limit \in ToolCallLimits, CreateAgent(a, limit)
        PROVE  TaskQuiet
    BY <1>1 DEF CreateAgent, taskVars, schedVars, loopVars
  <1>2. ASSUME NEW a \in AgentIds, PauseAgent(a) \/ ResumeAgent(a)
        PROVE  TaskQuiet
    BY <1>2 DEF PauseAgent, ResumeAgent, taskVars, schedVars, loopVars
  <1>3. CASE Shutdown \/ LoopHead \/ PollAgain
    BY <1>3 DEF Shutdown, LoopHead, PollAgain, taskVars, schedVars, loopVars
  <1>4. CASE Configure \/ RoundsExhausted \/ AskLlm \/ ExecuteTool
    BY <1>4
    DEF Configure, RoundsExhausted, AskLlm, ExecuteTool, taskVars, schedVars
  <1>5. CASE LlmReply
    BY <1>5 DEF LlmReply, LlmEnds, LlmAsksForTools, taskVars, schedVars
  <1>6. CASE UNCHANGED vars
    BY <1>6 DEF vars, taskVars, schedVars, loopVars
  <1>7. CASE SendIntent
    BY <1>7 DEF SendIntent, schedVars, loopVars
  <1>8. QED
    BY <1>1, <1>2, <1>3, <1>4, <1>5, <1>6, <1>7 DEF Next, ClientCall, LoopStep

\* Agents and tasks are never removed from the maps.
LEMMA MapsGrow ==
  ASSUME TInv, [Next]_vars
  PROVE  agents \subseteq agents' /\ tasks \subseteq tasks'
  <1> USE DEF TInv, agents, tasks, Absent
  <1>1. tasks \subseteq tasks'
    <2>1. CASE TaskQuiet
      BY <2>1 DEF TaskQuiet
    <2>2. ASSUME NEW a \in AgentIds, DestroyAgent(a) PROVE tasks \subseteq tasks'
      BY <2>2 DEF DestroyAgent
    <2>3. ASSUME NEW t \in TaskIds, NEW a \in AgentIds, NEW s \in SubmitStates,
                 NEW p \in BOOLEAN, SubmitTask(t, a, s, p)
          PROVE  tasks \subseteq tasks'
      BY <2>3, KernelAssumption
      DEF SubmitTask, KernelAssumption, TaskStates, TypeOK
    <2>4. ASSUME NEW t \in TaskIds, CancelTask(t) PROVE tasks \subseteq tasks'
      BY <2>4 DEF CancelTask, TypeOK
    <2>5. CASE Prepare
      BY <2>5 DEF Prepare, TypeOK
    <2>6. CASE WriteBack
      BY <2>6 DEF WriteBack, TypeOK
    <2>7. ASSUME NEW e \in ready, Dequeue(e) PROVE tasks \subseteq tasks'
      BY <2>7 DEF Dequeue, taskVars
    <2>8. QED
      BY <2>1, <2>2, <2>3, <2>4, <2>5, <2>6, <2>7, TaskFrame
  <1>2. agents \subseteq agents'
    <2>1. ASSUME NEW a \in AgentIds,
                 \/ \E limit \in ToolCallLimits : CreateAgent(a, limit)
                 \/ DestroyAgent(a) \/ PauseAgent(a) \/ ResumeAgent(a)
          PROVE  agents \subseteq agents'
      BY <2>1 DEF CreateAgent, DestroyAgent, PauseAgent, ResumeAgent, TypeOK
    <2>2. ASSUME NEW t \in TaskIds, NEW a \in AgentIds, NEW s \in SubmitStates,
                 NEW p \in BOOLEAN, SubmitTask(t, a, s, p)
          PROVE  agents \subseteq agents'
      BY <2>2 DEF SubmitTask, TypeOK
    <2>3. CASE WriteBack
      BY <2>3 DEF WriteBack, TypeOK
    <2>4. ASSUME UNCHANGED agentState PROVE agents \subseteq agents'
      BY <2>4
    <2>5. CASE UNCHANGED vars
      BY <2>4, <2>5 DEF vars, agentVars
    <2>6. ASSUME NEW t \in TaskIds, CancelTask(t) PROVE agents \subseteq agents'
      BY <2>4, <2>6 DEF CancelTask, agentVars
    <2>7. CASE Shutdown \/ LlmReply
      BY <2>4, <2>7 DEF Shutdown, LlmReply, LlmEnds, LlmAsksForTools, agentVars
    <2>8. CASE LoopStep /\ ~WriteBack
      BY <2>4, <2>8
      DEF LoopStep, LoopHead, Dequeue, PollAgain, Prepare, Configure,
          RoundsExhausted, AskLlm, ExecuteTool, agentVars
    <2>9. CASE SendIntent
      BY <2>4, <2>9 DEF SendIntent, agentVars
    <2>10. QED
      BY <2>1, <2>2, <2>3, <2>5, <2>6, <2>7, <2>8, <2>9 DEF Next, ClientCall
  <1>3. QED
    BY <1>1, <1>2

\* Entries keep naming known tasks and agents.
LEMMA RefersNext ==
  ASSUME TInv, QueueRefersToKnown, [Next]_vars
  PROVE  QueueRefersToKnown'
  <1> DEFINE Known(e) == e.task \in tasks /\ e.agent \in agents
  <1> USE DEF Held
  <1>1. \A e : Known(e) => e.task \in tasks' /\ e.agent \in agents'
    BY MapsGrow
  <1>2. \A e \in Held : Known(e)
    BY DEF QueueRefersToKnown
  <1>3. SUFFICES \A e \in Held' : e \in Held \/ Known(e)'
    BY <1>1, <1>2 DEF QueueRefersToKnown
  <1>4. CASE TaskQuiet
    BY <1>4 DEF TaskQuiet
  <1>5. ASSUME NEW a \in AgentIds, DestroyAgent(a) PROVE Held' \subseteq Held
    BY <1>5 DEF DestroyAgent, WithoutTasks, loopVars
  <1>6. ASSUME NEW t \in TaskIds, NEW a \in AgentIds, NEW s \in SubmitStates,
               NEW p \in BOOLEAN, SubmitTask(t, a, s, p)
        PROVE  \A e \in Held' : e \in Held \/ Known(e)'
    <2>1. \A e \in Held' : e \in Held \/ (e.task = t /\ e.agent = a)
      BY <1>6 DEF SubmitTask, loopVars
    <2>2. t \in tasks'
      BY <1>6, KernelAssumption
      DEF SubmitTask, KernelAssumption, tasks, TaskStates, Absent, TInv, TypeOK
    <2>3. a \in agents'
      BY <1>6, MapsGrow DEF SubmitTask, Accepts
    <2>4. QED
      BY <2>1, <2>2, <2>3
  <1>7. ASSUME NEW t \in TaskIds, CancelTask(t) PROVE Held' \subseteq Held
    BY <1>7 DEF CancelTask, WithoutTasks, loopVars
  <1>8. ASSUME NEW e \in ready, Dequeue(e) PROVE Held' \subseteq Held
    BY <1>8 DEF Dequeue, Popped
  <1>9. CASE Prepare
    BY <1>9 DEF Prepare, schedVars
  <1>10. CASE WriteBack
    BY <1>10 DEF WriteBack
  <1>11. QED
    BY <1>4, <1>5, <1>6, <1>7, <1>8, <1>9, <1>10, TaskFrame

\* A live task stays in the queue or in the loop's hands.
LEMMA NoLostNext ==
  ASSUME TInv, NoLostTask, [Next]_vars
  PROVE  NoLostTask'
  <1> USE DEF NoLostTask, Live, Queued, Holds
  <1>1. CASE TaskQuiet
    BY <1>1 DEF TaskQuiet
  <1>2. ASSUME NEW a \in AgentIds, DestroyAgent(a) PROVE NoLostTask'
    BY <1>2 DEF DestroyAgent, WithoutTasks, TerminalStates, loopVars
  <1>3. ASSUME NEW t \in TaskIds, NEW a \in AgentIds, NEW s \in SubmitStates,
               NEW p \in BOOLEAN, SubmitTask(t, a, s, p)
        PROVE  NoLostTask'
    <2>1. /\ cur' = cur
          /\ \A u \in TaskIds \ {t} : taskState'[u] = taskState[u]
      BY <1>3 DEF SubmitTask, loopVars, TInv, TypeOK
    <2>2. ready \subseteq ready' /\ \E e \in ready' : e.task = t
      <3> DEFINE new == [seq |-> total_submitted + 1, task |-> t, agent |-> a]
      <3>1. ready' = ready \cup {new} /\ new.task = t
        BY <1>3 DEF SubmitTask
      <3> HIDE DEF new
      <3>2. QED
        BY <3>1
    <2>3. QED
      BY <2>1, <2>2
  <1>4. ASSUME NEW t \in TaskIds, CancelTask(t) PROVE NoLostTask'
    BY <1>4 DEF CancelTask, WithoutTasks, TerminalStates, loopVars, TInv, TypeOK
  <1>5. ASSUME NEW e \in ready, Dequeue(e) PROVE NoLostTask'
    <2>1. e # NoEntry /\ cur = NoEntry
      BY <1>5, KernelAssumption
      DEF Dequeue, KernelAssumption, TInv, TypeOK, SlotAccounting
    <2>2. QED
      BY <1>5, <2>1 DEF Dequeue, Popped, taskVars
  <1>6. CASE Prepare
    <2>1. cur # NoEntry
      BY <1>6 DEF Prepare, TInv, SlotAccounting
    <2>2. QED
      BY <1>6, <2>1 DEF Prepare, schedVars, TInv, TypeOK
  <1>7. CASE WriteBack
    BY <1>7 DEF WriteBack, TerminalStates, TInv, TypeOK
  <1>8. QED
    BY <1>1, <1>2, <1>3, <1>4, <1>5, <1>6, <1>7, TaskFrame

\* A cancelled task stays off the queue.
LEMMA CancelledNext ==
  ASSUME TInv, CancelledNotQueued, [Next]_vars
  PROVE  CancelledNotQueued'
  <1> USE DEF CancelledNotQueued, Queued
  <1>1. CASE TaskQuiet
    BY <1>1 DEF TaskQuiet
  <1>2. ASSUME NEW a \in AgentIds, DestroyAgent(a) PROVE CancelledNotQueued'
    BY <1>2 DEF DestroyAgent, WithoutTasks
  <1>3. ASSUME NEW t \in TaskIds, NEW a \in AgentIds, NEW s \in SubmitStates,
               NEW p \in BOOLEAN, SubmitTask(t, a, s, p)
        PROVE  CancelledNotQueued'
    BY <1>3 DEF SubmitTask, TInv, TypeOK
  <1>4. ASSUME NEW t \in TaskIds, CancelTask(t) PROVE CancelledNotQueued'
    BY <1>4 DEF CancelTask, WithoutTasks, TInv, TypeOK
  <1>5. ASSUME NEW e \in ready, Dequeue(e) PROVE CancelledNotQueued'
    BY <1>5 DEF Dequeue, Popped, taskVars
  <1>6. CASE Prepare
    BY <1>6 DEF Prepare, schedVars, TInv, TypeOK
  <1>7. CASE WriteBack
    BY <1>7 DEF WriteBack, TInv, TypeOK
  <1>8. QED
    BY <1>1, <1>2, <1>3, <1>4, <1>5, <1>6, <1>7, TaskFrame

\* Running means held by the loop, and not contradicted by the journal.
LEMMA RunningNext ==
  ASSUME TInv, RunningIsJournaled, [Next]_vars
  PROVE  RunningIsJournaled'
  <1> USE DEF RunningIsJournaled, Holds
  <1> DEFINE Dropped(u) == JournalOverflows /\ journal'[u] = Absent
  <1>1. CASE TaskQuiet
    <2>1. \A u \in TaskIds : journal'[u] = journal[u] \/ Dropped(u)
      BY <1>1, AppendKeepsOrDrops DEF TaskQuiet, TInv
    <2>2. QED
      BY <1>1, <2>1 DEF TaskQuiet
  <1>2. ASSUME NEW a \in AgentIds, DestroyAgent(a) PROVE RunningIsJournaled'
    BY <1>2 DEF DestroyAgent, loopVars
  <1>3. ASSUME NEW t \in TaskIds, NEW a \in AgentIds, NEW s \in SubmitStates,
               NEW p \in BOOLEAN, SubmitTask(t, a, s, p)
        PROVE  RunningIsJournaled'
    <2>1. \A u \in TaskIds : journal'[u] = journal[u] \/ Dropped(u)
      BY <1>3, AppendKeepsOrDrops DEF SubmitTask, TInv
    <2>2. QED
      BY <1>3, <2>1 DEF SubmitTask, loopVars, TInv, TypeOK
  <1>4. ASSUME NEW t \in TaskIds, CancelTask(t) PROVE RunningIsJournaled'
    <2>1. \A u \in TaskIds \ {t} : journal'[u] = journal[u] \/ Dropped(u)
      BY <1>4, TransitionIsLast DEF CancelTask, TInv, TaskStates
    <2>2. QED
      BY <1>4, <2>1 DEF CancelTask, loopVars, TInv, TypeOK
  <1>5. ASSUME NEW e \in ready, Dequeue(e) PROVE RunningIsJournaled'
    BY <1>5 DEF Dequeue, taskVars, TInv, SlotAccounting
  <1>6. CASE Prepare
    <2>1. cur.task \in TaskIds /\ cur # NoEntry
      BY <1>6 DEF Prepare, tasks, TInv, SlotAccounting
    <2>2. /\ journal'[cur.task] = "Running"
          /\ \A u \in TaskIds \ {cur.task} : journal'[u] = journal[u] \/ Dropped(u)
      BY <1>6, <2>1, TransitionIsLast DEF Prepare, TInv, TaskStates
    <2>3. QED
      BY <1>6, <2>1, <2>2 DEF Prepare, TInv, TypeOK
  <1>7. CASE WriteBack
    <2>1. cur.task \in TaskIds /\ cur # NoEntry
      BY <1>7 DEF WriteBack, TInv, TypeOK, SlotAccounting, Entries
    <2>2. \A u \in TaskIds \ {cur.task} : taskState[u] = taskState'[u] /\ ~Holds(u)
      BY <1>7, <2>1 DEF WriteBack, TInv, TypeOK
    <2>3. taskState'[cur.task] # "Running"
      BY <1>7, <2>1 DEF WriteBack, TInv, TypeOK
    <2>4. QED
      BY <2>2, <2>3
  <1>8. QED
    BY <1>1, <1>2, <1>3, <1>4, <1>5, <1>6, <1>7, TaskFrame

\* Record and process of an agent move together, write-back excepted.
LEMMA TracksNext ==
  ASSUME TInv, ProcessTracksAgent, [Next]_vars
  PROVE  ProcessTracksAgent'
  <1> USE DEF ProcessTracksAgent, TInv, TypeOK
  <1>1. ASSUME NEW a \in AgentIds,
               \/ \E limit \in ToolCallLimits : CreateAgent(a, limit)
               \/ DestroyAgent(a) \/ PauseAgent(a) \/ ResumeAgent(a)
        PROVE  ProcessTracksAgent'
    BY <1>1 DEF CreateAgent, DestroyAgent, PauseAgent, ResumeAgent
  <1>2. ASSUME NEW t \in TaskIds, NEW a \in AgentIds, NEW s \in SubmitStates,
               NEW p \in BOOLEAN, SubmitTask(t, a, s, p)
        PROVE  ProcessTracksAgent'
    BY <1>2 DEF SubmitTask
  <1>3. CASE WriteBack
    BY <1>3 DEF WriteBack
  <1>4. ASSUME UNCHANGED <<agentState, processState>> PROVE ProcessTracksAgent'
    BY <1>4
  <1>5. ASSUME NEW t \in TaskIds, CancelTask(t) PROVE ProcessTracksAgent'
    BY <1>4, <1>5 DEF CancelTask, agentVars
  <1>6. CASE Shutdown \/ LlmReply \/ UNCHANGED vars
    BY <1>4, <1>6 DEF Shutdown, LlmReply, LlmEnds, LlmAsksForTools, vars, agentVars
  <1>7. CASE LoopStep /\ ~WriteBack
    BY <1>4, <1>7
    DEF LoopStep, LoopHead, Dequeue, PollAgain, Prepare, Configure,
        RoundsExhausted, AskLlm, ExecuteTool, agentVars
  <1>8. CASE SendIntent
    BY <1>4, <1>8 DEF SendIntent, agentVars
  <1>9. QED
    BY <1>1, <1>2, <1>3, <1>5, <1>6, <1>7, <1>8 DEF Next, ClientCall

\* The steps that leave the counts of AtMostOnce alone.
LEMMA CountFrame ==
  ASSUME [Next]_vars
  PROVE  \/ UNCHANGED <<total_completed, running_count, total_submitted, ready, cur>>
         \/ \E a \in AgentIds : DestroyAgent(a)
         \/ \E t \in TaskIds, a \in AgentIds, s \in SubmitStates, p \in BOOLEAN :
              SubmitTask(t, a, s, p)
         \/ \E t \in TaskIds : CancelTask(t)
         \/ \E e \in ready : Dequeue(e)
         \/ WriteBack
  <1> DEFINE Quiet ==
        UNCHANGED <<total_completed, running_count, total_submitted, ready, cur>>
  <1>1. ASSUME NEW a \in AgentIds,
               \/ \E limit \in ToolCallLimits : CreateAgent(a, limit)
               \/ PauseAgent(a) \/ ResumeAgent(a)
        PROVE  Quiet
    BY <1>1 DEF CreateAgent, PauseAgent, ResumeAgent, schedVars, loopVars
  <1>2. CASE Shutdown \/ LlmReply \/ UNCHANGED vars
    BY <1>2
    DEF Shutdown, LlmReply, LlmEnds, LlmAsksForTools, vars, schedVars, loopVars
  <1>3. CASE LoopHead \/ PollAgain \/ Prepare \/ Configure \/ RoundsExhausted
             \/ AskLlm \/ ExecuteTool
    BY <1>3
    DEF LoopHead, PollAgain, Prepare, Configure, RoundsExhausted, AskLlm,
        ExecuteTool, schedVars
  <1>4. CASE SendIntent
    BY <1>4 DEF SendIntent, schedVars, loopVars
  <1>5. QED
    BY <1>1, <1>2, <1>3, <1>4 DEF Next, ClientCall, LoopStep

\* AtMostOnce counts a finite queue.
OnceInv == AtMostOnce /\ IsFiniteSet(ready)

\* Submissions are counted up before anything else, and every other step moves
\* an entry one place on or drops it.
LEMMA OnceNext ==
  ASSUME TInv, OnceInv, [Next]_vars
  PROVE  OnceInv'
  <1> USE DEF OnceInv, AtMostOnce, Held
  <1>1. Cardinality(ready) \in Nat
    BY FS_CardinalityType
  <1>2. /\ total_completed \in Nat /\ running_count \in Nat
        /\ total_submitted \in Nat /\ ready \subseteq Entries
        /\ NoEntry \notin Entries
        /\ \A e \in Entries : e.seq \in Nat
        /\ cur # NoEntry => cur \in Entries
    BY KernelAssumption DEF KernelAssumption, TInv, TypeOK, Entries
  <1>3. CASE UNCHANGED <<total_completed, running_count, total_submitted, ready, cur>>
    BY <1>3
  <1>4. ASSUME UNCHANGED <<total_completed, running_count, total_submitted, cur>>,
               ready' \subseteq ready
        PROVE  OnceInv'
    <2>1. IsFiniteSet(ready') /\ Cardinality(ready') <= Cardinality(ready)
      BY <1>4, FS_Subset
    <2>2. Cardinality(ready') \in Nat
      BY <2>1, FS_CardinalityType
    <2>3. QED
      BY <1>1, <1>2, <1>4, <2>1, <2>2
  <1>5. ASSUME NEW a \in AgentIds, DestroyAgent(a) PROVE OnceInv'
    BY <1>4, <1>5 DEF DestroyAgent, WithoutTasks, loopVars
  <1>6. ASSUME NEW t \in TaskIds, CancelTask(t) PROVE OnceInv'
    BY <1>4, <1>6 DEF CancelTask, WithoutTasks, loopVars
  <1>7. ASSUME NEW t \in TaskIds, NEW a \in AgentIds, NEW s \in SubmitStates,
               NEW p \in BOOLEAN, SubmitTask(t, a, s, p)
        PROVE  OnceInv'
    <2> DEFINE new == [seq |-> total_submitted + 1, task |-> t, agent |-> a]
    <2>1. /\ ready' = ready \cup {new} /\ new.seq = total_submitted + 1
          /\ UNCHANGED <<total_completed, running_count, cur>>
          /\ total_submitted' = total_submitted + 1
      BY <1>7 DEF SubmitTask, loopVars
    <2> HIDE DEF new
    <2>2. new \notin Held
      BY <1>2, <2>1
    <2>3. IsFiniteSet(ready') /\ Cardinality(ready') = Cardinality(ready) + 1
      BY <2>1, <2>2, FS_AddElement
    <2>4. cur \notin ready'
      <3>1. new # NoEntry
        BY <1>2, <1>7, <2>1, TInvNext DEF TInv, TypeOK
      <3>2. QED
        BY <2>1, <2>2, <3>1
    <2>5. \A e \in Held' : e \in Held \/ e = new
      BY <2>1
    <2>6. \A e \in Held : e.seq \in Nat /\ e.seq <= total_submitted
      BY <1>2
    <2>7. /\ \A e \in Held' : e.seq <= total_submitted'
          /\ \A d, e \in Held' : d.seq = e.seq => d = e
      BY <1>2, <2>1, <2>5, <2>6
    <2>8. QED
      BY <1>1, <1>2, <2>1, <2>3, <2>4, <2>7
  <1>8. ASSUME NEW e \in ready, Dequeue(e) PROVE OnceInv'
    <2>1. /\ ready' = ready \ {e} /\ cur' = e /\ running_count' = running_count + 1
          /\ UNCHANGED <<total_completed, total_submitted>>
      BY <1>8 DEF Dequeue, Popped
    <2>2. IsFiniteSet(ready') /\ Cardinality(ready') = Cardinality(ready) - 1
      BY <2>1, FS_RemoveElement
    <2>3. Held' \subseteq Held
      BY <2>1
    <2>4. QED
      BY <1>1, <1>2, <2>1, <2>2, <2>3
  <1>9. CASE WriteBack
    <2>1. /\ running_count = 1 /\ running_count' = 0
          /\ total_completed' = total_completed + 1
          /\ UNCHANGED <<ready, total_submitted>> /\ cur' = NoEntry
      BY <1>9 DEF WriteBack, SlotsAfterComplete, TInv, SlotAccounting
    <2>2. Held' \subseteq Held /\ NoEntry \notin ready
      BY <1>2, <2>1
    <2>3. QED
      BY <1>1, <1>2, <2>1, <2>2
  <1>10. QED
    BY <1>3, <1>5, <1>6, <1>7, <1>8, <1>9, CountFrame

-----------------------------------------------------------------------------
(* The counters.                                                           *)

CompletedOf == [a \in AgentIds |-> stats[a].completed]
FailedOf == [a \in AgentIds |-> stats[a].failed]

LEMMA SumIsTotal ==
  ASSUME NEW f, NEW S
  PROVE  SumOver(f, S) = Total(f, S)
  BY DEF SumOver, Total, Sums, SumFrom

LEMMA CountersAreTotals ==
  CountersAgree <=> /\ completed_tasks_total = Total(CompletedOf, AgentIds)
                    /\ total_completed = Total(CompletedOf, AgentIds) + Total(FailedOf, AgentIds)
  BY SumIsTotal DEF CountersAgree, CompletedOf, FailedOf

\* Only write-back counts.
LEMMA CountersFrame ==
  ASSUME [Next]_vars
  PROVE  WriteBack \/ UNCHANGED <<stats, completed_tasks_total, total_completed>>
  <1> DEFINE Quiet == UNCHANGED <<stats, completed_tasks_total, total_completed>>
  <1>1. ASSUME NEW a \in AgentIds,
               \/ \E limit \in ToolCallLimits : CreateAgent(a, limit)
               \/ DestroyAgent(a) \/ PauseAgent(a) \/ ResumeAgent(a)
        PROVE  Quiet
    BY <1>1 DEF CreateAgent, DestroyAgent, PauseAgent, ResumeAgent, schedVars
  <1>2. ASSUME NEW t \in TaskIds, NEW a \in AgentIds, NEW s \in SubmitStates,
               NEW p \in BOOLEAN, SubmitTask(t, a, s, p)
        PROVE  Quiet
    BY <1>2 DEF SubmitTask
  <1>3. ASSUME NEW t \in TaskIds, CancelTask(t)
        PROVE  Quiet
    BY <1>3 DEF CancelTask, agentVars
  <1>4. CASE Shutdown \/ LlmReply \/ UNCHANGED vars
    BY <1>4
    DEF Shutdown, LlmReply, LlmEnds, LlmAsksForTools, vars, agentVars, schedVars
  <1>5. CASE LoopStep /\ ~WriteBack
    BY <1>5
    DEF LoopStep, LoopHead, Dequeue, PollAgain, Prepare, Configure,
        RoundsExhausted, AskLlm, ExecuteTool, agentVars, schedVars
  <1>6. CASE SendIntent
    BY <1>6 DEF SendIntent, agentVars, schedVars
  <1>7. QED
    BY <1>1, <1>2, <1>3, <1>4, <1>5, <1>6 DEF Next, ClientCall

LEMMA CountersNext ==
  ASSUME TInv, QueueRefersToKnown, CountersAgree, [Next]_vars
  PROVE  CountersAgree'
  <1>1. CASE UNCHANGED <<stats, completed_tasks_total, total_completed>>
    BY <1>1 DEF CountersAgree
  <1>2. CASE WriteBack
    <2> DEFINE a == cur.agent
               ok == outcome = "Ok"
               c == CompletedOf
               f == FailedOf
               d == CompletedOf'
               g == FailedOf'
    <2>1. a \in AgentIds
      BY <1>2 DEF WriteBack, TInv, TypeOK, SlotAccounting, Entries
    <2>2. \A x \in AgentIds : stats[x].completed \in Nat /\ stats[x].failed \in Nat
      BY DEF TInv, TypeOK
    <2>3. stats' = IF ok THEN [stats EXCEPT ![a].completed = @ + 1]
                         ELSE [stats EXCEPT ![a].failed = @ + 1]
      BY <1>2 DEF WriteBack, StatsAfter
    <2>4. /\ completed_tasks_total' = completed_tasks_total + IF ok THEN 1 ELSE 0
          /\ total_completed' = total_completed + 1
      BY <1>2 DEF WriteBack
    <2>5. stats \in [AgentIds -> [completed: Nat, failed: Nat]]
      BY DEF TInv, TypeOK
    <2> HIDE DEF a, ok
    <2>6. \A x \in AgentIds :
            /\ stats'[x].completed = stats[x].completed + IF x = a /\ ok THEN 1 ELSE 0
            /\ stats'[x].failed = stats[x].failed + IF x = a /\ ~ok THEN 1 ELSE 0
      BY <2>1, <2>2, <2>3, <2>5
    <2>7. \A x \in AgentIds : /\ c[x] = stats[x].completed /\ d[x] = stats'[x].completed
                              /\ f[x] = stats[x].failed /\ g[x] = stats'[x].failed
      BY DEF CompletedOf, FailedOf
    <2> HIDE DEF c, d, f, g
    <2>8. IsFiniteSet(AgentIds)
      BY KernelAssumption DEF KernelAssumption
    <2>9. /\ \A x \in AgentIds : c[x] \in Nat
          /\ \A x \in AgentIds \ {a} : d[x] = c[x]
          /\ d[a] = c[a] + IF ok THEN 1 ELSE 0
          /\ d[a] \in Nat /\ c[a] \in Nat
      BY <2>1, <2>2, <2>6, <2>7
    <2>10. /\ \A x \in AgentIds : f[x] \in Nat
           /\ \A x \in AgentIds \ {a} : g[x] = f[x]
           /\ g[a] = f[a] + IF ok THEN 0 ELSE 1
           /\ g[a] \in Nat /\ f[a] \in Nat
      BY <2>1, <2>2, <2>6, <2>7
    <2>11. /\ Total(c, AgentIds) \in Nat /\ Total(d, AgentIds) \in Nat
           /\ Total(f, AgentIds) \in Nat /\ Total(g, AgentIds) \in Nat
      <3>1. /\ \A x \in AgentIds : d[x] \in Nat
            /\ \A x \in AgentIds : g[x] \in Nat
        BY <2>9, <2>10
      <3>2. QED
        BY <2>8, <2>9, <2>10, <3>1, TotalIsNat
    <2>12. Total(d, AgentIds) - d[a] = Total(c, AgentIds) - c[a]
      BY <2>1, <2>8, <2>9, TotalChanges
    <2>13. Total(g, AgentIds) - g[a] = Total(f, AgentIds) - f[a]
      BY <2>1, <2>8, <2>10, TotalChanges
    <2>14. /\ completed_tasks_total = Total(c, AgentIds)
           /\ total_completed = Total(c, AgentIds) + Total(f, AgentIds)
      BY CountersAreTotals DEF c, f
    <2>15. /\ completed_tasks_total' = Total(d, AgentIds)
           /\ total_completed' = Total(d, AgentIds) + Total(g, AgentIds)
      <3> DEFINE C == Total(c, AgentIds)
                 D == Total(d, AgentIds)
                 F == Total(f, AgentIds)
                 G == Total(g, AgentIds)
      <3>1. /\ C \in Nat /\ D \in Nat /\ F \in Nat /\ G \in Nat
            /\ D - d[a] = C - c[a] /\ G - g[a] = F - f[a]
            /\ completed_tasks_total = C /\ total_completed = C + F
        BY <2>11, <2>12, <2>13, <2>14
      <3> HIDE DEF C, D, F, G
      <3>2. CASE ok
        <4>1. d[a] = c[a] + 1 /\ g[a] = f[a] + 0
          BY <2>9, <2>10, <3>2
        <4>2. D = C + 1 /\ G = F
          BY <2>9, <2>10, <3>1, <4>1
        <4>3. completed_tasks_total' = completed_tasks_total + 1
          BY <2>4, <3>2
        <4>4. completed_tasks_total' = D /\ total_completed' = D + G
          BY <2>4, <3>1, <4>2, <4>3
        <4>5. QED
          BY <4>4 DEF D, G
      <3>3. CASE ~ok
        <4>1. d[a] = c[a] + 0 /\ g[a] = f[a] + 1
          BY <2>9, <2>10, <3>3
        <4>2. D = C /\ G = F + 1
          BY <2>9, <2>10, <3>1, <4>1
        <4>3. completed_tasks_total' = completed_tasks_total + 0
          BY <2>4, <3>3
        <4>4. completed_tasks_total' = D /\ total_completed' = D + G
          BY <2>4, <3>1, <4>2, <4>3
        <4>5. QED
          BY <4>4 DEF D, G
      <3>4. QED
        BY <3>2, <3>3
    <2>16. /\ d = [x \in AgentIds |-> stats'[x].completed]
           /\ g = [x \in AgentIds |-> stats'[x].failed]
      BY DEF d, g, CompletedOf, FailedOf
    <2>17. /\ SumOver(d, AgentIds) = Total(d, AgentIds)
           /\ SumOver(g, AgentIds) = Total(g, AgentIds)
      BY SumIsTotal
    <2>18. QED
      BY <2>15, <2>16, <2>17 DEF CountersAgree
  <1>3. QED
    BY <1>1, <1>2, CountersFrame

-----------------------------------------------------------------------------
(* The inductive invariant and what follows from it.                       *)

IInv == /\ TInv
        /\ QueueRefersToKnown
        /\ NoLostTask
        /\ CancelledNotQueued
        /\ RunningIsJournaled
        /\ ProcessTracksAgent
        /\ OnceInv
        /\ CountersAgree

\* IInv holds in every reachable state.
LEMMA IInvHolds == Spec => []IInv
  <1>1. Init => IInv
    <2> SUFFICES ASSUME Init PROVE IInv
      OBVIOUS
    <2>1. QueueRefersToKnown /\ NoLostTask /\ CancelledNotQueued
          /\ RunningIsJournaled /\ ProcessTracksAgent
      BY DEF Init, QueueRefersToKnown, NoLostTask, CancelledNotQueued,
             RunningIsJournaled, ProcessTracksAgent, Held, Live, Queued,
             TerminalStates, Absent
    <2>2. OnceInv
      BY FS_EmptySet DEF Init, OnceInv, AtMostOnce, Held
    <2>3. CountersAgree
      <3>1. /\ \A x \in AgentIds : CompletedOf[x] = 0 /\ FailedOf[x] = 0
            /\ completed_tasks_total = 0 /\ total_completed = 0
        BY DEF Init, CompletedOf, FailedOf
      <3>2. IsFiniteSet(AgentIds)
        BY KernelAssumption DEF KernelAssumption
      <3> DEFINE c == CompletedOf
                 f == FailedOf
      <3> HIDE DEF c, f
      <3>3. Total(c, AgentIds) = 0 /\ Total(f, AgentIds) = 0
        <4>1. \A x \in AgentIds : c[x] = 0 /\ f[x] = 0
          BY <3>1 DEF c, f
        <4>2. QED
          BY <3>2, <4>1, TotalOfZeros
      <3>4. QED
        BY <3>1, <3>3, CountersAreTotals DEF c, f
    <2>4. QED
      BY <2>1, <2>2, <2>3, TInvInit DEF IInv
  <1>2. IInv /\ [Next]_vars => IInv'
    BY TInvNext, RefersNext, NoLostNext, CancelledNext, RunningNext, TracksNext,
       OnceNext, CountersNext DEF IInv
  <1>3. QED
    BY <1>1, <1>2, PTL DEF Spec

\* kernel.rs:183 never skips a task, so no slot is lost there, and write-back
\* always finds the record and the agent it updates.
THEOREM EntriesAreKnown == Spec => []QueueRefersToKnown
  <1>1. IInv => QueueRefersToKnown
    BY DEF IInv
  <1>2. QED
    BY <1>1, IInvHolds, PTL

\* No accepted task is ever forgotten: while it is not in a terminal state, an
\* entry for it waits in the ready queue or the loop works on it.
THEOREM TasksAreNotLost == Spec => []NoLostTask
  <1>1. IInv => NoLostTask
    BY DEF IInv
  <1>2. QED
    BY <1>1, IInvHolds, PTL

\* cancel_task and destroy_agent take the tasks they cancel off the queue for
\* good: only a new submission can queue them again.
THEOREM CancelledAreDequeued == Spec => []CancelledNotQueued
  <1>1. IInv => CancelledNotQueued
    BY DEF IInv
  <1>2. QED
    BY <1>1, IInvHolds, PTL

\* At most one task says Running, the one in the loop's hands, and
\* in_flight_tasks reports it, unless the journal has outgrown its maximum and
\* dropped its transition; an older transition never reports it as settled.
THEOREM RunningIsInFlight == Spec => []RunningIsJournaled
  <1>1. IInv => RunningIsJournaled
    BY DEF IInv
  <1>2. QED
    BY <1>1, IInvHolds, PTL

\* AgentProcess.state and Agent.state disagree only while the record says Idle.
THEOREM ProcessFollowsRecord == Spec => []ProcessTracksAgent
  <1>1. IInv => ProcessTracksAgent
    BY DEF IInv
  <1>2. QED
    BY <1>1, IInvHolds, PTL

\* Each accepted submission is executed at most once.
THEOREM SubmissionsRunOnce == Spec => []AtMostOnce
  <1>1. IInv => AtMostOnce
    BY DEF IInv, OnceInv
  <1>2. QED
    BY <1>1, IInvHolds, PTL

\* The counters of the kernel, of the scheduler and of the agents' processes
\* (kernel.rs:390-409) tell of the same executions, each counted once.
THEOREM CountersStayInAgreement == Spec => []CountersAgree
  <1>1. IInv => CountersAgree
    BY DEF IInv
  <1>2. QED
    BY <1>1, IInvHolds, PTL

-----------------------------------------------------------------------------
(* The kernel implements TaskPool.                                         *)

\* Every action but five leaves the tickets as they are.
LEMMA PoolFrame ==
  ASSUME [Next]_vars,
         ~ \E a \in AgentIds : DestroyAgent(a),
         ~ \E t \in TaskIds, a \in AgentIds, s \in SubmitStates, p \in BOOLEAN :
             SubmitTask(t, a, s, p),
         ~ \E t \in TaskIds : CancelTask(t),
         ~ \E e \in ready : Dequeue(e),
         ~ WriteBack
  PROVE  UNCHANGED <<ready, cur, total_submitted, total_completed,
                     completed_tasks_total>>
  <1>1. CASE ClientCall
    BY <1>1
    DEF ClientCall, CreateAgent, PauseAgent, ResumeAgent, SendIntent, Shutdown,
        schedVars, loopVars, localVars
  <1>2. CASE LlmReply
    BY <1>2 DEF LlmReply, LlmEnds, LlmAsksForTools, schedVars
  <1>3. CASE LoopStep
    BY <1>3
    DEF LoopStep, LoopHead, PollAgain, Prepare, Configure, RoundsExhausted,
        AskLlm, ExecuteTool, schedVars
  <1>4. CASE UNCHANGED vars
    BY <1>4 DEF vars, schedVars, loopVars
  <1>5. QED
    BY <1>1, <1>2, <1>3, <1>4 DEF Next

\* A step of the kernel is a step of the pool or leaves the pool alone.
LEMMA PoolStep == TInv /\ [Next]_vars => [Pool!PoolNext]_(Pool!pool_vars)
  <1> SUFFICES ASSUME TInv, [Next]_vars
               PROVE  [Pool!PoolNext]_(Pool!pool_vars)
    OBVIOUS
  <1>1. ASSUME NEW a \in AgentIds, DestroyAgent(a)
        PROVE  Pool!PoolNext
    <2> DEFINE owned == {t \in TaskIds : Live(t) /\ taskAgent[t] = a}
    <2>1. owned \in SUBSET TaskIds
      OBVIOUS
    <2>2. Pool!Withdraw(owned)
      BY <1>1 DEF DestroyAgent, WithoutTasks, loopVars, Pool!Withdraw
    <2>3. QED
      BY <2>1, <2>2 DEF Pool!PoolNext
  <1>2. ASSUME NEW t \in TaskIds, NEW a \in AgentIds, NEW s \in SubmitStates,
               NEW p \in BOOLEAN, SubmitTask(t, a, s, p)
        PROVE  Pool!PoolNext
    <2>1. Pool!Accept(t, a)
      BY <1>2 DEF SubmitTask, loopVars, Pool!Accept
    <2>2. QED
      BY <2>1 DEF Pool!PoolNext
  <1>3. ASSUME NEW t \in TaskIds, CancelTask(t)
        PROVE  Pool!PoolNext
    <2>1. Pool!Withdraw({t})
      BY <1>3 DEF CancelTask, WithoutTasks, loopVars, Pool!Withdraw
    <2>2. QED
      BY <2>1 DEF Pool!PoolNext
  <1>4. ASSUME NEW e \in ready, Dequeue(e)
        PROVE  Pool!PoolNext
    <2>1. e # NoEntry
      BY KernelAssumption DEF TInv, TypeOK, KernelAssumption
    <2>2. cur = NoEntry
      BY <1>4 DEF Dequeue, TInv, SlotAccounting
    <2>3. Pool!Start(e)
      BY <1>4, <2>1, <2>2 DEF Dequeue, Popped, Pool!Start
    <2>4. QED
      BY <2>3 DEF Pool!PoolNext
  <1>5. ASSUME WriteBack
        PROVE  Pool!PoolNext
    <2>1. cur # NoEntry
      BY <1>5 DEF WriteBack, TInv, SlotAccounting
    <2>2. Pool!Finish(outcome = "Ok")
      BY <1>5, <2>1 DEF WriteBack, Pool!Finish
    <2>3. QED
      BY <2>2 DEF Pool!PoolNext
  <1>6. CASE UNCHANGED <<ready, cur, total_submitted, total_completed,
                         completed_tasks_total>>
    BY <1>6 DEF Pool!pool_vars
  <1>7. QED
    BY <1>1, <1>2, <1>3, <1>4, <1>5, <1>6, PoolFrame

\* Whoever knows only TaskPool is not misled: for any number of agents, tasks
\* and slots, whatever clients do between the loop's critical sections, each
\* submission runs at most once and alone and is withdrawn as a whole.
THEOREM KernelKeepsTickets == Spec => KeepsTickets
  <1>1. Init => Pool!PoolInit
    BY DEF Init, Pool!PoolInit
  <1>2. TInv /\ [Next]_vars => [Pool!PoolNext]_(Pool!pool_vars)
    BY PoolStep
  <1>3. QED
    BY <1>1, <1>2, TInvInit, TInvNext, PTL DEF Spec, KeepsTickets, Pool!PoolSpec
=============================================================================
