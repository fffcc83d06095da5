---------------------------- MODULE KernelClaims ----------------------------
(***************************************************************************)
(* What comments of the repository say of agents and tasks, and the kernel *)
(* does not do.  Each definition quotes its source; each one is the        *)
(* property of one run that ends in a counterexample.                      *)
(***************************************************************************)
EXTENDS Kernel

\* Clients that submit nothing to an agent once it is terminated.
LivingAgentsSpec ==
  /\ Init
  /\ [][/\ Next
        /\ \A a \in AgentIds :
             agentState[a] = "Terminated" => consumed'[a] = consumed[a]]_vars

\* agent.rs:93 "Agent 被销毁" (the agent is destroyed), agent.rs:103 is_terminal
\* "是否已终结" (whether it has ended): no step of the execution loop brings a
\* terminated agent back.  Write-back sets the agent of its task to Idle, even
\* when it was destroyed while the loop worked on that task.
TerminatedIsFinal ==
  [][\A a \in AgentIds :
       pc' # pc /\ agentState[a] = "Terminated" =>
         agentState'[a] = "Terminated"]_vars

\* task.rs:132 "被取消" (was cancelled), and agent_lifecycle.rs:165-167 asserts that
\* the record of a task says Cancelled after cancel_task: no step of the execution
\* loop takes that back while the agent lives.  Phase 2 sets a task Running that
\* was cancelled after it was dequeued, and write-back overwrites a cancellation
\* during its execution.
CancelledStaysCancelled ==
  [][\A t \in tasks :
       /\ pc' # pc
       /\ taskState[t] = "Cancelled" /\ agentState[taskAgent[t]] # "Terminated"
       => taskState'[t] = "Cancelled"]_vars
=============================================================================
