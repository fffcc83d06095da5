------------------------------ MODULE TaskPool ------------------------------
(***************************************************************************)
(* What the kernel promises to those who submit tasks, with neither agents'*)
(* lives nor locks, phases or rounds: every accepted submission gets one   *)
(* ticket, which waits, runs alone and is finished once, or is withdrawn   *)
(* while it waits together with all tickets of its task.                   *)
(***************************************************************************)
EXTENDS Integers

CONSTANTS
  Tasks,           \* ids of tasks; several tickets may be for one task
  Agents           \* whom a ticket is charged to

VARIABLES
  waiting,         \* tickets that wait, as [seq, task, agent]
  running,         \* the ticket that runs, if any, in a set
  accepted,        \* tickets ever given
  finished,        \* tickets that have run to their end
  succeeded        \* those among them that ended well

pool_vars == <<waiting, running, accepted, finished, succeeded>>

PoolInit ==
  /\ waiting = {}
  /\ running = {}
  /\ accepted = 0
  /\ finished = 0
  /\ succeeded = 0

Accept(t, a) ==
  /\ accepted' = accepted + 1
  /\ waiting' = waiting \cup {[seq |-> accepted + 1, task |-> t, agent |-> a]}
  /\ UNCHANGED <<running, finished, succeeded>>

Withdraw(T) ==
  /\ waiting' = {x \in waiting : x.task \notin T}
  /\ UNCHANGED <<running, accepted, finished, succeeded>>

Start(x) ==
  /\ running = {}
  /\ waiting' = waiting \ {x}
  /\ running' = {x}
  /\ UNCHANGED <<accepted, finished, succeeded>>

Finish(well) ==
  /\ running # {}
  /\ running' = {}
  /\ finished' = finished + 1
  /\ succeeded' = succeeded + IF well THEN 1 ELSE 0
  /\ UNCHANGED <<waiting, accepted>>

PoolNext ==
  \/ \E t \in Tasks, a \in Agents : Accept(t, a)
  \/ \E T \in SUBSET Tasks : Withdraw(T)
  \/ \E x \in waiting : Start(x)
  \/ \E well \in BOOLEAN : Finish(well)

PoolSpec == PoolInit /\ [][PoolNext]_pool_vars
=============================================================================
