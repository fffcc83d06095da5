------------------------------ MODULE Scheduler ------------------------------
(***************************************************************************)
(* CognitiveScheduler (crates/lak-services/src/scheduler.rs): a BinaryHeap *)
(* of ready tasks, a list of blocked ones, and a count of running ones.    *)
(*                                                                         *)
(* The heap compares scores that grow with the time a task has waited.     *)
(* They change while the entries sit in the heap, and nothing restores the *)
(* heap order: so the heap is modelled as the array it is, with the sifts  *)
(* of std::collections::BinaryHeap.                                        *)
(*                                                                         *)
(* A task here is the CognitiveTask of one submission, a value that submit *)
(* and the calls after it move from one owner to the next.  Its task_id is *)
(* the client's, and several submissions may have the same one.  Callers   *)
(* return each task they were given once, to complete, block or preempt.   *)
(*                                                                         *)
(* Time passes in ticks, Second of them to a second.  A score counts the   *)
(* whole seconds since the entry was enqueued, so the scores of entries    *)
(* enqueued at different ticks of a second grow at different ticks.  Every *)
(* comparison reads the clock; a call takes less than a tick.              *)
(***************************************************************************)
EXTENDS Integers, Sequences, FiniteSets

CONSTANTS
  Tasks,          \* the submissions under way at once
  Ids, task_id,   \* the clients' ids, and the one of each submission
  Weightings,     \* what to set the tasks' weights to
  max_concurrent,
  Second,         \* ticks in a second
  Minute,         \* seconds in a minute (60)
  MaxAging        \* minutes after which a task stops aging (5)

ASSUME SchedulerAssumption ==
  /\ task_id \in [Tasks -> Ids]
  /\ Weightings \subseteq [Tasks -> Nat \ {0}]
  /\ max_concurrent \in Nat \ {0} /\ Second \in Nat \ {0}
  /\ Minute \in Nat \ {0} /\ MaxAging \in Nat

MaxWait == MaxAging * Minute * Second

\* A ScheduledTask; waited is the ticks since enqueued_at, up to the last that
\* its score counts.
Entries == [task: Tasks, waited: 0..MaxWait]
Heaps == Seq(Entries)

VARIABLES
  ready_queue,    \* the heap's array, its top first
  blocked_queue,
  running,        \* the tasks handed out and not yet returned
  running_count,
  weight          \* of each task: priority.score() times the coi boost, fixed

vars == <<ready_queue, blocked_queue, running, running_count, weight>>

-----------------------------------------------------------------------------
(* The heap.                                                               *)

\* scheduling_score, by a factor Minute: num_seconds cuts to whole seconds.
scheduling_score(e) == weight[e.task] * (Minute + e.waited \div Second)

Parent(i) == i \div 2
\* The child a downward sift compares or follows: the right one on a tie.
GreaterChild(h, i) ==
  IF 2 * i + 1 <= Len(h) /\ scheduling_score(h[2 * i]) <= scheduling_score(h[2 * i + 1])
  THEN 2 * i + 1 ELSE 2 * i
Swapped(h, i, j) == [h EXCEPT ![i] = h[j], ![j] = h[i]]

\* A heap's array and a position in it.
Cursors == {c \in Heaps \X Nat : c[2] \in 1..Len(c[1])}

\* Move the entry at i up while it beats its parent.
sift_up[c \in Cursors] ==
  LET h == c[1]
      i == c[2]
  IN  IF i = 1 \/ scheduling_score(h[i]) <= scheduling_score(h[Parent(i)]) THEN h
      ELSE sift_up[<<Swapped(h, i, Parent(i)), Parent(i)>>]

\* Move the entry at i down while a child beats it.
sift_down[c \in Cursors] ==
  LET h == c[1]
      i == c[2]
      child == GreaterChild(h, i)
  IN  IF 2 * i > Len(h) \/ scheduling_score(h[i]) >= scheduling_score(h[child]) THEN h
      ELSE sift_down[<<Swapped(h, i, child), child>>]

\* Move the entry at i down to a leaf unconditionally, and up again from there.
sift_down_to_bottom[c \in Cursors] ==
  LET h == c[1]
      i == c[2]
      child == GreaterChild(h, i)
  IN  IF 2 * i > Len(h) THEN sift_up[c]
      ELSE sift_down_to_bottom[<<Swapped(h, i, child), child>>]

\* push of an entry enqueued now.
Push(h, t) == sift_up[<<Append(h, [task |-> t, waited |-> 0]), Len(h) + 1>>]

PopRest_Unsifted(h) ==
  LET rest == SubSeq(h, 1, Len(h) - 1)
  IN  IF rest = <<>> THEN rest ELSE [rest EXCEPT ![1] = h[Len(h)]]
PopRest_Peek(h) == h
\* pop: the last entry takes the top's place and is sifted.
PopRest(h) ==
  LET last == h[Len(h)]
      rest == SubSeq(h, 1, Len(h) - 1)
  IN  IF rest = <<>> THEN rest
      ELSE sift_down_to_bottom[<<[rest EXCEPT ![1] = last], 1>>]

\* Repeated pops, the id's own entries dropped and the others kept in order.
Drained[c \in Heaps \X Ids] ==
  LET h == c[1]
      id == c[2]
      top == Head(h)
  IN  IF h = <<>> THEN <<>>
      ELSE (IF task_id[top.task] = id THEN <<>> ELSE <<top>>) \o Drained[<<PopRest(h), id>>]

\* BinaryHeap::from(vec), over the positions i, i - 1, ..., 1.
Building == {c \in Heaps \X Nat : c[2] <= Len(c[1])}
Rebuilt[c \in Building] ==
  IF c[2] = 0 THEN c[1] ELSE Rebuilt[<<sift_down[c], c[2] - 1>>]

WithoutTask_All(h, id) == IF id \in {task_id[h[i].task] : i \in DOMAIN h} THEN <<>> ELSE h
\* The heap cancel leaves: drained, filtered, rebuilt.
WithoutTask(h, id) ==
  LET kept == Drained[<<h, id>>] IN Rebuilt[<<kept, Len(kept) \div 2>>]

(* The blocked queue. *)

Removed(s, pos) == SubSeq(s, 1, pos - 1) \o SubSeq(s, pos + 1, Len(s))

\* retain of the tasks with another id.
Retained[c \in Seq(Tasks) \X Ids] ==
  LET s == c[1]
      id == c[2]
      first == Head(s)
  IN  IF s = <<>> THEN <<>>
      ELSE (IF task_id[first] = id THEN <<>> ELSE <<first>>) \o Retained[<<Tail(s), id>>]

-----------------------------------------------------------------------------
InHeap == {ready_queue[i].task : i \in DOMAIN ready_queue}
InBlocked == {blocked_queue[i] : i \in DOMAIN blocked_queue}
Known == InHeap \cup InBlocked \cup running

Init ==
  /\ ready_queue = <<>>
  /\ blocked_queue = <<>>
  /\ running = {}
  /\ running_count = 0
  /\ weight \in Weightings

\* A new value, whose id may be one in use: the guard names the submission, a
\* name that one that was cancelled or completed has left free.
submit(t) ==
  /\ t \notin Known
  /\ ready_queue' = Push(ready_queue, t)
  /\ UNCHANGED <<blocked_queue, running, running_count>>

HasCapacity == running_count < max_concurrent
schedule_next ==
  /\ HasCapacity
  /\ ready_queue # <<>>
  /\ ready_queue' = PopRest(ready_queue)
  /\ running' = running \cup {Head(ready_queue).task}
  /\ running_count' = running_count + 1
  /\ UNCHANGED blocked_queue

\* saturating_sub(1)
SlotFreed == IF running_count = 0 THEN 0 ELSE running_count - 1

complete(t) ==
  /\ t \in running
  /\ running' = running \ {t}
  /\ running_count' = SlotFreed
  /\ UNCHANGED <<ready_queue, blocked_queue>>

SlotAfterBlock_Kept == running_count
SlotAfterBlock == SlotFreed
block(t) ==
  /\ t \in running
  /\ running' = running \ {t}
  /\ running_count' = SlotAfterBlock
  /\ blocked_queue' = Append(blocked_queue, t)
  /\ UNCHANGED ready_queue

\* The first blocked entry with the id; its wait starts again.
unblock(id) ==
  /\ \E pos \in DOMAIN blocked_queue :
       /\ task_id[blocked_queue[pos]] = id
       /\ \A i \in 1..(pos - 1) : task_id[blocked_queue[i]] # id
       /\ blocked_queue' = Removed(blocked_queue, pos)
       /\ ready_queue' = Push(ready_queue, blocked_queue[pos])
  /\ UNCHANGED <<running, running_count>>

preempt(t) ==
  /\ t \in running
  /\ running' = running \ {t}
  /\ running_count' = SlotFreed
  /\ ready_queue' = Push(ready_queue, t)
  /\ UNCHANGED blocked_queue

\* Every waiting entry with the id; a running task is unaffected, and its
\* caller still returns it.
cancel(id) ==
  /\ ready_queue' = WithoutTask(ready_queue, id)
  /\ blocked_queue' = Retained[<<blocked_queue, id>>]
  /\ UNCHANGED <<running, running_count>>

\* A tick of the clock.
Tick ==
  /\ ready_queue' = [i \in DOMAIN ready_queue |->
        [ready_queue[i] EXCEPT !.waited = IF @ < MaxWait THEN @ + 1 ELSE @]]
  /\ UNCHANGED <<blocked_queue, running, running_count>>

\* The calls of the kernel; it never blocks, unblocks or preempts a task.
KernelCall ==
  \/ \E t \in Tasks : submit(t)
  \/ schedule_next
  \/ \E t \in Tasks : complete(t)
  \/ \E id \in Ids : cancel(id)

OtherCall ==
  \/ \E t \in Tasks : block(t) \/ preempt(t)
  \/ \E id \in Ids : unblock(id)

Next == (KernelCall \/ OtherCall \/ Tick) /\ UNCHANGED weight

Spec == Init /\ [][Next]_vars

(***************************************************************************)
(* The scheduler as the kernel uses it: the loop keeps asking for the next *)
(* task and returns each one, and time passes.                             *)
(***************************************************************************)
KernelNext == (KernelCall \/ Tick) /\ UNCHANGED weight

KernelSpec ==
  /\ Init /\ [][KernelNext]_vars
  /\ WF_vars(schedule_next /\ UNCHANGED weight)
  /\ WF_vars(Tick /\ UNCHANGED weight)
  /\ \A t \in Tasks : WF_vars(complete(t) /\ UNCHANGED weight)

-----------------------------------------------------------------------------
(* Properties.                                                             *)

TypeOK ==
  /\ ready_queue \in Seq(Entries)
  /\ blocked_queue \in Seq(Tasks)
  /\ running \subseteq Tasks
  /\ running_count \in 0..max_concurrent

\* Every slot is held by a task that was handed out and not returned, through
\* blocking, preemption and cancellation alike, and there are no more of them
\* than max_concurrent.
SlotsExact == TypeOK /\ running_count = Cardinality(running)

\* A submission is in one place only, and once, whoever shares its id: the
\* sifts, the drain-and-rebuild of cancel and the moves between the queues do
\* not duplicate an entry (Conserved says that they lose none).
OnePlace ==
  /\ Cardinality(InHeap) = Len(ready_queue)
  /\ Cardinality(InBlocked) = Len(blocked_queue)
  /\ InHeap \cap InBlocked = {} /\ InHeap \cap running = {} /\ InBlocked \cap running = {}

\* No operation on one id loses a task of another; a task returned takes none
\* with it that waits or runs, its id's own included; and what waits leaves
\* only to a caller or by the cancellation of its id.
Conserved ==
  [][/\ \A t, u \in Known \ Known' : task_id[t] = task_id[u]
     /\ running' # running => InHeap \cup InBlocked \subseteq Known'
     /\ Cardinality(running \ running') <= 1]_vars

\* The levels of the heap above a position.
Depth[i \in Nat] == IF i <= 1 THEN 0 ELSE 1 + Depth[Parent(i)]

\* Among tasks of one weight the top is the one that has waited longest, but
\* for less than a second a level: scores that tie when they are compared part
\* later, and the heap is not put in order again.
NearlyOldestFirst ==
  (\A t, u \in Tasks : weight[t] = weight[u]) =>
    \A i \in 2..Len(ready_queue) :
      ready_queue[i].waited < ready_queue[1].waited + Depth[i] * Second
=============================================================================
