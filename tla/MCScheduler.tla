----------------------------- MODULE MCScheduler -----------------------------
(* Small instances of Scheduler for TLC, with the scores of the priorities   *)
(* of task.rs, and a claim of scheduler.rs that the code does not keep.      *)
EXTENDS Scheduler, TLC

CONSTANTS t1, t2, t3, t4, t5

\* CognitivePriority::{low, normal, high, critical}().score()
low == 14
normal == 46
high == 78
critical == 98

\* Two submissions of one id, or each of an id of its own.
SharedId == t1 :> 1 @@ t2 :> 1 @@ t3 :> 2 @@ t4 :> 3 @@ t5 :> 4
OwnIds == [t \in Tasks |-> t]

MixedOrSame ==
  {t1 :> low @@ t2 :> normal @@ t3 :> high @@ t4 :> critical @@ t5 :> normal,
   [t \in Tasks |-> normal]}
BeyondAging == {t1 :> low @@ t2 :> critical @@ t3 :> critical}

\* scheduler.rs:75 "aging_factor increases with time spent waiting, preventing
\* starvation of low-priority tasks": a waiting task is handed out or cancelled
\* in the end.  Aging stops at a factor of six, and critical is seven times low.
NoStarvation == \A t \in Tasks : t \in InHeap ~> t \notin InHeap
=============================================================================
