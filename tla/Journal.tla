------------------------------- MODULE Journal -------------------------------
(***************************************************************************)
(* The journal of task transitions (crates/lak-services/src/journal.rs):   *)
(* an append-only sequence that truncates its oldest entries and inserts a *)
(* checkpoint entry every so often.  The variable status stands for the    *)
(* task records of the kernel, whose calls are the actions.  Left out is   *)
(* task_index, which is maintained and never read.                         *)
(***************************************************************************)
EXTENDS Integers, Sequences, FiniteSets

CONSTANTS
  Tasks,
  NoTask,              \* the fresh id of an entry that concerns no known task
  max_entries,
  checkpoint_interval,
  MaxSequence          \* bound of the model: sequence numbers handed out

ASSUME JournalAssumption ==
  /\ NoTask \notin Tasks
  /\ max_entries \in Nat
  /\ checkpoint_interval \in Nat
  /\ MaxSequence \in Nat

Terminal == {"Completed", "Failed", "Cancelled"}
\* "Pending" stands for every state of a task that waits.
States == {"Pending", "Running"} \cup Terminal
\* "to" is the target of a StateTransition, or the kind of another entry.
Kinds == States \cup {"TaskCreated", "IntentReceived", "Checkpoint"}
JournalEntries == [sequence: Nat, task: Tasks \cup {NoTask}, to: Kinds]

VARIABLES
  entries,
  next_sequence,
  last_checkpoint_seq,
  status,      \* the state in each task's record; "None" before submission
  claimed,     \* the tasks whose record has the state that a client submitted
  api_calls    \* TRUE: the operations that the kernel never calls are used too

logVars == <<entries, next_sequence, last_checkpoint_seq>>
vars == <<logVars, status, claimed, api_calls>>

Init ==
  /\ entries = <<>>
  /\ next_sequence = 1
  /\ last_checkpoint_seq = 0
  /\ status = [t \in Tasks |-> "None"]
  /\ claimed = {}
  /\ api_calls \in BOOLEAN

-----------------------------------------------------------------------------
(* The operations of CognitiveJournal.                                     *)

Positions(log, t) == {i \in DOMAIN log : log[i].task = t}
Last(S) == CHOOSE i \in S : \A j \in S : j <= i

DropOldest(log, n) == SubSeq(log, n + 1, Len(log))

Truncated_OneTooFew(log) ==
  IF Len(log) > max_entries THEN DropOldest(log, Len(log) - max_entries - 1) ELSE log
\* truncate_oldest, when the log has outgrown its maximum.
Truncated(log) ==
  IF Len(log) > max_entries THEN DropOldest(log, Len(log) - max_entries) ELSE log

IsTransition(e) == e.to \in States
Transitions(log, t) == {i \in Positions(log, t) : IsTransition(log[i])}
InFlight_EverUnsettled(log) ==
  {t \in Tasks : \E i \in Transitions(log, t) : log[i].to \notin Terminal}
InFlight_NeverSettled(log) ==
  {t \in Tasks : /\ Transitions(log, t) # {}
                 /\ \A i \in Transitions(log, t) : log[i].to \notin Terminal}
\* in_flight_tasks: the last transition of the task is not to a terminal state.
InFlight(log) ==
  {t \in Tasks : /\ Transitions(log, t) # {}
                 /\ log[Last(Transitions(log, t))].to \notin Terminal}

CheckpointDue_Never(next) == FALSE
CheckpointDue(next) == next - last_checkpoint_seq >= checkpoint_interval

SequenceAfterCheckpoint_Reused == next_sequence + 1
SequenceAfterCheckpoint == next_sequence + 2

Entry(seq, t, to) == [sequence |-> seq, task |-> t, to |-> to]

(***************************************************************************)
(* append: push, truncate to max_entries, and then perhaps a checkpoint on *)
(* top.  The checkpoint's counts are not kept.                             *)
(***************************************************************************)
Log(t, to) ==
  LET pushed == Append(entries, Entry(next_sequence, t, to))
      kept   == Truncated(pushed)
  IN  /\ next_sequence < MaxSequence
      /\ IF CheckpointDue(next_sequence + 1)
         THEN /\ entries' = Append(kept, Entry(next_sequence + 1, NoTask, "Checkpoint"))
              /\ last_checkpoint_seq' = next_sequence + 1
              /\ next_sequence' = SequenceAfterCheckpoint
         ELSE /\ entries' = kept
              /\ next_sequence' = next_sequence + 1
              /\ UNCHANGED last_checkpoint_seq

\* checkpoint, called directly.
Checkpoint ==
  /\ next_sequence < MaxSequence
  /\ entries' = Append(entries, Entry(next_sequence, NoTask, "Checkpoint"))
  /\ last_checkpoint_seq' = next_sequence
  /\ next_sequence' = next_sequence + 1
  /\ UNCHANGED <<status, claimed>>

\* truncate_before: a binary search on the sequence numbers, then a drain.
TruncateBefore(seq) ==
  LET older == Cardinality({i \in DOMAIN entries : entries[i].sequence < seq})
  IN  /\ entries' = DropOldest(entries, older)
      /\ UNCHANGED <<next_sequence, last_checkpoint_seq, status, claimed>>

Clear ==
  /\ entries' = <<>>
  /\ next_sequence' = 1
  /\ last_checkpoint_seq' = 0
  /\ UNCHANGED <<status, claimed>>

-----------------------------------------------------------------------------
(* The calls of the kernel.                                                *)

\* submit_task, whatever is known of the task's id: the record is the client's,
\* its state included.
SubmitTask(t, s) ==
  /\ status' = [status EXCEPT ![t] = s]
  /\ claimed' = claimed \cup {t}
  /\ Log(t, "TaskCreated")

\* The loop's phases 2 and 4 and cancel_task: the record and its transition
\* together, whatever the record says by then.
RecordTransition(t, to) ==
  /\ status[t] # "None"
  /\ status' = [status EXCEPT ![t] = to]
  /\ claimed' = claimed \ {t}
  /\ Log(t, to)

\* destroy_agent cancels the live tasks T of an agent and journals nothing.
DestroyAgent(T) ==
  /\ \A t \in T : status[t] \in {"Pending", "Running"}
  /\ status' = [t \in Tasks |-> IF t \in T THEN "Cancelled" ELSE status[t]]
  /\ claimed' = claimed \ T
  /\ UNCHANGED logVars

\* send_intent journals under a fresh task id.
SendIntent == Log(NoTask, "IntentReceived") /\ UNCHANGED <<status, claimed>>

KernelCall ==
  \/ \E t \in Tasks, s \in States : SubmitTask(t, s)
  \/ \E t \in Tasks, to \in {"Running"} \cup Terminal : RecordTransition(t, to)
  \/ \E T \in SUBSET Tasks : DestroyAgent(T)
  \/ SendIntent

OtherCall ==
  \/ Checkpoint
  \/ \E seq \in 1..MaxSequence : TruncateBefore(seq)
  \/ Clear

Next == (KernelCall \/ (api_calls /\ OtherCall)) /\ UNCHANGED api_calls

Spec == Init /\ [][Next]_vars

-----------------------------------------------------------------------------
(* Properties.                                                             *)

TypeOK ==
  /\ entries \in Seq(JournalEntries)
  /\ next_sequence \in Nat \ {0}
  /\ last_checkpoint_seq \in Nat /\ last_checkpoint_seq < next_sequence
  /\ status \in [Tasks -> States \cup {"None"}]
  /\ claimed \subseteq Tasks
  /\ api_calls \in BOOLEAN

\* Sequence numbers are consecutive and end just below next_sequence, whatever
\* was truncated: entries_since, entries_range and truncate_before search the
\* sequence by bisection and rely on it.
Contiguous ==
  \A i \in DOMAIN entries :
    entries[i].sequence = next_sequence - Len(entries) + i - 1

\* Under the kernel's calls the journal is at most one entry, a checkpoint,
\* over its maximum.
SizeBounded == ~api_calls => Len(entries) <= max_entries + 1

\* The journal is never silent for a whole interval: fewer entries than
\* checkpoint_interval follow the last checkpoint.
CheckpointsAreRegular ==
  checkpoint_interval > 1 => next_sequence - last_checkpoint_seq < checkpoint_interval

\* A recovery from in_flight_tasks restarts no task that the kernel has
\* completed or failed and no client has submitted again, whatever was truncated
\* or cancelled in between.
InFlightSound ==
  \A t \in InFlight(entries) \ claimed : status[t] \notin {"Completed", "Failed"}

\* As long as nothing was dropped, a recovery would restart every task that the
\* kernel has made Running and no client has submitted again.
InFlightComplete ==
  ~api_calls /\ entries # <<>> /\ entries[1].sequence = 1 =>
    \A t \in Tasks \ claimed : status[t] = "Running" => t \in InFlight(entries)
=============================================================================
