---------------------------- MODULE JournalProofs ----------------------------
(***************************************************************************)
(* Theorems about Journal, for every maximum size, checkpoint interval and *)
(* number of entries: its numbering, its size, its checkpoints, and what   *)
(* in_flight_tasks tells a recovery of the kernel's task records.          *)
(***************************************************************************)
EXTENDS Journal, FiniteSetTheorems, SequenceTheorems, TLAPS

LogType ==
  /\ entries \in Seq(JournalEntries)
  /\ next_sequence \in Nat \ {0}
  /\ last_checkpoint_seq \in Nat /\ last_checkpoint_seq < next_sequence

\* The three properties, inductive together with the types of the log.
JInv == LogType /\ Contiguous /\ SizeBounded /\ CheckpointsAreRegular

\* A log is consecutive up to next.
ConsecutiveTo(log, next) ==
  \A i \in 1..Len(log) : log[i].sequence = next - Len(log) + i - 1

\* Dropping the oldest n entries leaves a log that is consecutive to the same
\* number.
LEMMA DropKeepsConsecutive ==
  ASSUME NEW log \in Seq(JournalEntries), NEW n \in 0..Len(log),
         NEW next \in Nat, ConsecutiveTo(log, next)
  PROVE  /\ DropOldest(log, n) \in Seq(JournalEntries)
         /\ Len(DropOldest(log, n)) = Len(log) - n
         /\ ConsecutiveTo(DropOldest(log, n), next)
  <1> DEFINE rest == SubSeq(log, n + 1, Len(log))
  <1>1. n \in Nat /\ Len(log) \in Nat /\ n <= Len(log)
    OBVIOUS
  <1>2. \A i \in n + 1 .. Len(log) : log[i] \in JournalEntries
    BY <1>1, ElementOfSeq
  <1>3. /\ rest \in Seq(JournalEntries)
        /\ Len(rest) = IF n + 1 <= Len(log) THEN Len(log) - (n + 1) + 1 ELSE 0
        /\ \A i \in 1 .. Len(log) - (n + 1) + 1 : rest[i] = log[n + 1 + i - 1]
    <2>1. n + 1 \in Int /\ Len(log) \in Int
      BY <1>1
    <2>2. QED
      BY <2>1, <1>2, SubSeqProperties
  <1>4. Len(rest) = Len(log) - n
    BY <1>1, <1>3
  <1>5. ASSUME NEW i \in 1..Len(rest)
        PROVE  rest[i].sequence = next - Len(rest) + i - 1
    <2>1. rest[i] = log[n + i] /\ n + i \in 1..Len(log)
      BY <1>1, <1>3, <1>4
    <2>2. log[n + i].sequence = next - Len(log) + (n + i) - 1
      BY <2>1 DEF ConsecutiveTo
    <2>3. Len(rest) \in Nat /\ next \in Nat /\ i \in Nat
      BY <1>1, <1>4
    <2> HIDE DEF rest
    <2>4. next - Len(log) + (n + i) - 1 = next - Len(rest) + i - 1
      BY <1>1, <1>4, <2>3
    <2>5. QED
      BY <2>1, <2>2, <2>4
  <1>6. QED
    BY <1>3, <1>4, <1>5 DEF DropOldest, ConsecutiveTo

\* Pushing the entry numbered next makes the log consecutive to next + 1.
LEMMA PushKeepsConsecutive ==
  ASSUME NEW log \in Seq(JournalEntries), NEW next \in Nat,
         ConsecutiveTo(log, next),
         NEW t \in Tasks \cup {NoTask}, NEW to \in Kinds
  PROVE  /\ Append(log, Entry(next, t, to)) \in Seq(JournalEntries)
         /\ Len(Append(log, Entry(next, t, to))) = Len(log) + 1
         /\ ConsecutiveTo(Append(log, Entry(next, t, to)), next + 1)
  <1> DEFINE e == Entry(next, t, to)
  <1>1. e \in JournalEntries /\ e.sequence = next
    BY DEF Entry, JournalEntries
  <1> HIDE DEF e
  <1>2. /\ Append(log, e) \in Seq(JournalEntries)
        /\ Len(Append(log, e)) = Len(log) + 1
        /\ \A i \in 1..Len(log) : Append(log, e)[i] = log[i]
        /\ Append(log, e)[Len(log) + 1] = e
    BY <1>1, AppendProperties
  <1>3. ConsecutiveTo(Append(log, e), next + 1)
    <2> SUFFICES ASSUME NEW i \in 1..Len(log) + 1
                 PROVE  Append(log, e)[i].sequence = next + 1 - (Len(log) + 1) + i - 1
      BY <1>2 DEF ConsecutiveTo
    <2>1. Len(log) \in Nat
      OBVIOUS
    <2>2. CASE i = Len(log) + 1
      BY <1>1, <1>2, <2>1, <2>2
    <2>3. CASE i \in 1..Len(log)
      <3>1. log[i].sequence = next - Len(log) + i - 1
        BY <2>3 DEF ConsecutiveTo
      <3>2. Append(log, e)[i] = log[i]
        BY <1>2, <2>3
      <3>3. QED
        BY <2>1, <3>1, <3>2
    <2>4. QED
      BY <2>1, <2>2, <2>3
  <1>4. QED
    BY <1>2, <1>3 DEF e

\* A set of positions has no more members than the log has entries.
LEMMA PositionsCount ==
  ASSUME NEW log \in Seq(JournalEntries), NEW S \in SUBSET DOMAIN log
  PROVE  Cardinality(S) \in 0..Len(log)
  <1>1. Len(log) \in Nat /\ DOMAIN log = 1..Len(log)
    OBVIOUS
  <1>2. IsFiniteSet(1..Len(log)) /\ Cardinality(1..Len(log)) = Len(log)
    <2>1. 1 \in Int /\ Len(log) \in Int
      BY <1>1
    <2>2. /\ IsFiniteSet(1..Len(log))
          /\ Cardinality(1..Len(log)) = IF 1 > Len(log) THEN 0 ELSE Len(log) - 1 + 1
      BY <2>1, FS_Interval, Zenon
    <2>3. QED
      BY <1>1, <2>2
  <1>3. S \in SUBSET (1..Len(log))
    BY <1>1
  <1>4. Cardinality(S) <= Len(log) /\ Cardinality(S) \in Nat
    BY <1>2, <1>3, FS_Subset, FS_CardinalityType
  <1>5. QED
    BY <1>1, <1>4

\* append: push, truncate, and perhaps a checkpoint on top.
LEMMA LogKeepsJInv ==
  ASSUME JInv, NEW t \in Tasks \cup {NoTask}, NEW to \in Kinds, Log(t, to),
         UNCHANGED api_calls
  PROVE  JInv'
  <1> DEFINE pushed == Append(entries, Entry(next_sequence, t, to))
             kept   == Truncated(pushed)
             mark   == Entry(next_sequence + 1, NoTask, "Checkpoint")
             due    == CheckpointDue(next_sequence + 1)
  <1> USE JournalAssumption DEF JournalAssumption
  <1>1. /\ entries \in Seq(JournalEntries)
        /\ next_sequence \in Nat \ {0}
        /\ last_checkpoint_seq \in Nat /\ last_checkpoint_seq < next_sequence
        /\ ConsecutiveTo(entries, next_sequence)
    BY DEF JInv, LogType, Contiguous, ConsecutiveTo
  <1>2. /\ pushed \in Seq(JournalEntries)
        /\ Len(pushed) = Len(entries) + 1
        /\ ConsecutiveTo(pushed, next_sequence + 1)
    BY <1>1, PushKeepsConsecutive
  <1>3. /\ kept \in Seq(JournalEntries)
        /\ ConsecutiveTo(kept, next_sequence + 1)
        /\ Len(kept) <= max_entries
    <2>1. Len(pushed) \in Nat
      BY <1>2
    <2> HIDE DEF pushed
    <2>2. CASE Len(pushed) > max_entries
      <3>1. Len(pushed) - max_entries \in 0..Len(pushed) /\ next_sequence + 1 \in Nat
        BY <1>1, <2>1, <2>2
      <3>2. Len(pushed) - (Len(pushed) - max_entries) = max_entries
        BY <2>1
      <3>3. /\ DropOldest(pushed, Len(pushed) - max_entries) \in Seq(JournalEntries)
            /\ Len(DropOldest(pushed, Len(pushed) - max_entries)) = max_entries
            /\ ConsecutiveTo(DropOldest(pushed, Len(pushed) - max_entries),
                             next_sequence + 1)
        BY <1>2, <3>1, <3>2, DropKeepsConsecutive
      <3>4. QED
        BY <2>2, <3>3 DEF Truncated
    <2>3. CASE ~(Len(pushed) > max_entries)
      BY <1>2, <2>1, <2>3 DEF Truncated
    <2>4. QED
      BY <2>2, <2>3
  <1> HIDE DEF pushed, kept
  <1>4. CASE due
    <2>1. /\ entries' = Append(kept, mark)
          /\ last_checkpoint_seq' = next_sequence + 1
          /\ next_sequence' = next_sequence + 2
      BY <1>4 DEF Log, SequenceAfterCheckpoint, pushed, kept
    <2>2. "Checkpoint" \in Kinds /\ NoTask \in Tasks \cup {NoTask}
          /\ next_sequence + 1 \in Nat
      BY <1>1 DEF Kinds
    <2>3. /\ Append(kept, mark) \in Seq(JournalEntries)
          /\ Len(Append(kept, mark)) = Len(kept) + 1
          /\ ConsecutiveTo(Append(kept, mark), next_sequence + 1 + 1)
      BY <1>3, <2>2, PushKeepsConsecutive
    <2>4. next_sequence + 1 + 1 = next_sequence + 2
      BY <1>1
    <2>5. LogType'
      <3>1. entries' \in Seq(JournalEntries)
        BY <2>1, <2>3
      <3>2. /\ next_sequence' \in Nat \ {0}
            /\ last_checkpoint_seq' \in Nat /\ last_checkpoint_seq' < next_sequence'
        <4>1. next_sequence \in Nat
          BY <1>1
        <4>2. QED
          BY <2>1, <4>1
      <3>3. QED
        BY <3>1, <3>2 DEF LogType
    <2>6. Contiguous'
      <3>1. ConsecutiveTo(entries', next_sequence')
        BY <2>1, <2>3, <2>4
      <3>2. QED
        BY <3>1 DEF Contiguous, ConsecutiveTo
    <2>7. SizeBounded'
      <3>1. Len(kept) \in Nat
        BY <1>3
      <3>2. Len(entries') <= max_entries + 1
        BY <1>3, <2>1, <2>3, <3>1
      <3>3. QED
        BY <3>2 DEF SizeBounded
    <2>8. CheckpointsAreRegular'
      BY <1>1, <2>1 DEF CheckpointsAreRegular
    <2>9. QED
      BY <2>5, <2>6, <2>7, <2>8 DEF JInv
  <1>5. CASE ~due
    <2>1. /\ entries' = kept
          /\ last_checkpoint_seq' = last_checkpoint_seq
          /\ next_sequence' = next_sequence + 1
      BY <1>5 DEF Log, pushed, kept
    <2>2. LogType'
      BY <1>1, <1>3, <2>1 DEF LogType
    <2>3. Contiguous'
      BY <1>3, <2>1 DEF Contiguous, ConsecutiveTo
    <2>4. SizeBounded'
      <3>1. Len(kept) \in Nat
        BY <1>3
      <3>2. QED
        BY <1>3, <2>1, <3>1 DEF SizeBounded
    <2>5. CheckpointsAreRegular'
      BY <1>1, <1>5, <2>1 DEF CheckpointDue, CheckpointsAreRegular
    <2>6. QED
      BY <2>2, <2>3, <2>4, <2>5 DEF JInv
  <1>6. QED
    BY <1>4, <1>5

\* The empty log has all three properties.
LEMMA JInvInit == Init => JInv
  BY JournalAssumption
  DEF JournalAssumption, Init, JInv, LogType, Contiguous, SizeBounded, CheckpointsAreRegular

\* Every operation preserves the invariant.
LEMMA JInvStep == JInv /\ [Next]_vars => JInv'
  <1> SUFFICES ASSUME JInv, [Next]_vars PROVE JInv'
    OBVIOUS
  <1> USE JournalAssumption DEF JournalAssumption
  <1>1. /\ entries \in Seq(JournalEntries)
        /\ next_sequence \in Nat \ {0}
        /\ last_checkpoint_seq \in Nat /\ last_checkpoint_seq < next_sequence
        /\ ConsecutiveTo(entries, next_sequence)
    BY DEF JInv, LogType, Contiguous, ConsecutiveTo
  <1>2. ASSUME NEW t \in Tasks, NEW s \in States, SubmitTask(t, s), UNCHANGED api_calls
        PROVE  JInv'
    <2>1. "TaskCreated" \in Kinds
      BY DEF Kinds
    <2>2. Log(t, "TaskCreated")
      BY <1>2 DEF SubmitTask
    <2>3. QED
      BY <1>2, <2>1, <2>2, LogKeepsJInv
  <1>3. ASSUME NEW t \in Tasks, NEW to \in {"Running"} \cup Terminal, RecordTransition(t, to),
               UNCHANGED api_calls
        PROVE  JInv'
    <2>1. to \in Kinds
      BY DEF Kinds, States, Terminal
    <2>2. Log(t, to)
      BY <1>3 DEF RecordTransition
    <2>3. QED
      BY <1>3, <2>1, <2>2, LogKeepsJInv
  <1>4. ASSUME UNCHANGED <<logVars, api_calls>> PROVE JInv'
    BY <1>4 DEF logVars, JInv, LogType, Contiguous, SizeBounded, CheckpointsAreRegular
  <1>5. CASE SendIntent /\ UNCHANGED api_calls
    <2>1. "IntentReceived" \in Kinds
      BY DEF Kinds
    <2>2. Log(NoTask, "IntentReceived")
      BY <1>5 DEF SendIntent
    <2>3. QED
      BY <1>5, <2>1, <2>2, LogKeepsJInv
  <1>6. CASE api_calls /\ Checkpoint /\ UNCHANGED api_calls
    <2>1. "Checkpoint" \in Kinds
      BY DEF Kinds
    <2>2. /\ entries' = Append(entries, Entry(next_sequence, NoTask, "Checkpoint"))
          /\ last_checkpoint_seq' = next_sequence
          /\ next_sequence' = next_sequence + 1
      BY <1>6 DEF Checkpoint
    <2>3. /\ entries' \in Seq(JournalEntries)
          /\ ConsecutiveTo(entries', next_sequence + 1)
      BY <1>1, <2>1, <2>2, PushKeepsConsecutive
    <2>4. LogType'
      BY <1>1, <2>2, <2>3 DEF LogType
    <2>5. Contiguous'
      BY <2>2, <2>3 DEF Contiguous, ConsecutiveTo
    <2>6. SizeBounded' /\ CheckpointsAreRegular'
      BY <1>1, <1>6, <2>2 DEF SizeBounded, CheckpointsAreRegular
    <2>7. QED
      BY <2>4, <2>5, <2>6 DEF JInv
  <1>7. ASSUME api_calls, NEW seq \in 1..MaxSequence, TruncateBefore(seq),
               UNCHANGED api_calls
        PROVE  JInv'
    <2> DEFINE before == {i \in DOMAIN entries : entries[i].sequence < seq}
               older  == Cardinality(before)
    <2>1. older \in 0..Len(entries)
      <3>1. before \in SUBSET DOMAIN entries
        OBVIOUS
      <3> HIDE DEF before
      <3>2. QED
        BY <1>1, <3>1, PositionsCount
    <2>2. /\ entries' = DropOldest(entries, older)
          /\ UNCHANGED <<next_sequence, last_checkpoint_seq>>
      BY <1>7 DEF TruncateBefore
    <2> HIDE DEF older
    <2>3. /\ entries' \in Seq(JournalEntries)
          /\ ConsecutiveTo(entries', next_sequence)
      BY <1>1, <2>1, <2>2, DropKeepsConsecutive
    <2>4. LogType'
      BY <1>1, <2>2, <2>3 DEF LogType
    <2>5. Contiguous'
      BY <2>2, <2>3 DEF Contiguous, ConsecutiveTo
    <2>6. SizeBounded' /\ CheckpointsAreRegular'
      BY <1>7, <2>2 DEF SizeBounded, CheckpointsAreRegular, JInv
    <2>7. QED
      BY <2>4, <2>5, <2>6 DEF JInv
  <1>8. CASE Clear
    <2>1. entries' = <<>> /\ next_sequence' = 1 /\ last_checkpoint_seq' = 0
      BY <1>8 DEF Clear
    <2>2. QED
      BY <2>1 DEF JInv, LogType, Contiguous, SizeBounded, CheckpointsAreRegular
  <1>9. QED
    BY <1>2, <1>3, <1>4, <1>5, <1>6, <1>7, <1>8
    DEF Next, KernelCall, OtherCall, DestroyAgent, vars

\* Numbering, size and checkpoints of the log hold together (append, checkpoint,
\* truncate_before, clear).
THEOREM JournalInvariant == Spec => []JInv
  BY JInvInit, JInvStep, PTL DEF Spec

\* entries_since, entries_range and truncate_before may search the log by
\* bisection: its sequence numbers have no gap, whatever was truncated.
THEOREM SequenceIsContiguous == Spec => []Contiguous
  <1>1. JInv => Contiguous
    BY DEF JInv
  <1>2. QED
    BY <1>1, JournalInvariant, PTL

\* The kernel's journal never grows beyond max_entries and one checkpoint.
THEOREM SizeIsBounded == Spec => []SizeBounded
  <1>1. JInv => SizeBounded
    BY DEF JInv
  <1>2. QED
    BY <1>1, JournalInvariant, PTL

\* Fewer than checkpoint_interval entries follow the last checkpoint.
THEOREM CheckpointsComeInTime == Spec => []CheckpointsAreRegular
  <1>1. JInv => CheckpointsAreRegular
    BY DEF JInv
  <1>2. QED
    BY <1>1, JournalInvariant, PTL
-----------------------------------------------------------------------------
(* The last transitions, and what the kernel's records say.                *)

\* The types of the log are those of JInv; the rest is by inspection.
RecordTypes ==
  /\ status \in [Tasks -> States \cup {"None"}]
  /\ claimed \subseteq Tasks
  /\ api_calls \in BOOLEAN

\* What the records say of the tasks that the kernel has moved; the others are
\* taken to wait, whatever their clients claim.
Told == [t \in Tasks |-> IF t \in claimed THEN "Pending" ELSE status[t]]

\* i is where the log has the last transition of t.
IsLast(log, t, i) ==
  i \in Transitions(log, t) /\ \A j \in Transitions(log, t) : j <= i

\* A record says what the last transition says, unless the task has been
\* submitted again or cancelled with its agent, which are no transitions.
Agree(log, record) ==
  \A t \in Tasks, i \in Nat :
    IsLast(log, t, i) => record[t] \in {log[i].to, "Pending", "Cancelled"}

\* Every Running record has its last transition in the log.
RunningLogged(log, record) ==
  \A t \in Tasks : record[t] = "Running" =>
    \E i \in Nat : IsLast(log, t, i) /\ log[i].to = "Running"

\* Nothing has been dropped when there is an entry for every number.
Whole(log, next) == Len(log) = next - 1

RInv ==
  /\ RecordTypes
  /\ Len(entries) <= next_sequence - 1
  /\ Agree(entries, Told)
  /\ ~api_calls /\ Whole(entries, next_sequence) => RunningLogged(entries, Told)

\* A bounded set of numbers has a greatest one: there is a least distance to
\* the bound.
LEMMA Greatest ==
  ASSUME NEW n \in Nat, NEW S \in SUBSET (0..n), S # {}
  PROVE  \E x \in S : \A y \in S : y <= x
  <1> DEFINE R == {p \in Nat \X Nat : p[1] < p[2]}
             T == {n - x : x \in S}
  <1>1. IsWellFoundedOn(R, Nat)
    BY NatLessThanWellFounded, Zenon DEF OpToRel
  <1>2. T \in SUBSET Nat /\ T # {}
    <2>1. \A x \in S : n - x \in T /\ n - x \in Nat
      OBVIOUS
    <2>2. QED
      BY <2>1
  <1>3. PICK z \in T : \A y \in T : ~(<<y, z>> \in R)
    <2> HIDE DEF R, T
    <2>1. QED
      BY <1>1, <1>2, WFMin, Zenon
  <1>4. PICK x \in S : z = n - x
    BY <1>3, Zenon
  <1>5. ASSUME NEW y \in S
        PROVE  y <= x
    <2>1. n - y \in T
      OBVIOUS
    <2>2. ~(<<n - y, z>> \in R)
      BY <1>3, <2>1
    <2>3. ~(n - y < z)
      BY <2>2, <1>2, <2>1
    <2>4. QED
      BY <1>4, <2>3
  <1>6. QED
    BY <1>5

\* A task with a transition has a last one, and Last finds it.
LEMMA LastIsLast ==
  ASSUME NEW log \in Seq(JournalEntries), NEW t, Transitions(log, t) # {}
  PROVE  /\ IsLast(log, t, Last(Transitions(log, t)))
         /\ Last(Transitions(log, t)) \in Nat
  <1>1. Len(log) \in Nat /\ Transitions(log, t) \in SUBSET (0..Len(log))
    BY DEF Transitions, Positions
  <1>2. \E i \in Transitions(log, t) : \A j \in Transitions(log, t) : j <= i
    BY <1>1, Greatest
  <1>3. IsLast(log, t, Last(Transitions(log, t)))
    BY <1>2, Zenon DEF IsLast, Last
  <1>4. QED
    BY <1>1, <1>3 DEF IsLast

\* There is one last transition.
LEMMA LastIsUnique ==
  ASSUME NEW log, NEW t, NEW i \in Nat, NEW j \in Nat,
         IsLast(log, t, i), IsLast(log, t, j)
  PROVE  i = j
  <1>1. i <= j /\ j <= i
    BY DEF IsLast
  <1>2. QED
    BY <1>1

\* The last transition in what is left when the oldest entries are dropped was
\* the last before.
LEMMA DropKeepsAgreement ==
  ASSUME NEW log \in Seq(JournalEntries), NEW n \in 0..Len(log), NEW record,
         Agree(log, record)
  PROVE  Agree(DropOldest(log, n), record)
  <1> DEFINE rest == DropOldest(log, n)
  <1>1. n \in Nat /\ Len(log) \in Nat /\ n <= Len(log)
    OBVIOUS
  <1>2. /\ DOMAIN rest = 1 .. Len(log) - n
        /\ \A i \in 1 .. Len(log) - n : rest[i] = log[i + n]
    BY <1>1 DEF DropOldest
  <1> HIDE DEF rest
  <1>3. SUFFICES ASSUME NEW t \in Tasks, NEW i \in Nat, IsLast(rest, t, i)
                 PROVE  record[t] \in {rest[i].to, "Pending", "Cancelled"}
    BY DEF Agree, rest
  <1>4. i \in 1 .. Len(log) - n /\ rest[i].task = t /\ IsTransition(rest[i])
    BY <1>2, <1>3 DEF IsLast, Transitions, Positions
  <1>5. rest[i] = log[i + n] /\ i + n \in 1..Len(log)
    BY <1>1, <1>2, <1>4
  <1>6. i + n \in Transitions(log, t)
    BY <1>4, <1>5 DEF Transitions, Positions
  <1>7. ASSUME NEW j \in Transitions(log, t)
        PROVE  j <= i + n
    <2>1. j \in 1..Len(log) /\ log[j].task = t /\ IsTransition(log[j])
      BY DEF Transitions, Positions
    <2>2. CASE j > n
      <3>1. j - n \in 1 .. Len(log) - n /\ (j - n) + n = j
        BY <1>1, <2>1, <2>2
      <3>2. rest[j - n] = log[j]
        BY <1>2, <3>1
      <3>3. j - n \in Transitions(rest, t)
        BY <1>2, <2>1, <3>1, <3>2 DEF Transitions, Positions
      <3>4. j - n <= i
        BY <1>3, <3>3 DEF IsLast
      <3>5. QED
        BY <1>1, <2>1, <3>4
    <2>3. CASE ~(j > n)
      BY <1>1, <1>4, <2>1, <2>3
    <2>4. QED
      BY <2>2, <2>3
  <1>8. IsLast(log, t, i + n) /\ i + n \in Nat
    BY <1>1, <1>6, <1>7 DEF IsLast
  <1>9. QED
    BY <1>5, <1>8 DEF Agree

\* The transitions after a push: those before, and the entry if it is one.
LEMMA PushTransitions ==
  ASSUME NEW log \in Seq(JournalEntries), NEW e, NEW t
  PROVE  /\ \A i : i \in Transitions(Append(log, e), t) <=>
                     \/ i \in Transitions(log, t)
                     \/ i = Len(log) + 1 /\ e.task = t /\ IsTransition(e)
         /\ \A i \in Transitions(log, t) : i \in 1..Len(log)
                                           /\ Append(log, e)[i] = log[i]
         /\ Append(log, e)[Len(log) + 1] = e
         /\ Len(log) \in Nat
  <1>1. Len(log) \in Nat /\ DOMAIN log = 1..Len(log)
    OBVIOUS
  <1>2. /\ DOMAIN Append(log, e) = 1 .. Len(log) + 1
        /\ \A i \in 1..Len(log) : Append(log, e)[i] = log[i]
        /\ Append(log, e)[Len(log) + 1] = e
    BY <1>1
  <1>3. Transitions(log, t) \subseteq 1..Len(log)
    BY <1>1 DEF Transitions, Positions
  <1>4. ASSUME NEW i
        PROVE  i \in Transitions(Append(log, e), t) <=>
                 \/ i \in Transitions(log, t)
                 \/ i = Len(log) + 1 /\ e.task = t /\ IsTransition(e)
    BY <1>1, <1>2 DEF Transitions, Positions
  <1>5. QED
    BY <1>1, <1>2, <1>3, <1>4

\* Pushing the transition of a task that its record now says.
LEMMA PushTransitionAgrees ==
  ASSUME NEW log \in Seq(JournalEntries), NEW record, NEW record2,
         NEW e, NEW u \in Tasks, e.task = u, IsTransition(e),
         record2[u] = e.to,
         \A t \in Tasks \ {u} : record2[t] = record[t]
  PROVE  /\ Agree(log, record) => Agree(Append(log, e), record2)
         /\ RunningLogged(log, record) => RunningLogged(Append(log, e), record2)
  <1> DEFINE longer == Append(log, e)
  <1>1. \A t \in Tasks :
          /\ \A i : i \in Transitions(longer, t) <=>
                      i \in Transitions(log, t) \/ (t = u /\ i = Len(log) + 1)
          /\ \A i \in Transitions(log, t) : i \in 1..Len(log) /\ longer[i] = log[i]
    BY PushTransitions
  <1>2. longer[Len(log) + 1] = e /\ Len(log) \in Nat
    BY PushTransitions
  <1> HIDE DEF longer
  <1>3. IsLast(longer, u, Len(log) + 1)
    BY <1>1, <1>2 DEF IsLast
  <1>4. ASSUME NEW t \in Tasks, t # u, NEW i \in Nat
        PROVE  /\ IsLast(longer, t, i) <=> IsLast(log, t, i)
               /\ IsLast(log, t, i) => longer[i] = log[i]
    BY <1>1, <1>4 DEF IsLast
  <1>5. ASSUME Agree(log, record), NEW t \in Tasks, NEW i \in Nat, IsLast(longer, t, i)
        PROVE  record2[t] \in {longer[i].to, "Pending", "Cancelled"}
    <2>1. CASE t = u
      BY <1>2, <1>3, <1>5, <2>1, LastIsUnique
    <2>2. CASE t # u
      BY <1>4, <1>5, <2>2 DEF Agree
    <2>3. QED
      BY <2>1, <2>2
  <1>6. ASSUME RunningLogged(log, record), NEW t \in Tasks, record2[t] = "Running"
        PROVE  \E i \in Nat : IsLast(longer, t, i) /\ longer[i].to = "Running"
    <2>1. CASE t = u
      BY <1>2, <1>3, <1>6, <2>1
    <2>2. CASE t # u
      BY <1>4, <1>6, <2>2 DEF RunningLogged
    <2>3. QED
      BY <2>1, <2>2
  <1>7. QED
    BY <1>5, <1>6 DEF Agree, RunningLogged, longer

\* Pushing an entry that is no transition, while records become Pending or
\* Cancelled at most.
LEMMA PushOtherAgrees ==
  ASSUME NEW log \in Seq(JournalEntries), NEW record, NEW record2,
         NEW e, ~IsTransition(e),
         \A t \in Tasks : record2[t] \in {record[t], "Pending", "Cancelled"}
  PROVE  /\ Agree(log, record) => Agree(Append(log, e), record2)
         /\ RunningLogged(log, record) => RunningLogged(Append(log, e), record2)
  <1> DEFINE longer == Append(log, e)
  <1>1. \A t \in Tasks :
          /\ \A i : i \in Transitions(longer, t) <=> i \in Transitions(log, t)
          /\ \A i \in Transitions(log, t) : longer[i] = log[i]
    BY PushTransitions
  <1> HIDE DEF longer
  <1>2. ASSUME NEW t \in Tasks, NEW i \in Nat
        PROVE  /\ IsLast(longer, t, i) <=> IsLast(log, t, i)
               /\ IsLast(log, t, i) => longer[i] = log[i]
    BY <1>1 DEF IsLast
  <1>3. ASSUME Agree(log, record), NEW t \in Tasks, NEW i \in Nat, IsLast(longer, t, i)
        PROVE  record2[t] \in {longer[i].to, "Pending", "Cancelled"}
    BY <1>2, <1>3 DEF Agree
  <1>4. ASSUME RunningLogged(log, record), NEW t \in Tasks, record2[t] = "Running"
        PROVE  \E i \in Nat : IsLast(longer, t, i) /\ longer[i].to = "Running"
    BY <1>2, <1>4 DEF RunningLogged
  <1>5. QED
    BY <1>3, <1>4 DEF Agree, RunningLogged, longer

\* What append leaves is the pushed log, or a shorter rest of it.
LEMMA TruncatedRest ==
  ASSUME NEW log \in Seq(JournalEntries), NEW record, Agree(log, record)
  PROVE  /\ Truncated(log) \in Seq(JournalEntries)
         /\ Len(Truncated(log)) <= Len(log)
         /\ Len(Truncated(log)) = Len(log) => Truncated(log) = log
         /\ Agree(Truncated(log), record)
  <1>1. Len(log) \in Nat /\ max_entries \in Nat
    BY JournalAssumption
  <1>2. CASE Len(log) > max_entries
    <2> DEFINE n == Len(log) - max_entries
               rest == DropOldest(log, n)
    <2>1. n \in 0..Len(log) /\ Len(log) - n = max_entries
      BY <1>1, <1>2
    <2> HIDE DEF n
    <2>2. rest \in Seq(JournalEntries) /\ Len(rest) = max_entries
      <3>1. \A i \in n + 1 .. Len(log) : log[i] \in JournalEntries
        BY <1>1, <2>1
      <3>2. n + 1 \in Int /\ Len(log) \in Int
        BY <1>1, <2>1
      <3>3. /\ rest \in Seq(JournalEntries)
            /\ Len(rest) = IF n + 1 <= Len(log) THEN Len(log) - (n + 1) + 1 ELSE 0
        BY <3>1, <3>2, SubSeqProperties DEF DropOldest
      <3>4. QED
        BY <1>1, <2>1, <3>3
    <2>3. Agree(rest, record)
      BY <2>1, DropKeepsAgreement
    <2>4. Truncated(log) = rest
      BY <1>2 DEF Truncated, n
    <2> HIDE DEF rest
    <2>5. QED
      BY <1>1, <1>2, <2>2, <2>3, <2>4
  <1>3. CASE ~(Len(log) > max_entries)
    BY <1>1, <1>3 DEF Truncated
  <1>4. QED
    BY <1>2, <1>3

\* append keeps the log in agreement with records that change with it, and
\* while nothing is dropped, every Running record keeps its transition.
LEMMA LogKeepsAgreement ==
  ASSUME JInv, RInv, NEW t \in Tasks \cup {NoTask}, NEW to \in Kinds, Log(t, to),
         \/ /\ t \in Tasks /\ to \in States /\ Told'[t] = to
            /\ \A u \in Tasks \ {t} : Told'[u] = Told[u]
         \/ /\ to \notin States
            /\ \A u \in Tasks : Told'[u] \in {Told[u], "Pending", "Cancelled"},
         RecordTypes', UNCHANGED api_calls
  PROVE  RInv'
  <1> DEFINE e      == Entry(next_sequence, t, to)
             pushed == Append(entries, e)
             kept   == Truncated(pushed)
             mark   == Entry(next_sequence + 1, NoTask, "Checkpoint")
  <1>1. /\ entries \in Seq(JournalEntries)
        /\ next_sequence \in Nat \ {0}
        /\ Len(entries) \in Nat /\ Len(entries) <= next_sequence - 1
        /\ Agree(entries, Told)
    BY DEF JInv, LogType, RInv
  <1>2. e \in JournalEntries /\ e.task = t /\ e.to = to
        /\ (IsTransition(e) <=> to \in States)
    BY <1>1 DEF Entry, JournalEntries, IsTransition
  <1>3. mark \in JournalEntries /\ ~IsTransition(mark)
    BY <1>1 DEF Entry, JournalEntries, IsTransition, Kinds, States, Terminal
  <1> HIDE DEF e, mark
  <1>4. pushed \in Seq(JournalEntries) /\ Len(pushed) = Len(entries) + 1
    BY <1>1, <1>2
  <1>5. /\ Agree(pushed, Told')
        /\ RunningLogged(entries, Told) => RunningLogged(pushed, Told')
    <2>1. CASE t \in Tasks /\ to \in States /\ Told'[t] = to
               /\ \A u \in Tasks \ {t} : Told'[u] = Told[u]
      BY <1>1, <1>2, <2>1, PushTransitionAgrees
    <2>2. CASE to \notin States
               /\ \A u \in Tasks : Told'[u] \in {Told[u], "Pending", "Cancelled"}
      BY <1>1, <1>2, <2>2, PushOtherAgrees
    <2>3. QED
      BY <2>1, <2>2
  <1> HIDE DEF pushed
  <1>6. /\ kept \in Seq(JournalEntries)
        /\ Len(kept) <= Len(pushed)
        /\ Len(kept) = Len(pushed) => kept = pushed
        /\ Agree(kept, Told')
    BY <1>4, <1>5, TruncatedRest
  <1> HIDE DEF kept
  <1>7. Len(kept) \in Nat
    BY <1>6
  <1>8. ASSUME ~api_calls, Len(kept) >= next_sequence
        PROVE  RunningLogged(kept, Told')
    <2>1. Len(entries) = next_sequence - 1 /\ Len(kept) = Len(pushed)
      BY <1>1, <1>4, <1>6, <1>7, <1>8
    <2>2. RunningLogged(entries, Told)
      BY <1>8, <2>1 DEF RInv, Whole
    <2>3. QED
      BY <1>5, <1>6, <2>1, <2>2
  <1>9. CASE CheckpointDue(next_sequence + 1)
    <2>1. entries' = Append(kept, mark) /\ next_sequence' = next_sequence + 2
      BY <1>9 DEF Log, SequenceAfterCheckpoint, e, pushed, kept, mark
    <2>2. /\ Agree(entries', Told')
          /\ RunningLogged(kept, Told') => RunningLogged(entries', Told')
      BY <1>3, <1>6, <2>1, PushOtherAgrees
    <2>3. Len(entries') = Len(kept) + 1
      BY <1>3, <1>6, <2>1
    <2>4. QED
      BY <1>1, <1>4, <1>6, <1>7, <1>8, <2>1, <2>2, <2>3 DEF RInv, Whole
  <1>10. CASE ~CheckpointDue(next_sequence + 1)
    <2>1. entries' = kept /\ next_sequence' = next_sequence + 1
      BY <1>10 DEF Log, e, pushed, kept
    <2>2. QED
      BY <1>1, <1>4, <1>6, <1>7, <1>8, <2>1 DEF RInv, Whole
  <1>11. QED
    BY <1>9, <1>10

LEMMA RInvInit == Init => RInv
  <1> SUFFICES ASSUME Init PROVE RInv
    OBVIOUS
  <1>1. entries = <<>> /\ next_sequence = 1 /\ \A t \in Tasks : status[t] = "None"
    BY DEF Init
  <1>2. \A t \in Tasks : Transitions(entries, t) = {}
    BY <1>1 DEF Transitions, Positions
  <1>3. Agree(entries, Told)
    BY <1>2 DEF Agree, IsLast
  <1>4. RunningLogged(entries, Told)
    BY <1>1 DEF RunningLogged, Told
  <1>5. QED
    BY <1>1, <1>3, <1>4 DEF Init, RInv, RecordTypes

LEMMA RInvNext == JInv /\ RInv /\ [Next]_vars => RInv'
  <1> SUFFICES ASSUME JInv, RInv, [Next]_vars PROVE RInv'
    OBVIOUS
  <1>1. /\ entries \in Seq(JournalEntries)
        /\ next_sequence \in Nat \ {0} /\ Len(entries) \in Nat
        /\ status \in [Tasks -> States \cup {"None"}] /\ claimed \subseteq Tasks
        /\ Len(entries) <= next_sequence - 1
    BY DEF JInv, LogType, RInv, RecordTypes
  <1>2. ASSUME NEW t \in Tasks, NEW s \in States, SubmitTask(t, s), UNCHANGED api_calls
        PROVE  RInv'
    <2>1. "TaskCreated" \in Kinds /\ "TaskCreated" \notin States
      BY DEF Kinds, States, Terminal
    <2>2. RecordTypes'
      BY <1>2 DEF SubmitTask, RInv, RecordTypes, States
    <2>3. \A u \in Tasks : Told'[u] \in {Told[u], "Pending", "Cancelled"}
      BY <1>1, <1>2 DEF SubmitTask, Told
    <2>4. Log(t, "TaskCreated")
      BY <1>2 DEF SubmitTask
    <2>5. QED
      BY <1>2, <2>1, <2>2, <2>3, <2>4, LogKeepsAgreement
  <1>3. ASSUME NEW t \in Tasks, NEW to \in {"Running"} \cup Terminal,
               RecordTransition(t, to), UNCHANGED api_calls
        PROVE  RInv'
    <2>1. to \in Kinds /\ to \in States
      BY DEF Kinds, States
    <2>2. RecordTypes'
      BY <1>3, <2>1 DEF RecordTransition, RInv, RecordTypes
    <2>3. Told'[t] = to /\ \A u \in Tasks \ {t} : Told'[u] = Told[u]
      BY <1>1, <1>3 DEF RecordTransition, Told
    <2>4. Log(t, to)
      BY <1>3 DEF RecordTransition
    <2>5. QED
      BY <1>3, <2>1, <2>2, <2>3, <2>4, LogKeepsAgreement
  <1>4. CASE SendIntent /\ UNCHANGED api_calls
    <2>1. "IntentReceived" \in Kinds /\ "IntentReceived" \notin States
      BY DEF Kinds, States, Terminal
    <2>2. RecordTypes' /\ \A u \in Tasks : Told'[u] = Told[u]
      BY <1>4 DEF SendIntent, RInv, RecordTypes, Told
    <2>3. Log(NoTask, "IntentReceived")
      BY <1>4 DEF SendIntent
    <2>4. QED
      BY <1>4, <2>1, <2>2, <2>3, LogKeepsAgreement
  <1>5. ASSUME NEW T \in SUBSET Tasks, DestroyAgent(T), UNCHANGED api_calls
        PROVE  RInv'
    <2>1. /\ UNCHANGED <<entries, next_sequence>>
          /\ status' = [t \in Tasks |-> IF t \in T THEN "Cancelled" ELSE status[t]]
          /\ claimed' = claimed \ T
      BY <1>5 DEF DestroyAgent, logVars
    <2>2. RecordTypes'
      BY <1>1, <1>5, <2>1 DEF RInv, RecordTypes, States, Terminal
    <2>3. \A t \in Tasks : Told'[t] = IF t \in T THEN "Cancelled" ELSE Told[t]
      BY <2>1 DEF Told
    <2>4. Agree(entries, Told) => Agree(entries, Told')
      BY <2>3 DEF Agree
    <2>5. RunningLogged(entries, Told) => RunningLogged(entries, Told')
      BY <2>3 DEF RunningLogged
    <2>6. QED
      BY <1>5, <2>1, <2>2, <2>4, <2>5 DEF RInv
  <1>6. CASE api_calls /\ Checkpoint /\ UNCHANGED api_calls
    <2> DEFINE mark == Entry(next_sequence, NoTask, "Checkpoint")
    <2>1. entries' = Append(entries, mark) /\ next_sequence' = next_sequence + 1
          /\ status' = status /\ claimed' = claimed /\ Told' = Told
      BY <1>6 DEF Checkpoint, Told
    <2>2. mark \in JournalEntries /\ ~IsTransition(mark)
      BY <1>1 DEF Entry, JournalEntries, IsTransition, Kinds, States, Terminal
    <2> HIDE DEF mark
    <2>3. Agree(entries', Told')
      BY <1>1, <2>1, <2>2, PushOtherAgrees DEF RInv
    <2>4. Len(entries') = Len(entries) + 1
      BY <1>1, <2>1, <2>2
    <2>5. QED
      BY <1>1, <1>6, <2>1, <2>3, <2>4 DEF RInv, RecordTypes
  <1>7. ASSUME api_calls, NEW seq \in 1..MaxSequence, TruncateBefore(seq),
               UNCHANGED api_calls
        PROVE  RInv'
    <2> DEFINE before == {i \in DOMAIN entries : entries[i].sequence < seq}
               older  == Cardinality(before)
    <2>1. older \in 0..Len(entries)
      <3>1. before \in SUBSET DOMAIN entries
        OBVIOUS
      <3> HIDE DEF before
      <3>2. QED
        BY <1>1, <3>1, PositionsCount
    <2>2. /\ entries' = DropOldest(entries, older)
          /\ UNCHANGED <<next_sequence, status, claimed>> /\ Told' = Told
      BY <1>7 DEF TruncateBefore, Told
    <2> HIDE DEF older
    <2>3. Agree(entries', Told')
      BY <1>1, <2>1, <2>2, DropKeepsAgreement DEF RInv
    <2>4. Len(entries') <= Len(entries) /\ Len(entries') \in Nat
      BY <1>1, <2>1, <2>2 DEF DropOldest
    <2>5. QED
      BY <1>1, <1>7, <2>2, <2>3, <2>4 DEF RInv, RecordTypes
  <1>8. CASE api_calls /\ Clear /\ UNCHANGED api_calls
    <2>1. /\ entries' = <<>> /\ next_sequence' = 1
          /\ UNCHANGED <<status, claimed>> /\ Told' = Told
      BY <1>8 DEF Clear, Told
    <2>2. \A t \in Tasks : Transitions(<<>>, t) = {}
      BY DEF Transitions, Positions
    <2>3. Agree(<<>>, Told)
      BY <2>2 DEF Agree, IsLast
    <2>4. QED
      BY <1>8, <2>1, <2>3 DEF RInv, RecordTypes
  <1>9. CASE UNCHANGED vars
    BY <1>9 DEF vars, logVars, RInv, RecordTypes, Told
  <1>10. QED
    BY <1>2, <1>3, <1>4, <1>5, <1>6, <1>7, <1>8, <1>9 DEF Next, KernelCall, OtherCall

\* The log and the kernel's task records tell the same, but for what a client
\* submitted, destroy_agent cancelled unjournaled, or the log dropped.
THEOREM RecordInvariant == Spec => []RInv
  BY RInvInit, RInvNext, JournalInvariant, PTL DEF Spec

\* The log, its counters and the records keep their types.
THEOREM JournalTypes == Spec => []TypeOK
  <1>1. JInv /\ RInv => TypeOK
    BY DEF JInv, LogType, RInv, RecordTypes, TypeOK
  <1>2. QED
    BY <1>1, JournalInvariant, RecordInvariant, PTL

\* A recovery from in_flight_tasks (journal.rs:290-310) restarts no task that the
\* kernel has completed or failed since its submission, whatever was truncated,
\* whatever state clients submit and whatever is cancelled.
THEOREM RecoveryIsSound == Spec => []InFlightSound
  <1>1. ASSUME JInv, RInv
        PROVE  InFlightSound
    <2> SUFFICES ASSUME NEW t \in InFlight(entries) \ claimed
                 PROVE  status[t] \notin {"Completed", "Failed"}
      BY DEF InFlightSound
    <2> DEFINE i == Last(Transitions(entries, t))
    <2>1. /\ t \in Tasks /\ Transitions(entries, t) # {}
          /\ entries[i].to \notin Terminal
      BY DEF InFlight
    <2>2. IsLast(entries, t, i) /\ i \in Nat
      BY <1>1, <2>1, LastIsLast DEF JInv, LogType
    <2> HIDE DEF i
    <2>3. Told[t] \in {entries[i].to, "Pending", "Cancelled"}
      BY <1>1, <2>1, <2>2 DEF RInv, Agree
    <2>4. Told[t] = status[t]
      BY <2>1 DEF Told
    <2>5. QED
      BY <2>1, <2>3, <2>4 DEF Terminal
  <1>2. QED
    BY <1>1, JournalInvariant, RecordInvariant, PTL

\* As long as nothing was dropped (journal.rs:147-149), a recovery restarts every
\* task that the kernel has made Running since its submission.
THEOREM RecoveryIsComplete == Spec => []InFlightComplete
  <1>1. ASSUME JInv, RInv
        PROVE  InFlightComplete
    <2> SUFFICES ASSUME ~api_calls, entries # <<>>, entries[1].sequence = 1,
                        NEW t \in Tasks \ claimed, status[t] = "Running"
                 PROVE  t \in InFlight(entries)
      BY DEF InFlightComplete
    <2>1. entries \in Seq(JournalEntries) /\ Len(entries) \in Nat \ {0}
          /\ next_sequence \in Nat
      BY <1>1 DEF JInv, LogType
    <2>2. Whole(entries, next_sequence)
      <3>1. 1 \in DOMAIN entries
        BY <2>1
      <3>2. \A i \in DOMAIN entries :
              entries[i].sequence = next_sequence - Len(entries) + i - 1
        BY <1>1 DEF JInv, Contiguous
      <3>3. entries[1].sequence = next_sequence - Len(entries) + 1 - 1
        BY <3>1, <3>2
      <3>4. QED
        BY <2>1, <3>3 DEF Whole
    <2>3. PICK i \in Nat : IsLast(entries, t, i) /\ entries[i].to = "Running"
      <3>1. Told[t] = "Running"
        BY DEF Told
      <3>2. QED
        BY <1>1, <2>2, <3>1 DEF RInv, RunningLogged
    <2>4. Transitions(entries, t) # {}
      BY <2>3 DEF IsLast
    <2>5. /\ IsLast(entries, t, Last(Transitions(entries, t)))
          /\ Last(Transitions(entries, t)) \in Nat
      BY <2>1, <2>4, LastIsLast
    <2>6. Last(Transitions(entries, t)) = i
      BY <2>3, <2>5, LastIsUnique
    <2>7. QED
      BY <2>3, <2>4, <2>6 DEF InFlight, Terminal
  <1>2. QED
    BY <1>1, JournalInvariant, RecordInvariant, PTL

=============================================================================
