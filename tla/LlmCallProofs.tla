---------------------------- MODULE LlmCallProofs ----------------------------
(***************************************************************************)
(* Theorems about a request to the language models: that drivers are asked *)
(* in order of their scores, each once, and that whatever the chunks and   *)
(* wherever a stream ends, an answer holds a prefix of what one provider   *)
(* means to send; for any drivers, tasks and scripts.                      *)
(***************************************************************************)
EXTENDS LlmCall, Induction, SequenceTheorems

-----------------------------------------------------------------------------
(* Fallback *)

Registered == Len(request.drivers)
Limit == IF request.mode = "Fallback" THEN Registered
         ELSE IF Registered = 0 THEN 0 ELSE 1
Tried == Len(attempts)

\* The drivers were asked in the order of ranking r, and the last alone may
\* have answered.
AskedInOrder(r) ==
  /\ Tried <= Limit
  /\ \A i \in 1 .. Tried : attempts[i].driver = request.drivers[r[i]]
  /\ \A i \in 1 .. Tried - 1 : ~attempts[i].ok
  /\ answer.status # "Answered" => \A i \in 1 .. Tried : ~attempts[i].ok
  /\ answer.status = "Answered" => Tried > 0 /\ attempts[Tried].ok
  /\ answer = Failure => Tried = Limit
  /\ answer = NoAnswer =>
       ranked = IF Tried < Limit
                THEN [i \in 1 .. Registered - Tried |-> request.drivers[r[Tried + i]]]
                ELSE <<>>

FInv ==
  /\ request \in [mode: Modes, drivers: DriverLists, task: LlmTasks]
  /\ attempts \in Seq([driver: [name: Protocols, cost: Nat], ok: BOOLEAN])
  /\ finished \in BOOLEAN
  /\ lines # <<>> \/ buffer # <<>> => script # NoScript
  /\ answer.status # "Answered" => answer \in {NoAnswer, Failure}
  /\ \E r \in Rankings(request.drivers, request.task) : AskedInOrder(r)

-----------------------------------------------------------------------------
(* Streams *)

Taken(x, k) == [i \in 1 .. k |-> x[i]]

Piece(q) == [line |-> (q + 2) \div 3, part |-> Parts[((q + 2) % 3) + 1]]
Pieces3(q, k) == [i \in 1 .. k |-> Piece(q + i)]
WholeLine(i) == Pieces3(3 * i - 3, 2)

\* n lines of script s went through the parser, m left the buffer, and r pieces
\* of the next are in it.
Aligned(s, n, m, r) ==
  /\ lines = [j \in 1 .. m - n |-> WholeLine(n + j)]
  /\ buffer = Pieces3(3 * m, r)
  /\ wire = Pieces3(3 * m + r, 3 * Len(s.lines) - 3 * m - r)

Fits(s, n) ==
  \/ finished /\ lines = <<>> /\ buffer = <<>>
  \/ \E m \in n .. Len(s.lines), r \in 0 .. 2 :
       (m = Len(s.lines) => r = 0) /\ Aligned(s, n, m, r)

Received(s, k, n) == [m \in 1 .. Got(s, k, n) |-> Fragment(k, m, Len(s.calls[k].args))]
PartOf(s, k, n) ==
  [id |-> s.calls[k].id, name |-> s.calls[k].name, args |-> Received(s, k, n)]

HeardUsage(s, n, p) ==
  /\ LinesOf(s, {"usage"}, n) = {} => p.tokens = 0
  /\ \A i \in LinesOf(s, {"usage"}, n) :
       (\A j \in LinesOf(s, {"usage"}, n) : j <= i) => p.tokens = s.lines[i].tokens

\* The first b calls began among the first n lines.
Begun(s, n, order, parts, b) ==
  /\ \A k \in 1 .. Len(s.calls) : Got(s, k, n) > 0 <=> k <= b
  /\ order = [k \in 1 .. b |-> order[k]]
  /\ \A i \in LinesOf(s, {"delta"}, n) :
       order[s.lines[i].args[1].call] = s.lines[i].index
  /\ parts = [k \in 1 .. b |-> PartOf(s, k, n)]

HeardOpenAI(s, n, p, acc) ==
  /\ acc.tool_calls = <<>>
  /\ \E b \in 0 .. Len(s.calls) : Begun(s, n, p.order, p.parts, b)

HeardAnthropic(s, n, p, acc) ==
  LET b == Told(s, {"block_start"}, n)
  IN  /\ b <= Len(s.calls)
      /\ \/ /\ p.tool = <<>>
            /\ b > 0 => Complete(s, b, n)
            /\ acc.tool_calls = Taken(s.calls, b)
         \/ /\ b > 0
            /\ p.tool = <<PartOf(s, b, n)>>
            /\ acc.tool_calls = Taken(s.calls, b - 1)

HeardOllama(s, n, acc) ==
  \E sent \in [0 .. Len(s.lines) -> 0 .. Len(s.calls)] :
    SentBy(s, sent) /\ acc.tool_calls = Taken(s.calls, sent[n])

ParserShape(p) ==
  DOMAIN p = {"order", "parts", "tool", "tokens", "done"} /\ p.done = FALSE
PartialShape(acc) ==
  acc = [content |-> acc.content, tool_calls |-> acc.tool_calls, tokens |-> 0,
         done |-> FALSE]

\* What parser p and the gathered acc are after the first n lines of script s.
Heard(s, n, p, acc) ==
  /\ ParserShape(p) /\ PartialShape(acc)
  /\ acc.content = Taken(s.texts, Told(s, {"text"}, n))
  /\ HeardUsage(s, n, p)
  /\ s.name = "openai" => HeardOpenAI(s, n, p, acc)
  /\ s.name = "anthropic" => HeardAnthropic(s, n, p, acc)
  /\ s.name = "ollama" => HeardOllama(s, n, acc)

\* What was gathered when the end marker was read.
Whole(s, acc) ==
  acc = [content |-> s.texts, tool_calls |-> s.calls, tokens |-> s.tokens,
         done |-> TRUE]

Pristine ==
  /\ lines = <<>> /\ buffer = <<>> /\ finished = FALSE
  /\ parser = NoParser /\ partial = NoPartial

StreamInv ==
  /\ script \in Scripts \cup {NoScript}
  /\ script = NoScript => Pristine
  /\ answer = NoAnswer /\ script # NoScript =>
       /\ ranked # <<>> /\ script.name = Head(ranked).name
       /\ \E n \in 0 .. Len(script.lines) :
            Fits(script, n) /\ Heard(script, n, parser, partial)
  /\ answer.status # "Answered" => answer \in {NoAnswer, Failure}
  /\ answer.status = "Answered" =>
       /\ script # NoScript
       /\ answer = [status |-> "Answered", content |-> partial.content,
                    tool_calls |-> partial.tool_calls, tokens |-> partial.tokens]
       /\ \/ Whole(script, partial)
          \/ \E n \in 0 .. Len(script.lines) : Heard(script, n, parser, partial)

-----------------------------------------------------------------------------
(* Lists and prefixes of lists *)

LEMMA ListParts ==
  ASSUME NEW x, IsList(x)
  PROVE  /\ Len(x) \in Nat /\ DOMAIN x = 1 .. Len(x)
         /\ \A i \in 1 .. Len(x) : x[i] \in Range(x)
  BY DEF IsList, Range

LEMMA TakenParts ==
  ASSUME NEW S, NEW x \in Seq(S), NEW k \in 0 .. Len(x)
  PROVE  /\ Taken(x, k) \in Seq(S) /\ Len(Taken(x, k)) = k
         /\ \A i \in 1 .. k : Taken(x, k)[i] = x[i]
         /\ IsPrefix(Taken(x, k), x)
  <1>1. k \in Nat /\ Len(x) \in Nat /\ \A i \in 1 .. k : x[i] \in S
    OBVIOUS
  <1>2. Taken(x, k) \in Seq(S) /\ Len(Taken(x, k)) = k
        /\ \A i \in 1 .. k : Taken(x, k)[i] = x[i]
    BY <1>1 DEF Taken
  <1> DEFINE y == Taken(x, k)
  <1>3. SubSeq(y, 1, k) = SubSeq(x, 1, k)
    <2> HIDE DEF y
    <2>1. y \in Seq(S) /\ Len(y) = k /\ \A i \in 1 .. k : y[i] \in S /\ y[i] = x[i]
      BY <1>1, <1>2 DEF y
    <2>2. SubSeq(y, 1, k) \in Seq(S) /\ Len(SubSeq(y, 1, k)) = k
          /\ \A i \in 1 .. k : SubSeq(y, 1, k)[i] = y[i]
      BY <1>1, <2>1, SubSeqProperties
    <2>3. SubSeq(x, 1, k) \in Seq(S) /\ Len(SubSeq(x, 1, k)) = k
          /\ \A i \in 1 .. k : SubSeq(x, 1, k)[i] = x[i]
      BY <1>1, SubSeqProperties
    <2>4. QED
      BY <2>1, <2>2, <2>3, SeqEqual
  <1>4. QED
    BY <1>1, <1>2, <1>3 DEF IsPrefix

LEMMA TakenAll ==
  ASSUME NEW S, NEW x \in Seq(S)
  PROVE  Taken(x, Len(x)) = x /\ Taken(x, 0) = <<>>
  <1>1. x = [i \in 1 .. Len(x) |-> x[i]]
    OBVIOUS
  <1>2. QED
    BY <1>1 DEF Taken

LEMMA ListOf ==
  ASSUME NEW S, NEW N \in Nat, NEW y, y = [j \in 1 .. N |-> y[j]],
         \A j \in 1 .. N : y[j] \in S
  PROVE  y \in Seq(S) /\ Len(y) = N
  <1> DEFINE z == [j \in 1 .. N |-> y[j]]
  <1>1. z \in Seq(S) /\ Len(z) = N
    OBVIOUS
  <1> HIDE DEF z
  <1>2. y = z
    BY DEF z
  <1>3. QED
    BY <1>1, <1>2

\* A prefix and what comes next is a longer prefix.
LEMMA TakenGrows ==
  ASSUME NEW S, NEW x \in Seq(S), NEW k \in Nat, NEW y \in Seq(S),
         k + Len(y) <= Len(x), \A i \in 1 .. Len(y) : y[i] = x[k + i]
  PROVE  Taken(x, k) \o y = Taken(x, k + Len(y))
  <1> DEFINE a == Taken(x, k)
             b == Taken(x, k + Len(y))
             n == Len(y)
  <1>1. n \in Nat /\ k \in 0 .. Len(x) /\ k + n \in 0 .. Len(x)
    BY LenProperties
  <1>2. a \in Seq(S) /\ Len(a) = k /\ \A i \in 1 .. k : a[i] = x[i]
    BY <1>1, TakenParts
  <1>3. b \in Seq(S) /\ Len(b) = k + n /\ \A i \in 1 .. k + n : b[i] = x[i]
    BY <1>1, TakenParts
  <1> HIDE DEF a, b
  <1>4. /\ a \o y \in Seq(S) /\ Len(a \o y) = k + n
        /\ \A i \in 1 .. k + n : (a \o y)[i] = IF i <= k THEN a[i] ELSE y[i - k]
    BY <1>2, ConcatProperties
  <1>5. ASSUME NEW i \in 1 .. k + n
        PROVE  (a \o y)[i] = b[i]
    <2>1. CASE i <= k
      <3>1. i \in 1 .. k
        BY <1>1, <2>1
      <3>2. (a \o y)[i] = a[i]
        BY <1>4, <2>1
      <3>3. QED
        BY <1>2, <1>3, <3>1, <3>2
    <2>2. CASE ~(i <= k)
      <3>1. i - k \in 1 .. n /\ k + (i - k) = i
        BY <1>1, <2>2
      <3>2. y[i - k] = x[k + (i - k)]
        BY <3>1
      <3>3. QED
        BY <1>3, <1>4, <2>2, <3>1, <3>2
    <2>3. QED
      BY <2>1, <2>2
  <1>6. QED
    BY <1>1, <1>3, <1>4, <1>5, SeqEqual DEF a, b

LEMMA SingletonList ==
  ASSUME NEW S, NEW e \in S
  PROVE  <<e>> \in Seq(S) /\ Len(<<e>>) = 1 /\ <<e>>[1] = e
  OBVIOUS

LEMMA SingletonIs ==
  ASSUME NEW e
  PROVE  [m \in 1 .. 1 |-> e] = <<e>>
  OBVIOUS

LEMMA OnlyOne == \A m \in 1 .. 1 : m = 1
  OBVIOUS

-----------------------------------------------------------------------------
(* Counting the lines of a script *)

Below(A, n) == {i \in 1 .. n : i \in A}

\* A set of line numbers, up to some line: one line more adds at most itself.
LEMMA CountUpto ==
  ASSUME NEW A, NEW n \in Nat
  PROVE  /\ IsFiniteSet(Below(A, n))
         /\ Cardinality(Below(A, n)) \in Nat
         /\ Cardinality(Below(A, n + 1)) =
              Cardinality(Below(A, n)) + (IF n + 1 \in A THEN 1 ELSE 0)
  <1> DEFINE B == {i \in 1 .. n : i \in A}
             C == {i \in 1 .. n + 1 : i \in A}
  <1>1. IsFiniteSet(1 .. n) /\ B \in SUBSET (1 .. n)
    BY FS_Interval
  <1>2. IsFiniteSet(B)
    BY <1>1, FS_Subset
  <1>3. Cardinality(B) \in Nat
    BY <1>2, FS_CardinalityType
  <1>4. n + 1 \notin B /\ C = IF n + 1 \in A THEN B \cup {n + 1} ELSE B
    OBVIOUS
  <1> HIDE DEF B, C
  <1>5. Cardinality(B \cup {n + 1}) = Cardinality(B) + 1
    BY <1>2, <1>4, FS_AddElement
  <1>6. Cardinality(C) = Cardinality(B) + (IF n + 1 \in A THEN 1 ELSE 0)
    BY <1>3, <1>4, <1>5
  <1>7. QED
    BY <1>2, <1>3, <1>6 DEF B, C, Below

LEMMA CountOfNone ==
  ASSUME NEW A
  PROVE  Cardinality(Below(A, 0)) = 0
  <1>1. Below(A, 0) = {}
    BY DEF Below
  <1>2. QED
    BY <1>1, FS_EmptySet

LEMMA CountRises ==
  ASSUME NEW A, NEW n \in Nat, NEW m \in 0 .. n
  PROVE  Cardinality(Below(A, m)) <= Cardinality(Below(A, n))
  <1>1. IsFiniteSet(Below(A, n))
    BY CountUpto
  <1>2. Below(A, m) \in SUBSET Below(A, n)
    BY DEF Below
  <1>3. QED
    BY <1>1, <1>2, FS_Subset

OfType(s, types) == {i \in Nat : s.lines[i].type \in types}
OfCall(s, k) == {i \in Nat : s.lines[i].type \in Carriers /\ s.lines[i].args[1].call = k}

LEMMA CountsAre ==
  ASSUME NEW s, NEW types, NEW k, NEW n \in Nat
  PROVE  /\ LinesOf(s, types, n) = Below(OfType(s, types), n)
         /\ FragmentsOf(s, k, n) = Below(OfCall(s, k), n)
  BY DEF LinesOf, FragmentsOf, OfType, OfCall, Below

\* The next line counts if it is of the type, or of the call.
LEMMA ToldNext ==
  ASSUME NEW s, NEW types, NEW n \in Nat
  PROVE  /\ Told(s, types, n) \in Nat
         /\ Told(s, types, 0) = 0
         /\ s.lines[n + 1].type \in types =>
              /\ Told(s, types, n + 1) = Told(s, types, n) + 1
              /\ LinesOf(s, types, n + 1) = LinesOf(s, types, n) \cup {n + 1}
         /\ s.lines[n + 1].type \notin types =>
              /\ Told(s, types, n + 1) = Told(s, types, n)
              /\ LinesOf(s, types, n + 1) = LinesOf(s, types, n)
         /\ \A m \in 0 .. n : Told(s, types, m) <= Told(s, types, n)
         /\ LinesOf(s, types, 0) = {}
  <1> DEFINE A == OfType(s, types)
  <1>1. \A m \in Nat : LinesOf(s, types, m) = Below(A, m)
    BY CountsAre
  <1>2. n + 1 \in A <=> s.lines[n + 1].type \in types
    BY DEF OfType
  <1>3. \A m \in Nat : Told(s, types, m) = Cardinality(Below(A, m))
    BY <1>1 DEF Told
  <1> HIDE DEF A
  <1>4. Told(s, types, n) \in Nat
        /\ Told(s, types, n + 1) = Told(s, types, n) + (IF n + 1 \in A THEN 1 ELSE 0)
    BY <1>3, CountUpto
  <1>5. Told(s, types, 0) = 0
    BY <1>3, CountOfNone
  <1>6. \A m \in 0 .. n : Told(s, types, m) <= Told(s, types, n)
    BY <1>3, CountRises
  <1>7. LinesOf(s, types, 0) = {}
    BY <1>1 DEF Below
  <1>8. /\ n + 1 \in A => LinesOf(s, types, n + 1) = LinesOf(s, types, n) \cup {n + 1}
        /\ n + 1 \notin A => LinesOf(s, types, n + 1) = LinesOf(s, types, n)
    BY <1>1 DEF Below
  <1>9. s.lines[n + 1].type \in types =>
          /\ Told(s, types, n + 1) = Told(s, types, n) + 1
          /\ LinesOf(s, types, n + 1) = LinesOf(s, types, n) \cup {n + 1}
    BY <1>2, <1>4, <1>8
  <1>10. s.lines[n + 1].type \notin types =>
           /\ Told(s, types, n + 1) = Told(s, types, n)
           /\ LinesOf(s, types, n + 1) = LinesOf(s, types, n)
    BY <1>2, <1>4, <1>8
  <1>11. QED
    BY <1>4, <1>5, <1>6, <1>7, <1>9, <1>10, Zenon

\* The same for one type.
LEMMA ToldOf ==
  ASSUME NEW s, NEW type, NEW n \in Nat
  PROVE  /\ s.lines[n + 1].type = type =>
              Told(s, {type}, n + 1) = Told(s, {type}, n) + 1
         /\ s.lines[n + 1].type # type =>
              Told(s, {type}, n + 1) = Told(s, {type}, n)
  <1> DEFINE types == {type}
  <1>1. s.lines[n + 1].type \in types <=> s.lines[n + 1].type = type
    OBVIOUS
  <1> HIDE DEF types
  <1>2. /\ s.lines[n + 1].type \in types =>
             Told(s, types, n + 1) = Told(s, types, n) + 1
        /\ s.lines[n + 1].type \notin types =>
             Told(s, types, n + 1) = Told(s, types, n)
    BY ToldNext
  <1>3. QED
    BY <1>1, <1>2, Zenon DEF types

LEMMA LinesNext ==
  ASSUME NEW s, NEW type, NEW n \in Nat
  PROVE  /\ s.lines[n + 1].type = type =>
              LinesOf(s, {type}, n + 1) = LinesOf(s, {type}, n) \cup {n + 1}
         /\ s.lines[n + 1].type # type =>
              LinesOf(s, {type}, n + 1) = LinesOf(s, {type}, n)
  <1> DEFINE types == {type}
  <1>1. s.lines[n + 1].type \in types <=> s.lines[n + 1].type = type
    OBVIOUS
  <1> HIDE DEF types
  <1>2. /\ s.lines[n + 1].type \in types =>
             LinesOf(s, types, n + 1) = LinesOf(s, types, n) \cup {n + 1}
        /\ s.lines[n + 1].type \notin types =>
             LinesOf(s, types, n + 1) = LinesOf(s, types, n)
    BY ToldNext
  <1>3. QED
    BY <1>1, <1>2, Zenon DEF types

LEMMA ToldIsNat ==
  ASSUME NEW s, NEW types, NEW n \in Nat
  PROVE  Told(s, types, n) \in Nat /\ Told(s, types, 0) = 0
  BY ToldNext

LEMMA ToldRises ==
  ASSUME NEW s, NEW types, NEW n \in Nat, NEW m \in 0 .. n
  PROVE  Told(s, types, m) <= Told(s, types, n)
  BY ToldNext

Carries(s, k, i) == s.lines[i].type \in Carriers /\ s.lines[i].args[1].call = k

LEMMA GotNext ==
  ASSUME NEW s, NEW k, NEW n \in Nat
  PROVE  /\ Got(s, k, n) \in Nat
         /\ Got(s, k, 0) = 0
         /\ Got(s, k, n + 1) = Got(s, k, n) + (IF Carries(s, k, n + 1) THEN 1 ELSE 0)
         /\ \A m \in 0 .. n : Got(s, k, m) <= Got(s, k, n)
         /\ (\A i \in 1 .. n : ~Carries(s, k, i)) => Got(s, k, n) = 0
         /\ Got(s, k, n) > 0 => \E i \in 1 .. n : Carries(s, k, i)
  <1> DEFINE A == OfCall(s, k)
  <1>1. \A m \in Nat : Got(s, k, m) = Cardinality(Below(A, m))
    BY CountsAre DEF Got
  <1>2. \A i \in Nat : i \in A <=> Carries(s, k, i)
    BY DEF OfCall, Carries
  <1> HIDE DEF A
  <1>3. Got(s, k, n) \in Nat
        /\ Got(s, k, n + 1) = Got(s, k, n) + (IF n + 1 \in A THEN 1 ELSE 0)
    BY <1>1, CountUpto
  <1>4. Got(s, k, 0) = 0
    BY <1>1, CountOfNone
  <1>5. \A m \in 0 .. n : Got(s, k, m) <= Got(s, k, n)
    BY <1>1, CountRises
  <1>6. (\A i \in 1 .. n : ~Carries(s, k, i)) => Got(s, k, n) = 0
    <2>1. SUFFICES ASSUME \A i \in 1 .. n : ~Carries(s, k, i)
                   PROVE  Got(s, k, n) = 0
      OBVIOUS
    <2>2. Below(A, n) = {}
      BY <1>2, <2>1 DEF Below
    <2>3. QED
      BY <1>1, <2>2, FS_EmptySet
  <1>7. Got(s, k, n) > 0 => \E i \in 1 .. n : Carries(s, k, i)
    BY <1>6
  <1>8. QED
    BY <1>2, <1>3, <1>4, <1>5, <1>6, <1>7

-----------------------------------------------------------------------------
(* Fallback: the ranking and the drivers asked so far *)

Drivers == [name: Protocols, cost: Nat]

LEMMA ScoreIsInt ==
  ASSUME NEW d \in Drivers, NEW task \in LlmTasks
  PROVE  Score(d, task) \in Int
  <1> /\ d.name \in Protocols /\ d.cost \in Nat
      /\ task.type \in {"Reasoning", "ToolExecution", "MemoryRetrieval",
                        "IdleReflection", "SystemTask", "IntentProcessing"}
      /\ task.length \in Nat /\ task.private \in BOOLEAN /\ task.priority \in Nat
    BY LlmAssumption DEF Drivers
  <1>1. \A b, n : Points(b, n) \in {n, 0}
    BY DEF Points
  <1>2. CostScore(d, task) \in Int
    BY DEF CostScore
  <1>3. NameScore(d, task) \in Int
    <2>1. d.name = "openai" => NameScore(d, task) \in Int
      BY <1>1 DEF NameScore
    <2>2. d.name = "anthropic" => NameScore(d, task) \in Int
      <3>1. Points(task.length > 1000, 2500) \in Int /\ Points(task.type = "Reasoning", 1500) \in Int
        BY <1>1
      <3>2. QED
        BY <3>1 DEF NameScore
    <2>3. d.name = "ollama" => NameScore(d, task) \in Int
      <3>1. Points(task.type \in Simple, 3500) \in Int /\ Points(task.private, 4000) \in Int
        BY <1>1
      <3>2. QED
        BY <3>1 DEF NameScore
    <2>4. QED
      BY <2>1, <2>2, <2>3 DEF Protocols
  <1>4. TypeScore(d, task) \in Int
    <2>1. /\ Points(d.name # "ollama", 1000) \in Int /\ Points(d.cost > 0, 500) \in Int
          /\ Points(d.cost = 0, 2500) \in Int
      BY <1>1
    <2>2. QED
      BY <2>1 DEF TypeScore, Simple
  <1>5. Points(task.priority > 80, 200 * (task.priority - 80)) \in Int
    <2>1. 200 * (task.priority - 80) \in Int
      OBVIOUS
    <2>2. QED
      BY <1>1, <2>1
  <1>6. QED
    BY <1>2, <1>3, <1>4, <1>5 DEF Score

LEMMA RankingParts ==
  ASSUME NEW d \in DriverLists, NEW task \in LlmTasks, NEW r \in Rankings(d, task)
  PROVE  /\ d \in Seq(Drivers) /\ Len(d) \in Nat /\ DOMAIN d = 1 .. Len(d)
         /\ r \in [1 .. Len(d) -> 1 .. Len(d)]
         /\ \A i, j \in 1 .. Len(d) : r[i] = r[j] => i = j
         /\ \A j \in 1 .. Len(d) : \E i \in 1 .. Len(d) : r[i] = j
         /\ \A i \in 1 .. Len(d) : d[i] \in Drivers
         /\ \A i, j \in 1 .. Len(d) : i <= j =>
              Score(d[r[i]], task) >= Score(d[r[j]], task)
  <1> DEFINE N == 1 .. Len(d)
  <1>1. d \in Seq(Drivers) /\ Len(d) \in Nat /\ DOMAIN d = N
        /\ \A i \in N : d[i] \in Drivers
    <2>1. d \in Seq(Drivers)
      BY LlmAssumption, Zenon DEF Drivers
    <2>2. QED
      BY <2>1
  <1>2. r \in Bijection(N, N)
    BY <1>1 DEF Rankings
  <1>3. \A i, j \in N : i < j =>
          \/ Score(d[r[i]], task) > Score(d[r[j]], task)
          \/ Score(d[r[i]], task) = Score(d[r[j]], task)
    BY <1>1 DEF Rankings
  <1> HIDE DEF N
  <1>4. r \in [N -> N] /\ (\A i, j \in N : r[i] = r[j] => i = j)
        /\ \A j \in N : \E i \in N : r[i] = j
    BY <1>2 DEF Bijection, Injection, Surjection, IsInjective
  <1>5. \A i \in N : Score(d[r[i]], task) \in Int
    BY <1>1, <1>4, ScoreIsInt
  <1>6. \A i, j \in N : i <= j => Score(d[r[i]], task) >= Score(d[r[j]], task)
    <2> SUFFICES ASSUME NEW i \in N, NEW j \in N, i <= j
                 PROVE  Score(d[r[i]], task) >= Score(d[r[j]], task)
      OBVIOUS
    <2>1. i \in Nat /\ j \in Nat
      BY <1>1 DEF N
    <2>2. CASE i = j
      BY <1>5, <2>2
    <2>3. CASE i < j
      BY <1>3, <1>5, <2>3
    <2>4. QED
      BY <2>1, <2>2, <2>3
  <1>7. QED
    BY <1>1, <1>4, <1>6 DEF N

LEMMA FInvInit == LlmInit => FInv
  <1> SUFFICES ASSUME LlmInit PROVE FInv
    OBVIOUS
  <1>1. request \in [mode: Modes, drivers: DriverLists, task: LlmTasks]
        /\ attempts = <<>> /\ answer = NoAnswer /\ finished = FALSE
        /\ lines = <<>> /\ buffer = <<>>
    BY DEF LlmInit
  <1>2. PICK r \in Rankings(request.drivers, request.task) :
          ranked = [i \in DOMAIN request.drivers |-> request.drivers[r[i]]]
    BY DEF LlmInit
  <1>3. /\ Registered \in Nat /\ DOMAIN request.drivers = 1 .. Registered
    BY <1>1, RankingParts DEF Registered
  <1>4. Tried = 0
    BY <1>1 DEF Tried
  <1>5. Limit \in 0 .. Registered /\ (Limit = 0 => Registered = 0)
    BY <1>3 DEF Limit
  <1>6. answer.status = "Waiting" /\ answer # Failure
    BY <1>1 DEF NoAnswer, Failure
  <1>7. ranked = IF Tried < Limit
                 THEN [i \in 1 .. Registered - Tried |-> request.drivers[r[Tried + i]]]
                 ELSE <<>>
    <2>1. CASE Limit = 0
      <3>1. ranked = [i \in 1 .. 0 |-> request.drivers[r[i]]]
        BY <1>2, <1>3, <1>5, <2>1
      <3>2. ranked = <<>>
        BY <3>1
      <3>3. QED
        BY <1>4, <2>1, <3>2
    <2>2. CASE Limit # 0
      <3>1. \A i \in 1 .. Registered : Tried + i = i
        BY <1>4
      <3>2. Registered - Tried = Registered /\ Tried < Limit
        BY <1>3, <1>4, <1>5, <2>2
      <3>3. QED
        BY <1>2, <1>3, <3>1, <3>2
    <2>3. QED
      BY <2>1, <2>2
  <1>8. AskedInOrder(r)
    BY <1>4, <1>5, <1>6, <1>7 DEF AskedInOrder
  <1>9. attempts \in Seq([driver: [name: Protocols, cost: Nat], ok: BOOLEAN])
    BY <1>1, EmptySeq, Zenon
  <1>10. QED
    BY <1>1, <1>8, <1>9, Zenon DEF FInv

\* What an asked driver, and the drivers that are left, are.
LEMMA NextIs ==
  ASSUME FInv, Asking, NEW r \in Rankings(request.drivers, request.task), AskedInOrder(r)
  PROVE  /\ Registered \in Nat /\ Tried \in 0 .. Limit - 1 /\ Limit \in 1 .. Registered
         /\ Head(ranked) = request.drivers[r[Tried + 1]]
         /\ Head(ranked) \in Drivers
         /\ Tail(ranked) = [i \in 1 .. Registered - (Tried + 1) |->
                              request.drivers[r[Tried + 1 + i]]]
  <1>1. answer = NoAnswer /\ ranked # <<>>
    BY DEF Asking
  <1>2. request \in [mode: Modes, drivers: DriverLists, task: LlmTasks]
        /\ attempts \in Seq([driver: Drivers, ok: BOOLEAN])
    BY DEF FInv, Drivers
  <1>3. /\ Registered \in Nat /\ DOMAIN request.drivers = 1 .. Registered
        /\ r \in [1 .. Registered -> 1 .. Registered]
        /\ \A i \in 1 .. Registered : request.drivers[i] \in Drivers
    BY <1>2, RankingParts DEF Registered
  <1>4. Limit \in 0 .. Registered
    BY <1>3 DEF Limit
  <1>5. Tried \in Nat /\ Tried < Limit
    <2>1. Tried \in Nat
      BY <1>2, LenProperties DEF Tried
    <2>2. QED
      BY <1>1, <1>4, <2>1 DEF AskedInOrder
  <1>6. ranked = [i \in 1 .. Registered - Tried |-> request.drivers[r[Tried + i]]]
    BY <1>1, <1>5 DEF AskedInOrder
  <1> DEFINE m == Registered - Tried
             at == [i \in 1 .. Registered |-> request.drivers[r[i]]]
  <1>7. m \in Nat /\ m > 0
    BY <1>3, <1>4, <1>5
  <1>8. \A i \in 1 .. m : Tried + i \in 1 .. Registered
    BY <1>3, <1>5
  <1>9. \A i \in 1 .. Registered : at[i] \in Drivers
    BY <1>3
  <1>10. ranked = [i \in 1 .. m |-> at[Tried + i]]
    BY <1>6, <1>8
  <1> HIDE DEF m, at
  <1>11. ranked \in Seq(Drivers) /\ Len(ranked) = m /\ \A i \in 1 .. m : ranked[i] = at[Tried + i]
    BY <1>7, <1>8, <1>9, <1>10
  <1>12. Head(ranked) = at[Tried + 1]
    BY <1>7, <1>11
  <1>13. /\ Tail(ranked) \in Seq(Drivers) /\ Len(Tail(ranked)) = m - 1
         /\ \A i \in 1 .. m - 1 : Tail(ranked)[i] = ranked[i + 1]
    BY <1>1, <1>11, HeadTailProperties
  <1>14. Tail(ranked) = [i \in 1 .. m - 1 |-> Tail(ranked)[i]]
    <2>1. Taken(Tail(ranked), Len(Tail(ranked))) = Tail(ranked)
      BY <1>13, TakenAll
    <2>2. Taken(Tail(ranked), Len(Tail(ranked))) = Taken(Tail(ranked), m - 1)
      BY <1>13, Zenon
    <2>3. QED
      BY <2>1, <2>2, Zenon DEF Taken
  <1>15. \A i \in 1 .. m - 1 : Tail(ranked)[i] = request.drivers[r[Tried + 1 + i]]
    <2> SUFFICES ASSUME NEW i \in 1 .. m - 1
                 PROVE  Tail(ranked)[i] = request.drivers[r[Tried + 1 + i]]
      OBVIOUS
    <2>1. i + 1 \in 1 .. m /\ Tried + (i + 1) = Tried + 1 + i
      BY <1>5, <1>7
    <2>2. Tail(ranked)[i] = at[Tried + 1 + i]
      BY <1>11, <1>13, <2>1
    <2>3. Tried + 1 + i \in 1 .. Registered
      BY <1>8, <2>1
    <2>4. QED
      BY <2>2, <2>3 DEF at
  <1>16. m - 1 = Registered - (Tried + 1)
    BY <1>3, <1>5 DEF m
  <1>17. Tail(ranked) = [i \in 1 .. Registered - (Tried + 1) |->
                           request.drivers[r[Tried + 1 + i]]]
    BY <1>14, <1>15, <1>16, Zenon
  <1>18. Tried + 1 \in 1 .. Registered
    BY <1>3, <1>4, <1>5
  <1>19. QED
    BY <1>3, <1>4, <1>5, <1>9, <1>12, <1>17, <1>18 DEF at

\* One driver more was asked: it is the next one of the ranking.
LEMMA OneMoreAsked ==
  ASSUME FInv, Asking, UNCHANGED request, NEW b \in BOOLEAN,
         attempts' = Append(attempts, [driver |-> Head(ranked), ok |-> b]),
         NEW r \in Rankings(request.drivers, request.task), AskedInOrder(r)
  PROVE  /\ attempts' \in Seq([driver: [name: Protocols, cost: Nat], ok: BOOLEAN])
         /\ Tried \in Nat /\ Tried' = Tried + 1 /\ Limit \in Nat /\ Limit' = Limit
         /\ Registered' = Registered /\ Tried' <= Limit'
         /\ \A i \in 1 .. Tried' : attempts'[i].driver = request'.drivers[r[i]]
         /\ \A i \in 1 .. Tried' - 1 : ~attempts'[i].ok
         /\ attempts'[Tried'].ok = b
  <1> DEFINE e == [driver |-> Head(ranked), ok |-> b]
             A == [driver: Drivers, ok: BOOLEAN]
  <1>1. attempts \in Seq(A) /\ answer = NoAnswer
    BY DEF FInv, Asking, Drivers
  <1>2. /\ Tried \in 0 .. Limit - 1 /\ Limit \in 1 .. Registered /\ Registered \in Nat
        /\ Head(ranked) = request.drivers[r[Tried + 1]] /\ Head(ranked) \in Drivers
    BY NextIs
  <1>3. e \in A /\ e.driver = Head(ranked) /\ e.ok = b
    BY <1>2
  <1>4. /\ \A i \in 1 .. Tried : attempts[i].driver = request.drivers[r[i]]
        /\ \A i \in 1 .. Tried : ~attempts[i].ok
    BY <1>1 DEF AskedInOrder, NoAnswer
  <1> HIDE DEF e, A
  <1>5. attempts' = Append(attempts, e)
    BY DEF e
  <1>6. /\ attempts' \in Seq(A) /\ Len(attempts') = Len(attempts) + 1
        /\ \A i \in 1 .. Len(attempts) : attempts'[i] = attempts[i]
        /\ attempts'[Len(attempts) + 1] = e
    BY <1>1, <1>3, <1>5, AppendProperties
  <1>7. Tried' = Tried + 1 /\ Tried \in Nat /\ Limit \in Nat /\ Limit' = Limit
        /\ Registered' = Registered
    BY <1>2, <1>6 DEF Tried, Limit, Registered
  <1>8. /\ \A i \in 1 .. Tried : attempts'[i] = attempts[i]
        /\ attempts'[Tried + 1] = e
    BY <1>6 DEF Tried
  <1>9. \A i \in 1 .. Tried' : attempts'[i].driver = request'.drivers[r[i]]
    <2> SUFFICES ASSUME NEW i \in 1 .. Tried + 1
                 PROVE  attempts'[i].driver = request.drivers[r[i]]
      BY <1>7
    <2>1. CASE i = Tried + 1
      BY <1>2, <1>3, <1>8, <2>1
    <2>2. CASE i # Tried + 1
      <3>1. i \in 1 .. Tried
        BY <1>7, <2>2
      <3>2. QED
        BY <1>4, <1>8, <3>1
    <2>3. QED
      BY <2>1, <2>2
  <1>10. \A i \in 1 .. Tried' - 1 : ~attempts'[i].ok
    <2>1. Tried' - 1 = Tried
      BY <1>7
    <2>2. \A i \in 1 .. Tried : ~attempts'[i].ok
      BY <1>4, <1>8
    <2>3. QED
      BY <2>1, <2>2, Zenon
  <1>11. Tried' <= Limit' /\ attempts'[Tried'].ok = b
    <2>1. Tried' <= Limit'
      BY <1>2, <1>7
    <2>2. attempts'[Tried'] = e
      BY <1>7, <1>8, Zenon
    <2>3. QED
      BY <1>3, <2>1, <2>2, Zenon
  <1>12. attempts' \in Seq([driver: [name: Protocols, cost: Nat], ok: BOOLEAN])
    BY <1>6 DEF A, Drivers
  <1>13. QED
    BY <1>7, <1>9, <1>10, <1>11, <1>12

LEMMA NextDriverKeepsOrder ==
  ASSUME FInv, Asking, NextDriver
  PROVE  FInv'
  <1>1. PICK r \in Rankings(request.drivers, request.task) : AskedInOrder(r)
    BY DEF FInv
  <1>2. /\ UNCHANGED <<request, answer>>
        /\ attempts' = Append(attempts, [driver |-> Head(ranked), ok |-> FALSE])
        /\ ranked' = IF request.mode = "Fallback" THEN Tail(ranked) ELSE <<>>
        /\ lines' = <<>> /\ buffer' = <<>> /\ finished' = FALSE
    BY DEF NextDriver
  <1>3. /\ attempts' \in Seq([driver: [name: Protocols, cost: Nat], ok: BOOLEAN])
        /\ Tried \in Nat /\ Tried' = Tried + 1 /\ Limit \in Nat /\ Limit' = Limit
        /\ Registered' = Registered /\ Tried' <= Limit'
        /\ \A i \in 1 .. Tried' : attempts'[i].driver = request'.drivers[r[i]]
        /\ \A i \in 1 .. Tried' - 1 : ~attempts'[i].ok
        /\ attempts'[Tried'].ok = FALSE
    BY <1>1, <1>2, OneMoreAsked
  <1>4. \A i \in 1 .. Tried' : ~attempts'[i].ok
    <2> SUFFICES ASSUME NEW i \in 1 .. Tried' PROVE ~attempts'[i].ok
      OBVIOUS
    <2>1. CASE i = Tried'
      BY <1>3, <2>1
    <2>2. CASE i # Tried'
      <3>1. i \in 1 .. Tried' - 1
        BY <1>3, <2>2
      <3>2. QED
        BY <1>3, <3>1
    <2>3. QED
      BY <2>1, <2>2
  <1>5. answer' = NoAnswer /\ answer'.status = "Waiting" /\ answer' # Failure
    BY <1>2 DEF Asking, NoAnswer, Failure
  <1>6. /\ Registered \in Nat /\ Tried \in 0 .. Limit - 1 /\ Limit \in 1 .. Registered
        /\ Tail(ranked) = [i \in 1 .. Registered - (Tried + 1) |->
                             request.drivers[r[Tried + 1 + i]]]
    BY <1>1, NextIs
  <1>7. ranked' = IF Tried' < Limit'
                  THEN [i \in 1 .. Registered' - Tried' |-> request'.drivers[r[Tried' + i]]]
                  ELSE <<>>
    <2>1. CASE request.mode = "Fallback"
      <3>1. Limit = Registered
        BY <2>1 DEF Limit
      <3>2. ranked' = [i \in 1 .. Registered' - Tried' |-> request'.drivers[r[Tried' + i]]]
        BY <1>2, <1>3, <1>6, <2>1
      <3>3. Tried' < Limit' \/ Registered' - Tried' = 0
        BY <1>3, <1>6, <3>1
      <3>4. Registered' - Tried' = 0 => ranked' = <<>>
        <4>1. SUFFICES ASSUME Registered' - Tried' = 0 PROVE ranked' = <<>>
          OBVIOUS
        <4>2. ranked' = [i \in 1 .. 0 |-> request'.drivers[r[Tried' + i]]]
          BY <3>2, <4>1
        <4>3. QED
          BY <4>2
      <3>5. QED
        BY <3>2, <3>3, <3>4, <1>3, <1>6, <3>1
    <2>2. CASE request.mode # "Fallback"
      <3>1. Limit = 1
        BY <1>6, <2>2 DEF Limit
      <3>2. ~(Tried' < Limit')
        BY <1>3, <1>6, <3>1
      <3>3. QED
        BY <1>2, <2>2, <3>2
    <2>3. QED
      BY <2>1, <2>2
  <1>8. AskedInOrder(r)'
    BY <1>3, <1>4, <1>5, <1>7 DEF AskedInOrder
  <1>9. r \in Rankings(request'.drivers, request'.task) /\ request' = request
    BY <1>1, <1>2
  <1>10. lines' = <<>> /\ buffer' = <<>> /\ finished' \in BOOLEAN
    BY <1>2
  <1>11. request' \in [mode: Modes, drivers: DriverLists, task: LlmTasks]
    BY <1>9 DEF FInv
  <1>12. QED
    BY <1>3, <1>5, <1>8, <1>9, <1>10, <1>11, Zenon DEF FInv

LEMMA AnsweredKeepsOrder ==
  ASSUME FInv, Reading, NEW g, Answered(g), UNCHANGED <<request, script, finished>>
  PROVE  FInv'
  <1>1. PICK r \in Rankings(request.drivers, request.task) : AskedInOrder(r)
    BY DEF FInv
  <1>2. /\ attempts' = Append(attempts, [driver |-> Head(ranked), ok |-> TRUE])
        /\ answer' = [status |-> "Answered", content |-> g.content,
                      tool_calls |-> g.tool_calls, tokens |-> g.tokens]
    BY DEF Answered
  <1>3. /\ attempts' \in Seq([driver: [name: Protocols, cost: Nat], ok: BOOLEAN])
        /\ Tried \in Nat /\ Tried' = Tried + 1 /\ Tried' <= Limit'
        /\ \A i \in 1 .. Tried' : attempts'[i].driver = request'.drivers[r[i]]
        /\ \A i \in 1 .. Tried' - 1 : ~attempts'[i].ok
        /\ attempts'[Tried'].ok = TRUE
    BY <1>1, <1>2, OneMoreAsked DEF Reading
  <1>4. answer'.status = "Answered"
    BY <1>2
  <1>5. answer' # NoAnswer /\ answer' # Failure
    BY <1>4 DEF NoAnswer, Failure
  <1>6. AskedInOrder(r)'
    <2>1. Tried' > 0
      BY <1>3
    <2>2. QED
      BY <1>3, <1>4, <1>5, <2>1, Zenon DEF AskedInOrder
  <1>7. r \in Rankings(request'.drivers, request'.task) /\ request' = request
        /\ script' = script /\ finished' = finished /\ script # NoScript
    BY <1>1 DEF Reading
  <1>8. /\ request' \in [mode: Modes, drivers: DriverLists, task: LlmTasks]
        /\ finished' \in BOOLEAN
    BY <1>7, Zenon DEF FInv
  <1>9. QED
    BY <1>3, <1>4, <1>6, <1>7, <1>8, Zenon DEF FInv

LEMMA NoDriverKeepsOrder ==
  ASSUME FInv, NoDriver
  PROVE  FInv'
  <1>1. PICK r \in Rankings(request.drivers, request.task) : AskedInOrder(r)
    BY DEF FInv
  <1>2. /\ UNCHANGED <<request, script, lines, buffer, finished, attempts>>
        /\ answer = NoAnswer /\ ranked = <<>> /\ answer' = Failure
    BY DEF NoDriver
  <1>3. /\ Registered \in Nat /\ Tried \in Nat
        /\ Tried' = Tried /\ Limit' = Limit /\ Registered' = Registered
    <2>1. Registered \in Nat
      BY RankingParts DEF FInv, Registered
    <2>2. Tried \in Nat
      BY LenProperties DEF FInv, Tried
    <2>3. QED
      BY <1>2, <2>1, <2>2 DEF Tried, Limit, Registered
  <1>4. Limit \in 0 .. Registered
    BY <1>3 DEF Limit
  <1>5. answer.status = "Waiting" /\ answer'.status = "Failed" /\ answer' # NoAnswer
    BY <1>2 DEF NoAnswer, Failure
  <1>6. Tried = Limit
    <2>1. SUFFICES ASSUME Tried < Limit PROVE FALSE
      BY <1>1, <1>3, <1>4 DEF AskedInOrder
    <2>2. ranked = [i \in 1 .. Registered - Tried |-> request.drivers[r[Tried + i]]]
      BY <1>1, <1>2, <2>1 DEF AskedInOrder
    <2>3. 1 \in DOMAIN ranked
      BY <1>3, <1>4, <2>1, <2>2
    <2>4. QED
      BY <1>2, <2>3
  <1>7. AskedInOrder(r)'
    <2>1. /\ Tried <= Limit
          /\ \A i \in 1 .. Tried : attempts[i].driver = request.drivers[r[i]]
          /\ \A i \in 1 .. Tried - 1 : ~attempts[i].ok
          /\ \A i \in 1 .. Tried : ~attempts[i].ok
      BY <1>1, <1>5 DEF AskedInOrder
    <2>2. QED
      BY <1>2, <1>3, <1>5, <1>6, <2>1 DEF AskedInOrder
  <1>8. r \in Rankings(request'.drivers, request'.task) /\ request' = request
    BY <1>1, <1>2
  <1>9. QED
    BY <1>2, <1>5, <1>7, <1>8, Zenon DEF FInv

\* Steps that ask no driver and answer nothing.
LEMMA StreamKeepsOrder ==
  ASSUME FInv, UNCHANGED <<request, ranked, attempts, answer>>, finished' \in BOOLEAN,
         script' # NoScript
  PROVE  FInv'
  <1>1. PICK r \in Rankings(request.drivers, request.task) : AskedInOrder(r)
    BY DEF FInv
  <1>2. Tried' = Tried /\ Limit' = Limit /\ Registered' = Registered
    BY DEF Tried, Limit, Registered
  <1>3. AskedInOrder(r)'
    BY <1>1, <1>2 DEF AskedInOrder
  <1>4. r \in Rankings(request'.drivers, request'.task) /\ request' = request
    BY <1>1
  <1>5. QED
    BY <1>3, <1>4, Zenon DEF FInv

LEMMA FInvNext == FInv /\ [LlmNext]_llm_vars => FInv'
  <1> SUFFICES ASSUME FInv, [LlmNext]_llm_vars PROVE FInv'
    OBVIOUS
  <1>1. finished \in BOOLEAN
    BY DEF FInv
  <1>2. CASE NoDriver
    BY <1>2, NoDriverKeepsOrder
  <1>3. CASE Connect
    <2>1. PICK s \in Scripts : script' = s
      BY <1>3 DEF Connect
    <2>2. script' # NoScript
      BY <2>1, LlmAssumption DEF IsScript, NoScript, Protocols
    <2>3. UNCHANGED <<request, ranked, attempts, answer, finished>>
      BY <1>3 DEF Connect
    <2>4. QED
      BY <1>1, <2>2, <2>3, StreamKeepsOrder
  <1>4. CASE ConnectFails \/ StreamBreaks
    BY <1>4, NextDriverKeepsOrder DEF ConnectFails, StreamBreaks, Reading
  <1>5. CASE (\E n \in Pieces : Chunk(n)) \/ StreamEnds
    <2>1. /\ UNCHANGED <<request, ranked, attempts, answer, script>>
          /\ finished' \in BOOLEAN /\ script # NoScript
      BY <1>1, <1>5 DEF Chunk, StreamEnds, Reading
    <2>2. QED
      BY <2>1, StreamKeepsOrder
  <1>6. CASE TakeLine \/ FlushRest
    <2>1. PICK pieces : Reading /\ Take(pieces)
      BY <1>6 DEF TakeLine, FlushRest
    <2> DEFINE g == Gathered(partial, Feed(parser, Text(pieces)).events)
    <2>2. \/ NextDriver
          \/ Answered(g) /\ UNCHANGED <<request, script, finished>>
          \/ UNCHANGED <<request, ranked, attempts, answer, script, finished>>
      <3> HIDE DEF g
      <3>1. \/ NextDriver
            \/ /\ IF g.done THEN Answered(g)
                  ELSE partial' = g /\ UNCHANGED <<attempts, answer>>
               /\ UNCHANGED <<request, ranked, script, wire, finished>>
        BY <2>1, Zenon DEF Take, g
      <3>2. QED
        BY <3>1
    <2>3. CASE NextDriver
      BY <2>1, <2>3, NextDriverKeepsOrder DEF Reading
    <2>4. CASE Answered(g) /\ UNCHANGED <<request, script, finished>>
      <3> HIDE DEF g
      <3>1. QED
        BY <2>1, <2>4, AnsweredKeepsOrder
    <2>5. CASE UNCHANGED <<request, ranked, attempts, answer, script, finished>>
      BY <1>1, <2>1, <2>5, StreamKeepsOrder DEF Reading
    <2>6. QED
      BY <2>2, <2>3, <2>4, <2>5
  <1>7. CASE StreamOver
    <2>1. Reading /\ Answered(partial) /\ UNCHANGED <<request, script, finished>>
      BY <1>7 DEF StreamOver
    <2>2. QED
      BY <2>1, AnsweredKeepsOrder
  <1>8. CASE UNCHANGED llm_vars
    <2>1. /\ UNCHANGED <<request, ranked, attempts, answer>>
          /\ UNCHANGED <<finished, script, lines, buffer>>
      BY <1>8 DEF llm_vars
    <2>2. PICK r \in Rankings(request.drivers, request.task) : AskedInOrder(r)
      BY DEF FInv
    <2>3. Tried' = Tried /\ Limit' = Limit /\ Registered' = Registered
      BY <2>1 DEF Tried, Limit, Registered
    <2>4. AskedInOrder(r)'
      BY <2>1, <2>2, <2>3 DEF AskedInOrder
    <2>5. r \in Rankings(request'.drivers, request'.task) /\ request' = request
      BY <2>1, <2>2
    <2>6. QED
      BY <2>1, <2>4, <2>5, Zenon DEF FInv
  <1>9. QED
    BY <1>2, <1>3, <1>4, <1>5, <1>6, <1>7, <1>8 DEF LlmNext

\* What the drivers asked so far are, and how asking them ended: the inductive
\* invariant of the loop over the ranked drivers (service.rs:66-102).
THEOREM AskedInvariant == LlmSpec => []FInv
  BY FInvInit, FInvNext, PTL DEF LlmSpec

\* A driver is asked as often as it is registered, at most: its places among
\* those asked are places of the ranking, which are places of the registry.
LEMMA AskedAsRegistered ==
  ASSUME FInv, NEW d
  PROVE  Times(d, Asked) <= Times(d, request.drivers)
  <1>1. PICK r \in Rankings(request.drivers, request.task) : AskedInOrder(r)
    BY DEF FInv
  <1>2. /\ Registered \in Nat /\ DOMAIN request.drivers = 1 .. Registered
        /\ r \in [1 .. Registered -> 1 .. Registered]
        /\ \A i, j \in 1 .. Registered : r[i] = r[j] => i = j
    <2>1. request.drivers \in DriverLists /\ request.task \in LlmTasks
      BY DEF FInv
    <2> DEFINE drivers == request.drivers
    <2> HIDE DEF drivers
    <2>2. \A task \in LlmTasks : r \in Rankings(drivers, task) =>
            /\ Len(drivers) \in Nat /\ DOMAIN drivers = 1 .. Len(drivers)
            /\ r \in [1 .. Len(drivers) -> 1 .. Len(drivers)]
            /\ \A i, j \in 1 .. Len(drivers) : r[i] = r[j] => i = j
      <3>1. drivers \in DriverLists
        BY <2>1 DEF drivers
      <3>2. QED
        BY <3>1, RankingParts, Zenon
    <2>3. QED
      BY <2>1, <2>2 DEF drivers, Registered
  <1>3. Tried \in Nat /\ DOMAIN attempts = 1 .. Tried
    BY LenProperties DEF FInv, Tried
  <1>4. Tried <= Registered
    <2>1. Tried <= Limit
      BY <1>1 DEF AskedInOrder
    <2>2. Limit \in 0 .. Registered
      BY <1>2 DEF Limit
    <2>3. QED
      BY <1>2, <1>3, <2>1, <2>2
  <1>5. \A i \in 1 .. Tried : attempts[i].driver = request.drivers[r[i]]
    BY <1>1 DEF AskedInOrder
  <1> DEFINE S == {i \in 1 .. Tried : attempts[i].driver = d}
             T == {i \in 1 .. Registered : request.drivers[i] = d}
             f == [i \in S |-> r[i]]
  <1>6. f \in Injection(S, T)
    <2>1. \A i \in 1 .. Tried : i \in 1 .. Registered
      BY <1>2, <1>3, <1>4
    <2>2. \A i \in S : r[i] \in T
      BY <1>2, <1>5, <2>1
    <2>3. \A i, j \in S : r[i] = r[j] => i = j
      BY <1>2, <2>1
    <2> HIDE DEF S, T
    <2>4. f \in [S -> T] /\ \A i, j \in S : f[i] = f[j] => i = j
      BY <2>2, <2>3
    <2>5. QED
      BY <2>4 DEF Injection, IsInjective
  <1>7. IsFiniteSet(T)
    BY <1>2, FS_Interval, FS_Subset
  <1>8. Cardinality(S) <= Cardinality(T)
    <2> HIDE DEF S, T, f
    <2>1. QED
      BY <1>6, <1>7, FS_Injection
  <1>9. {i \in DOMAIN Asked : Asked[i] = d} = S
    BY <1>3 DEF Asked
  <1>10. {i \in DOMAIN request.drivers : request.drivers[i] = d} = T
    BY <1>2
  <1>11. QED
    BY <1>8, <1>9, <1>10, Zenon DEF Times

\* The fallback is faithful: each registered driver is asked at most once, the
\* better ones first, the next only when all before it failed, the pipeline
\* the best alone; an answer is the first success, and a request fails only
\* when every driver it may ask has failed (service.rs:66-102, 190-193).
THEOREM FallbackStaysFaithful == LlmSpec => []FallbackFaithful
  <1>1. FInv => FallbackFaithful
    <2> SUFFICES ASSUME FInv PROVE FallbackFaithful
      OBVIOUS
    <2> DEFINE Worth(i) == Score(attempts[i].driver, request.task)
               registered == request.drivers
    <2>1. PICK r \in Rankings(request.drivers, request.task) : AskedInOrder(r)
      BY DEF FInv
    <2>2. /\ Registered \in Nat /\ DOMAIN request.drivers = 1 .. Registered
          /\ \A j \in 1 .. Registered : \E i \in 1 .. Registered : r[i] = j
          /\ \A i, j \in 1 .. Registered : i <= j =>
               Score(request.drivers[r[i]], request.task)
                 >= Score(request.drivers[r[j]], request.task)
      BY RankingParts DEF FInv, Registered
    <2>3. Tried \in Nat /\ DOMAIN attempts = 1 .. Tried
          /\ attempts \in Seq([driver: [name: Protocols, cost: Nat], ok: BOOLEAN])
      BY LenProperties DEF FInv, Tried
    <2>4. Limit \in 0 .. Registered /\ Tried <= Limit
      BY <2>1, <2>2 DEF AskedInOrder, Limit
    <2>5. \A i \in 1 .. Tried : attempts[i].driver = request.drivers[r[i]]
      BY <2>1 DEF AskedInOrder
    <2>6. \A i \in 1 .. Tried : i \in 1 .. Registered
      BY <2>2, <2>3, <2>4
    <2>7. \A i \in 1 .. Tried - 1 : ~attempts[i].ok
      BY <2>1 DEF AskedInOrder
    <2>8. LlmTypeOK
      <3>1. \A i \in DOMAIN attempts : attempts[i].ok \in BOOLEAN
        <4> DEFINE A == [driver: [name: Protocols, cost: Nat], ok: BOOLEAN]
        <4>1. \A a \in A : a.ok \in BOOLEAN
          OBVIOUS
        <4>2. attempts \in Seq(A)
          BY <2>3
        <4> HIDE DEF A
        <4>3. \A i \in DOMAIN attempts : attempts[i] \in A
          BY <4>2
        <4>4. QED
          BY <4>1, <4>3
      <3>2. QED
        BY <3>1 DEF FInv, LlmTypeOK
    <2>9. ASSUME NEW i \in DOMAIN attempts
          PROVE  /\ Times(Asked[i], Asked) <= Times(Asked[i], registered)
                 /\ \A j \in 1 .. i - 1 : ~attempts[j].ok /\ Worth(j) >= Worth(i)
      <3>1. Times(Asked[i], Asked) <= Times(Asked[i], registered)
        BY AskedAsRegistered
      <3>2. ASSUME NEW j \in 1 .. i - 1
            PROVE  ~attempts[j].ok /\ Worth(j) >= Worth(i)
        <4>1. i \in 1 .. Tried /\ j \in 1 .. Tried - 1 /\ j \in 1 .. Tried /\ j <= i
          BY <2>3
        <4>2. i \in 1 .. Registered /\ j \in 1 .. Registered
          BY <2>6, <4>1
        <4>3. Score(request.drivers[r[j]], request.task)
                >= Score(request.drivers[r[i]], request.task)
          BY <2>2, <4>1, <4>2
        <4>4. QED
          BY <2>5, <2>7, <4>1, <4>3
      <3>3. QED
        BY <3>1, <3>2
    <2>10. ASSUME request.mode = "Pipeline", NEW i \in DOMAIN attempts,
                  NEW j \in DOMAIN registered
           PROVE  Worth(i) >= Score(registered[j], request.task)
      <3>1. Limit <= 1
        BY <2>10 DEF Limit
      <3>2. i = 1 /\ 1 \in 1 .. Tried /\ 1 \in 1 .. Registered
        BY <2>3, <2>4, <2>6, <3>1
      <3>3. PICK k \in 1 .. Registered : r[k] = j
        BY <2>2
      <3>4. Score(request.drivers[r[1]], request.task)
              >= Score(request.drivers[r[k]], request.task)
        <4>1. 1 <= k
          BY <2>2
        <4>2. QED
          BY <2>2, <3>2, <4>1
      <3>5. QED
        BY <2>5, <3>2, <3>3, <3>4
    <2>11. ASSUME answer = Failure
           PROVE  /\ \A i \in DOMAIN attempts : ~attempts[i].ok
                  /\ Len(attempts) = IF request.mode = "Fallback" THEN Len(registered)
                                     ELSE IF registered = <<>> THEN 0 ELSE 1
      <3>1. answer.status # "Answered"
        BY <2>11 DEF Failure
      <3>2. (\A i \in 1 .. Tried : ~attempts[i].ok) /\ Tried = Limit
        BY <2>1, <2>11, <3>1 DEF AskedInOrder
      <3>3. registered = <<>> <=> Len(registered) = 0
        <4>1. registered \in Seq(Drivers)
          BY RankingParts DEF FInv
        <4>2. QED
          BY <4>1, EmptySeq
      <3>4. QED
        BY <2>3, <3>2, <3>3 DEF Limit, Tried, Registered
    <2>12. Succeeded <=> attempts # <<>> /\ Last(attempts).ok
      <3>1. CASE answer.status = "Answered"
        <4>1. Tried > 0 /\ attempts[Tried].ok
          BY <2>1, <3>1 DEF AskedInOrder
        <4>2. attempts # <<>> /\ Last(attempts) = attempts[Tried]
          BY <2>3, <4>1 DEF Last, Tried
        <4>3. QED
          BY <3>1, <4>1, <4>2 DEF Succeeded
      <3>2. CASE answer.status # "Answered"
        <4>1. \A i \in 1 .. Tried : ~attempts[i].ok
          BY <2>1, <3>2 DEF AskedInOrder
        <4>2. attempts # <<>> => Tried \in 1 .. Tried /\ Last(attempts) = attempts[Tried]
          BY <2>3, EmptySeq DEF Last, Tried
        <4>3. QED
          BY <3>2, <4>1, <4>2 DEF Succeeded
      <3>3. QED
        BY <3>1, <3>2
    <2>13. QED
      BY <2>8, <2>9, <2>10, <2>11, <2>12 DEF FallbackFaithful
  <1>2. QED
    BY <1>1, AskedInvariant, PTL

-----------------------------------------------------------------------------
(* LineStream: pieces, chunks and lines *)

LEMMA PieceIs ==
  ASSUME NEW q \in Nat, q > 0
  PROVE  /\ Piece(q) \in WirePieces
         /\ Piece(q).line = (q + 2) \div 3
         /\ Piece(q).part = "newline" <=> q % 3 = 0
         /\ Piece(q).part = "head" <=> q % 3 = 1
  <1> DEFINE k == (q + 2) % 3
             l == (q + 2) \div 3
  <1>1. l \in Nat /\ k \in 0 .. 2
    OBVIOUS
  <1>2. (k = 2 <=> q % 3 = 0) /\ (k = 0 <=> q % 3 = 1)
    OBVIOUS
  <1> HIDE DEF k, l
  <1>3. /\ Parts[k + 1] \in {"head", "tail", "newline"}
        /\ Parts[k + 1] = "newline" <=> k = 2
        /\ Parts[k + 1] = "head" <=> k = 0
    BY <1>1 DEF Parts
  <1>4. Piece(q) = [line |-> l, part |-> Parts[k + 1]]
    BY DEF Piece, k, l
  <1>5. QED
    BY <1>1, <1>2, <1>3, <1>4 DEF WirePieces, l

LEMMA PiecesParts ==
  ASSUME NEW q \in Nat, NEW k \in Nat
  PROVE  /\ Pieces3(q, k) \in Seq(WirePieces) /\ Len(Pieces3(q, k)) = k
         /\ \A i \in 1 .. k : Pieces3(q, k)[i] = Piece(q + i)
  <1>1. \A i \in 1 .. k : Piece(q + i) \in WirePieces
    BY PieceIs
  <1>2. QED
    BY <1>1 DEF Pieces3

LEMMA PiecesCut ==
  ASSUME NEW q \in Nat, NEW k \in Nat, NEW a \in 1 .. k + 1, NEW b \in a - 1 .. k
  PROVE  SubSeq(Pieces3(q, k), a, b) = Pieces3(q + a - 1, b - a + 1)
  <1> DEFINE x == Pieces3(q, k)
             y == Pieces3(q + a - 1, b - a + 1)
  <1>1. a \in Int /\ b \in Int /\ q + a - 1 \in Nat /\ b - a + 1 \in Nat
    OBVIOUS
  <1>2. x \in Seq(WirePieces) /\ Len(x) = k /\ \A i \in 1 .. k : x[i] = Piece(q + i)
    BY PiecesParts
  <1>3. y \in Seq(WirePieces) /\ Len(y) = b - a + 1
        /\ \A i \in 1 .. b - a + 1 : y[i] = Piece(q + a - 1 + i)
    BY <1>1, PiecesParts
  <1> HIDE DEF x, y
  <1>4. \A i \in a .. b : x[i] \in WirePieces
    BY <1>2
  <1>5. /\ SubSeq(x, a, b) \in Seq(WirePieces)
        /\ Len(SubSeq(x, a, b)) = IF a <= b THEN b - a + 1 ELSE 0
        /\ \A i \in 1 .. b - a + 1 : SubSeq(x, a, b)[i] = x[a + i - 1]
    BY <1>1, <1>2, <1>4, SubSeqProperties
  <1>6. Len(SubSeq(x, a, b)) = b - a + 1
    BY <1>1, <1>5
  <1>7. \A i \in 1 .. b - a + 1 : SubSeq(x, a, b)[i] = y[i]
    <2> SUFFICES ASSUME NEW i \in 1 .. b - a + 1
                 PROVE  SubSeq(x, a, b)[i] = y[i]
      OBVIOUS
    <2>1. a + i - 1 \in 1 .. k /\ q + (a + i - 1) = q + a - 1 + i
      OBVIOUS
    <2>2. QED
      BY <1>2, <1>3, <1>5, <2>1
  <1>8. QED
    BY <1>3, <1>5, <1>6, <1>7, SeqEqual DEF x, y

LEMMA PiecesJoin ==
  ASSUME NEW q \in Nat, NEW k \in Nat, NEW l \in Nat
  PROVE  Pieces3(q, k) \o Pieces3(q + k, l) = Pieces3(q, k + l)
  <1> DEFINE x == Pieces3(q, k)
             y == Pieces3(q + k, l)
             z == Pieces3(q, k + l)
  <1>1. x \in Seq(WirePieces) /\ Len(x) = k /\ \A i \in 1 .. k : x[i] = Piece(q + i)
    BY PiecesParts
  <1>2. y \in Seq(WirePieces) /\ Len(y) = l /\ \A i \in 1 .. l : y[i] = Piece(q + k + i)
    <2>1. q + k \in Nat
      OBVIOUS
    <2>2. QED
      BY <2>1, PiecesParts
  <1>3. z \in Seq(WirePieces) /\ Len(z) = k + l /\ \A i \in 1 .. k + l : z[i] = Piece(q + i)
    BY PiecesParts
  <1> HIDE DEF x, y, z
  <1>4. /\ x \o y \in Seq(WirePieces) /\ Len(x \o y) = k + l
        /\ \A i \in 1 .. k + l : (x \o y)[i] = IF i <= k THEN x[i] ELSE y[i - k]
    BY <1>1, <1>2, ConcatProperties
  <1>5. \A i \in 1 .. k + l : (x \o y)[i] = z[i]
    <2> SUFFICES ASSUME NEW i \in 1 .. k + l PROVE (x \o y)[i] = z[i]
      OBVIOUS
    <2>1. CASE i <= k
      BY <1>1, <1>3, <1>4, <2>1
    <2>2. CASE ~(i <= k)
      <3>1. i - k \in 1 .. l /\ q + k + (i - k) = q + i
        BY <2>2
      <3>2. QED
        BY <1>2, <1>3, <1>4, <2>2, <3>1
    <2>3. QED
      BY <2>1, <2>2
  <1>6. QED
    BY <1>3, <1>4, <1>5, SeqEqual DEF x, y, z

Bytes == Seq(WirePieces)
ExtractFrom(f, bytes) ==
  IF Newlines(bytes) = {} THEN [lines |-> <<>>, rest |-> bytes]
  ELSE LET pos == First(Newlines(bytes))
           others == f[SubSeq(bytes, pos + 1, Len(bytes))]
       IN  [lines |-> <<SubSeq(bytes, 1, pos - 1)>> \o others.lines,
            rest |-> others.rest]

\* Cutting off a line leaves less.
LEMMA FirstLine ==
  ASSUME NEW bytes \in Bytes, Newlines(bytes) # {}
  PROVE  LET pos == First(Newlines(bytes))
         IN  /\ pos \in 1 .. Len(bytes)
             /\ SubSeq(bytes, 1, pos - 1) \in Bytes
             /\ SubSeq(bytes, pos + 1, Len(bytes)) \in Bytes
             /\ Len(SubSeq(bytes, pos + 1, Len(bytes))) < Len(bytes)
  <1> DEFINE N == Newlines(bytes)
             pos == First(N)
  <1>1. Len(bytes) \in Nat /\ DOMAIN bytes = 1 .. Len(bytes)
        /\ \A i \in 1 .. Len(bytes) : bytes[i] \in WirePieces
    BY DEF Bytes
  <1>2. N \in SUBSET Nat /\ N \subseteq 1 .. Len(bytes)
    BY <1>1 DEF Newlines
  <1> HIDE DEF N
  <1>3. \E q \in N : \A p \in N : q <= p
    BY <1>2, LeastNatural DEF N
  <1>4. pos \in N
    BY <1>3, Zenon DEF First
  <1>5. pos \in 1 .. Len(bytes)
    BY <1>2, <1>4
  <1> HIDE DEF pos
  <1>6. SubSeq(bytes, 1, pos - 1) \in Bytes
    <2>1. \A i \in 1 .. pos - 1 : bytes[i] \in WirePieces
      BY <1>1, <1>5
    <2>2. QED
      BY <1>5, <2>1, SubSeqProperties DEF Bytes
  <1>7. SubSeq(bytes, pos + 1, Len(bytes)) \in Bytes
        /\ Len(SubSeq(bytes, pos + 1, Len(bytes))) < Len(bytes)
    <2>1. \A i \in pos + 1 .. Len(bytes) : bytes[i] \in WirePieces
      BY <1>1, <1>5
    <2>2. /\ SubSeq(bytes, pos + 1, Len(bytes)) \in Bytes
          /\ Len(SubSeq(bytes, pos + 1, Len(bytes))) =
               IF pos + 1 <= Len(bytes) THEN Len(bytes) - (pos + 1) + 1 ELSE 0
      BY <1>1, <1>5, <2>1, SubSeqProperties DEF Bytes
    <2>3. QED
      BY <1>1, <1>5, <2>2
  <1>8. QED
    BY <1>5, <1>6, <1>7 DEF pos, N

BytesLength == [bytes \in Bytes |-> Len(bytes)]

\* The recursive function is what its definition says.
LEMMA ExtractedSolves == Extracted = [bytes \in Bytes |-> ExtractFrom(Extracted, bytes)]
  <1> DEFINE Q == [lines: Seq(Bytes), rest: Bytes]
             D == [bytes \in Bytes |-> [f \in [Bytes -> Q] |-> ExtractFrom(f, bytes)]]
  <1>1. ASSUME NEW bytes \in Bytes, NEW f \in [Bytes -> Q]
        PROVE  ExtractFrom(f, bytes) \in Q
    <2>1. CASE Newlines(bytes) = {}
      <3>1. <<>> \in Seq(Bytes)
        BY EmptySeq
      <3>2. QED
        BY <2>1, <3>1, Zenon DEF ExtractFrom
    <2>2. CASE Newlines(bytes) # {}
      <3> DEFINE pos == First(Newlines(bytes))
                 first == SubSeq(bytes, 1, pos - 1)
                 later == SubSeq(bytes, pos + 1, Len(bytes))
      <3>1. first \in Bytes /\ later \in Bytes
        BY <2>2, FirstLine
      <3>2. ExtractFrom(f, bytes) =
              [lines |-> <<first>> \o f[later].lines, rest |-> f[later].rest]
        BY <2>2, Zenon DEF ExtractFrom
      <3> HIDE DEF first, later
      <3>3. f[later] \in Q
        BY <3>1
      <3>4. f[later].lines \in Seq(Bytes) /\ f[later].rest \in Bytes
        BY <3>3
      <3>5. <<first>> \in Seq(Bytes)
        BY <3>1, SingletonList
      <3>6. <<first>> \o f[later].lines \in Seq(Bytes)
        BY <3>4, <3>5, ConcatProperties
      <3> DEFINE cut == <<first>> \o f[later].lines
                 rest == f[later].rest
      <3>7. cut \in Seq(Bytes) /\ rest \in Bytes
            /\ ExtractFrom(f, bytes) = [lines |-> cut, rest |-> rest]
        BY <3>2, <3>4, <3>6
      <3> HIDE DEF cut, rest
      <3>8. QED
        BY <3>7
    <2>3. QED
      BY <2>1, <2>2
  <1>2. ASSUME NEW bytes \in Bytes, NEW f \in [Bytes -> Q], NEW g \in [Bytes -> Q],
               \A b \in Bytes : BytesLength[b] < BytesLength[bytes] => f[b] = g[b]
        PROVE  ExtractFrom(f, bytes) = ExtractFrom(g, bytes)
    <2> DEFINE later == SubSeq(bytes, First(Newlines(bytes)) + 1, Len(bytes))
    <2>1. Newlines(bytes) # {} => f[later] = g[later]
      <3>1. SUFFICES ASSUME Newlines(bytes) # {} PROVE f[later] = g[later]
        OBVIOUS
      <3>2. later \in Bytes /\ Len(later) < Len(bytes)
        BY <3>1, FirstLine
      <3> HIDE DEF later
      <3>3. BytesLength[later] < BytesLength[bytes]
        BY <3>2 DEF BytesLength
      <3>4. QED
        BY <1>2, <3>2, <3>3
    <2>2. QED
      BY <2>1, Zenon DEF ExtractFrom
  <1> HIDE DEF Q
  <1>3. D \in [Bytes -> [[Bytes -> Q] -> Q]]
    BY <1>1
  <1>4. \A b \in Bytes : \A f \in [Bytes -> Q] : D[b][f] = ExtractFrom(f, b)
    OBVIOUS
  <1> HIDE DEF D
  <1>5. Determined(D, Bytes, Q, BytesLength)
    <2>1. \A b \in Bytes : \A f, g \in [Bytes -> Q] :
            (\A c \in Bytes : BytesLength[c] < BytesLength[b] => f[c] = g[c])
              => D[b][f] = D[b][g]
      BY <1>2, <1>4
    <2>2. BytesLength \in [Bytes -> Nat]
      BY LenProperties DEF BytesLength, Bytes
    <2>3. QED
      BY <1>3, <2>1, <2>2, Zenon DEF Determined
  <1>6. Q # {}
    <2>1. <<>> \in Seq(Bytes) /\ <<>> \in Bytes
      BY EmptySeq DEF Bytes
    <2>2. [lines |-> <<>>, rest |-> <<>>] \in Q
      BY <2>1, Zenon DEF Q
    <2>3. QED
      BY <2>2
  <1>7. PICK f \in [Bytes -> Q] : \A b \in Bytes : f[b] = D[b][f]
    BY <1>5, <1>6, SolutionExists
  <1>8. f = [b \in Bytes |-> ExtractFrom(f, b)]
    <2>1. \A b \in Bytes : f[b] = ExtractFrom(f, b)
      BY <1>4, <1>7
    <2>2. QED
      BY <2>1, Zenon
  <1>9. Extracted = CHOOSE g : g = [b \in Bytes |-> ExtractFrom(g, b)]
    BY DEF Extracted, ExtractFrom, Bytes
  <1>10. QED
    BY <1>8, <1>9, Zenon

\* What leaves the buffer when m lines and r pieces of the next are in it.
LEMMA LinesExtracted ==
  ASSUME NEW i \in Nat, NEW m \in Nat, NEW r \in 0 .. 2
  PROVE  Extracted[Pieces3(3 * i, 3 * m + r)] =
           [lines |-> [j \in 1 .. m |-> WholeLine(i + j)],
            rest |-> Pieces3(3 * (i + m), r)]
  <1> DEFINE Is(h, k) == Extracted[Pieces3(3 * h, 3 * k + r)] =
                           [lines |-> [j \in 1 .. k |-> WholeLine(h + j)],
                            rest |-> Pieces3(3 * (h + k), r)]
             S == {k \in Nat : \A h \in Nat : Is(h, k)}
  <1>1. ASSUME NEW bytes \in Bytes
        PROVE  Extracted[bytes] = ExtractFrom(Extracted, bytes)
    BY ExtractedSolves, Zenon
  <1>2. ASSUME NEW h \in Nat, NEW k \in Nat
        PROVE  LET b == Pieces3(3 * h, 3 * k + r)
               IN  /\ b \in Bytes /\ Len(b) = 3 * k + r
                   /\ Newlines(b) = {q \in 1 .. 3 * k + r : q % 3 = 0}
    <2> DEFINE b == Pieces3(3 * h, 3 * k + r)
    <2>1. 3 * h \in Nat /\ 3 * k + r \in Nat
      OBVIOUS
    <2>2. b \in Bytes /\ Len(b) = 3 * k + r
          /\ \A q \in 1 .. 3 * k + r : b[q] = Piece(3 * h + q)
      BY <2>1, PiecesParts DEF Bytes
    <2> HIDE DEF b
    <2>3. DOMAIN b = 1 .. 3 * k + r
      BY <2>2 DEF Bytes
    <2>4. ASSUME NEW q \in 1 .. 3 * k + r
          PROVE  b[q].part = "newline" <=> q % 3 = 0
      <3>1. 3 * h + q \in Nat /\ 3 * h + q > 0 /\ ((3 * h + q) % 3 = 0 <=> q % 3 = 0)
        OBVIOUS
      <3>2. Piece(3 * h + q).part = "newline" <=> (3 * h + q) % 3 = 0
        BY <3>1, PieceIs
      <3>3. QED
        BY <2>2, <3>1, <3>2
    <2>5. QED
      BY <2>2, <2>3, <2>4 DEF Newlines, b
  <1>3. 0 \in S
    <2> SUFFICES ASSUME NEW h \in Nat PROVE Is(h, 0)
      OBVIOUS
    <2> DEFINE b == Pieces3(3 * h, 3 * 0 + r)
    <2>1. b \in Bytes /\ Newlines(b) = {q \in 1 .. 3 * 0 + r : q % 3 = 0}
      BY <1>2
    <2>2. Newlines(b) = {}
      BY <2>1
    <2>3. Extracted[b] = [lines |-> <<>>, rest |-> b]
      <3> HIDE DEF b
      <3>1. QED
        BY <1>1, <2>1, <2>2, Zenon DEF ExtractFrom
    <2>4. b = Pieces3(3 * (h + 0), r)
      BY DEF b
    <2>5. [j \in 1 .. 0 |-> WholeLine(h + j)] = <<>>
      OBVIOUS
    <2> HIDE DEF b
    <2>6. QED
      BY <2>3, <2>4, <2>5, Zenon DEF b
  <1>4. ASSUME NEW k \in S
        PROVE  k + 1 \in S
    <2> SUFFICES ASSUME NEW h \in Nat PROVE Is(h, k + 1)
      OBVIOUS
    <2> DEFINE n == 3 * (k + 1) + r
               b == Pieces3(3 * h, n)
               c == Pieces3(3 * (h + 1), 3 * k + r)
    <2>1. k \in Nat /\ h + 1 \in Nat /\ k + 1 \in Nat /\ 3 * h \in Nat
          /\ n \in Nat /\ n >= 3
      OBVIOUS
    <2>2. b \in Bytes /\ Len(b) = n /\ Newlines(b) = {q \in 1 .. n : q % 3 = 0}
      BY <1>2, <2>1
    <2>3. First(Newlines(b)) = 3
      <3> DEFINE N == {q \in 1 .. n : q % 3 = 0}
      <3>1. 3 \in N /\ \A p \in N : 3 <= p
        BY <2>1
      <3>2. \A q \in N : 3 <= q /\ q \in Nat
        BY <3>1
      <3> HIDE DEF N
      <3>3. \A q \in N : (\A p \in N : q <= p) => q = 3
        <4> SUFFICES ASSUME NEW q \in N, \A p \in N : q <= p PROVE q = 3
          OBVIOUS
        <4>1. q <= 3 /\ 3 <= q /\ q \in Nat
          BY <3>1, <3>2
        <4>2. QED
          BY <4>1
      <3>4. First(N) = 3
        BY <3>1, <3>3 DEF First
      <3>5. QED
        BY <2>2, <3>4 DEF N
    <2>4. SubSeq(b, 1, 3 - 1) = WholeLine(h + 1)
      <3>1. SubSeq(b, 1, 2) = Pieces3(3 * h + 1 - 1, 2 - 1 + 1)
        <4>1. 1 \in 1 .. n + 1 /\ 2 \in 1 - 1 .. n
          BY <2>1
        <4>2. QED
          BY <2>1, <4>1, PiecesCut
      <3>2. 3 * h + 1 - 1 = 3 * (h + 1) - 3
        OBVIOUS
      <3> HIDE DEF b
      <3>3. QED
        BY <3>1, <3>2 DEF WholeLine
    <2>5. SubSeq(b, 3 + 1, Len(b)) = c
      <3>1. SubSeq(b, 4, n) = Pieces3(3 * h + 4 - 1, n - 4 + 1)
        <4>1. 4 \in 1 .. n + 1 /\ n \in 4 - 1 .. n
          BY <2>1
        <4>2. QED
          BY <2>1, <4>1, PiecesCut
      <3>2. 3 * h + 4 - 1 = 3 * (h + 1)
        OBVIOUS
      <3>3. n - 4 + 1 = 3 * k + r
        OBVIOUS
      <3> HIDE DEF b, n
      <3>4. QED
        BY <2>2, <3>1, <3>2, <3>3
    <2>6. Extracted[c] = [lines |-> [j \in 1 .. k |-> WholeLine(h + 1 + j)],
                          rest |-> Pieces3(3 * (h + 1 + k), r)]
      BY <2>1
    <2> DEFINE first == WholeLine(h + 1)
               later == [j \in 1 .. k |-> WholeLine(h + 1 + j)]
               all == [j \in 1 .. k + 1 |-> WholeLine(h + j)]
    <2>7. Newlines(b) # {}
      <3>1. 3 \in {q \in 1 .. n : q % 3 = 0}
        BY <2>1
      <3>2. QED
        BY <2>2, <3>1, Zenon
    <2>8. Extracted[b] = [lines |-> <<first>> \o later, rest |-> Pieces3(3 * (h + 1 + k), r)]
      <3> DEFINE lns == later
                 rst == Pieces3(3 * (h + 1 + k), r)
      <3>1. Extracted[c].lines = lns /\ Extracted[c].rest = rst
        BY <2>6
      <3> HIDE DEF b, c, lns, rst, later, first, n
      <3>2. Extracted[b] = ExtractFrom(Extracted, b)
        BY <1>1, <2>2
      <3>3. ExtractFrom(Extracted, b) =
              [lines |-> <<SubSeq(b, 1, 3 - 1)>> \o Extracted[SubSeq(b, 3 + 1, Len(b))].lines,
               rest |-> Extracted[SubSeq(b, 3 + 1, Len(b))].rest]
        BY <2>3, <2>7, Zenon DEF ExtractFrom
      <3>4. Extracted[b] = [lines |-> <<first>> \o lns, rest |-> rst]
        BY <2>4, <2>5, <3>1, <3>2, <3>3, Zenon DEF first
      <3>5. QED
        BY <3>4, Zenon DEF lns, rst
    <2>9. <<first>> \o later = all
      <3>1. \A j \in 1 .. k + 1 : WholeLine(h + j) \in Bytes
        <4> SUFFICES ASSUME NEW j \in 1 .. k + 1 PROVE WholeLine(h + j) \in Bytes
          OBVIOUS
        <4>1. 3 * (h + j) - 3 \in Nat
          BY <2>1
        <4>2. QED
          BY <4>1, PiecesParts DEF WholeLine, Bytes
      <3>2. all \in Seq(Bytes) /\ Len(all) = k + 1
            /\ \A j \in 1 .. k + 1 : all[j] = WholeLine(h + j)
        BY <2>1, <3>1
      <3>3. \A j \in 1 .. k : WholeLine(h + 1 + j) \in Bytes
        <4> SUFFICES ASSUME NEW j \in 1 .. k PROVE WholeLine(h + 1 + j) \in Bytes
          OBVIOUS
        <4>1. h + 1 + j = h + (j + 1) /\ j + 1 \in 1 .. k + 1
          BY <2>1
        <4>2. QED
          BY <3>1, <4>1
      <3>4. later \in Seq(Bytes) /\ Len(later) = k
            /\ \A j \in 1 .. k : later[j] = WholeLine(h + 1 + j)
        BY <2>1, <3>3
      <3>5. first \in Bytes
        BY <2>1, <3>1
      <3> HIDE DEF first, later, all
      <3>6. <<first>> \in Seq(Bytes) /\ Len(<<first>>) = 1 /\ <<first>>[1] = first
        BY <3>5, SingletonList
      <3> DEFINE u == <<first>>
      <3> HIDE DEF u
      <3>7. /\ u \o later \in Seq(Bytes) /\ Len(u \o later) = 1 + k
            /\ \A j \in 1 .. 1 + k : (u \o later)[j] = IF j <= 1 THEN u[j] ELSE later[j - 1]
        BY <3>4, <3>6, ConcatProperties DEF u
      <3>8. ASSUME NEW j \in 1 .. k + 1
            PROVE  (u \o later)[j] = all[j]
        <4>1. CASE j = 1
          BY <2>1, <3>2, <3>6, <3>7, <4>1 DEF first, u
        <4>2. CASE j # 1
          <5>1. j - 1 \in 1 .. k /\ h + 1 + (j - 1) = h + j /\ ~(j <= 1) /\ j \in 1 .. 1 + k
            BY <2>1, <4>2
          <5>2. QED
            BY <3>2, <3>4, <3>7, <5>1
        <4>3. QED
          BY <4>1, <4>2
      <3>9. 1 + k = k + 1
        BY <2>1
      <3>10. QED
        BY <3>2, <3>7, <3>8, <3>9, SeqEqual DEF u
    <2>10. h + 1 + k = h + (k + 1)
      BY <2>1
    <2> HIDE DEF first, later
    <2>11. QED
      BY <2>8, <2>9, <2>10, Zenon
  <1>5. S \in SUBSET Nat
    OBVIOUS
  <1> HIDE DEF S, Is
  <1>6. S = Nat
    BY <1>3, <1>4, <1>5, ClosedIsNat
  <1>7. Is(i, m)
    BY <1>6 DEF S
  <1>8. QED
    BY <1>7 DEF Is

\* The lines between the n-th and the m-th.
LinesFrom(n, k) == [j \in 1 .. k |-> WholeLine(n + j)]

LEMMA LinesParts ==
  ASSUME NEW n \in Nat, NEW k \in Nat
  PROVE  /\ LinesFrom(n, k) \in Seq(Bytes) /\ Len(LinesFrom(n, k)) = k
         /\ LinesFrom(n, k) = <<>> <=> k = 0
         /\ k > 0 => /\ Head(LinesFrom(n, k)) = WholeLine(n + 1)
                     /\ Tail(LinesFrom(n, k)) = LinesFrom(n + 1, k - 1)
  <1> DEFINE x == LinesFrom(n, k)
             y == LinesFrom(n + 1, k - 1)
  <1>1. ASSUME NEW h \in Nat, NEW l \in Nat
        PROVE  LinesFrom(h, l) \in Seq(Bytes) /\ Len(LinesFrom(h, l)) = l
               /\ \A j \in 1 .. l : LinesFrom(h, l)[j] = WholeLine(h + j)
    <2>1. \A j \in 1 .. l : WholeLine(h + j) \in Bytes
      <3> SUFFICES ASSUME NEW j \in 1 .. l PROVE WholeLine(h + j) \in Bytes
        OBVIOUS
      <3>1. 3 * (h + j) - 3 \in Nat
        OBVIOUS
      <3>2. QED
        BY <3>1, PiecesParts DEF WholeLine, Bytes
    <2>2. QED
      BY <2>1 DEF LinesFrom
  <1>2. x \in Seq(Bytes) /\ Len(x) = k /\ \A j \in 1 .. k : x[j] = WholeLine(n + j)
    BY <1>1
  <1> HIDE DEF x
  <1>3. x = <<>> <=> k = 0
    BY <1>2, EmptySeq
  <1>4. ASSUME k > 0
        PROVE  Head(x) = WholeLine(n + 1) /\ Tail(x) = y
    <2>1. k - 1 \in Nat /\ n + 1 \in Nat /\ 1 \in 1 .. k /\ x # <<>>
      BY <1>3, <1>4
    <2>2. y \in Seq(Bytes) /\ Len(y) = k - 1
          /\ \A j \in 1 .. k - 1 : y[j] = WholeLine(n + 1 + j)
      BY <1>1, <2>1
    <2> HIDE DEF y
    <2>3. /\ Tail(x) \in Seq(Bytes) /\ Len(Tail(x)) = k - 1
          /\ \A j \in 1 .. k - 1 : Tail(x)[j] = x[j + 1]
      BY <1>2, <2>1, HeadTailProperties
    <2>4. \A j \in 1 .. k - 1 : Tail(x)[j] = y[j]
      <3> SUFFICES ASSUME NEW j \in 1 .. k - 1 PROVE Tail(x)[j] = y[j]
        OBVIOUS
      <3>1. j + 1 \in 1 .. k /\ n + (j + 1) = n + 1 + j
        OBVIOUS
      <3>2. QED
        BY <1>2, <2>2, <2>3, <3>1
    <2>5. Tail(x) = y
      BY <2>2, <2>3, <2>4, SeqEqual
    <2>6. Head(x) = x[1]
      BY <1>2, <2>1
    <2>7. QED
      BY <1>2, <2>1, <2>5, <2>6 DEF y
  <1>5. QED
    BY <1>2, <1>3, <1>4 DEF x, y

LEMMA AlignedIs ==
  ASSUME NEW s, NEW n, NEW m, NEW r
  PROVE  Aligned(s, n, m, r) <=>
           /\ lines = LinesFrom(n, m - n)
           /\ buffer = Pieces3(3 * m, r)
           /\ wire = Pieces3(3 * m + r, 3 * Len(s.lines) - 3 * m - r)
  BY Zenon DEF Aligned, LinesFrom

\* A request that is accepted: nothing was read of its stream.
LEMMA ConnectFits ==
  ASSUME NEW s, Len(s.lines) \in Nat, lines' = <<>>, buffer' = <<>>,
         wire' = PiecesOf(Len(s.lines))
  PROVE  Fits(s, 0)'
  <1> DEFINE L == Len(s.lines)
  <1>1. LinesFrom(0, 0) = <<>> /\ Pieces3(0, 0) = <<>>
    BY DEF LinesFrom, Pieces3
  <1>2. PiecesOf(L) = Pieces3(0, 3 * L)
    <2>1. \A q \in 1 .. 3 * L : Piece(0 + q) = [line |-> (q + 2) \div 3,
                                                part |-> Parts[((q + 2) % 3) + 1]]
      <3> SUFFICES ASSUME NEW q \in 1 .. 3 * L
                   PROVE  Piece(0 + q) = [line |-> (q + 2) \div 3,
                                          part |-> Parts[((q + 2) % 3) + 1]]
        OBVIOUS
      <3>1. 0 + q = q
        OBVIOUS
      <3>2. QED
        BY <3>1, Zenon DEF Piece
    <2>2. QED
      BY <2>1, Zenon DEF PiecesOf, Pieces3
  <1>3. 0 - 0 = 0 /\ 3 * 0 = 0 /\ 3 * 0 + 0 = 0 /\ 3 * L - 3 * 0 - 0 = 3 * L
    OBVIOUS
  <1> HIDE DEF L
  <1>4. /\ lines' = LinesFrom(0, 0 - 0)
        /\ buffer' = Pieces3(3 * 0, 0)
        /\ wire' = Pieces3(3 * 0 + 0, 3 * L - 3 * 0 - 0)
    BY <1>1, <1>2, <1>3, Zenon DEF L
  <1>5. Aligned(s, 0, 0, 0)'
    BY <1>4, Zenon DEF Aligned, LinesFrom, L
  <1>6. 0 \in 0 .. L /\ 0 \in 0 .. 2
    BY DEF L
  <1>7. QED
    BY <1>5, <1>6, Zenon DEF Fits, L

\* The next chunk, wherever it ends, brings the next lines whole.
LEMMA ChunkFits ==
  ASSUME NEW s, Len(s.lines) \in Nat, NEW n \in 0 .. Len(s.lines), Fits(s, n),
         NEW c \in Pieces, Chunk(c)
  PROVE  Fits(s, n)'
  <1> DEFINE L == Len(s.lines)
  <1>1. lines = <<>> /\ finished = FALSE /\ c <= Len(wire) /\ c \in Nat
    <2>1. lines = <<>> /\ ~finished /\ c <= Len(wire)
      BY DEF Chunk
    <2>2. c \in Nat
      BY LlmAssumption
    <2>3. QED
      BY <2>1, <2>2 DEF Chunk
  <1>2. PICK m \in n .. L, r \in 0 .. 2 : (m = L => r = 0) /\ Aligned(s, n, m, r)
    BY <1>1 DEF Fits
  <1>3. n \in Nat /\ m \in Nat /\ L \in Nat /\ m - n \in Nat /\ 3 * m \in Nat /\ r \in Nat
    OBVIOUS
  <1> DEFINE rest == 3 * L - 3 * m - r
  <1>4. /\ lines = LinesFrom(n, m - n)
        /\ buffer = Pieces3(3 * m, r)
        /\ wire = Pieces3(3 * m + r, rest)
    BY <1>2, AlignedIs
  <1>5. m = n
    BY <1>1, <1>3, <1>4, LinesParts
  <1>6. rest \in Nat
    BY <1>2, <1>3
  <1>7. Len(wire) = rest
    <2>1. 3 * m + r \in Nat
      BY <1>3
    <2> HIDE DEF rest
    <2>2. QED
      BY <1>4, <1>6, <2>1, PiecesParts, Zenon
  <1>8. c <= rest
    BY <1>1, <1>7
  <1> DEFINE m2 == (r + c) \div 3
             r2 == (r + c) % 3
  <1>9. m2 \in Nat /\ r2 \in 0 .. 2 /\ r + c = 3 * m2 + r2
    BY <1>1, <1>3
  <1>10. SubSeq(wire, 1, c) = Pieces3(3 * m + r, c)
    <2> HIDE DEF rest
    <2>1. 1 \in 1 .. rest + 1 /\ c \in 1 - 1 .. rest /\ 3 * m + r \in Nat
      BY <1>1, <1>3, <1>6, <1>8
    <2>2. SubSeq(wire, 1, c) = Pieces3(3 * m + r + 1 - 1, c - 1 + 1)
      BY <1>4, <1>6, <2>1, PiecesCut
    <2>3. 3 * m + r + 1 - 1 = 3 * m + r /\ c - 1 + 1 = c
      BY <1>1, <2>1
    <2>4. QED
      BY <2>2, <2>3, Zenon
  <1>11. SubSeq(wire, c + 1, Len(wire)) = Pieces3(3 * m + r + c, rest - c)
    <2> HIDE DEF rest
    <2>1. c + 1 \in 1 .. rest + 1 /\ rest \in (c + 1) - 1 .. rest /\ 3 * m + r \in Nat
      BY <1>1, <1>3, <1>6, <1>8
    <2>2. SubSeq(wire, c + 1, rest) = Pieces3(3 * m + r + (c + 1) - 1, rest - (c + 1) + 1)
      BY <1>4, <1>6, <2>1, PiecesCut
    <2>3. 3 * m + r + (c + 1) - 1 = 3 * m + r + c /\ rest - (c + 1) + 1 = rest - c
      BY <1>1, <1>6, <2>1
    <2>4. QED
      BY <1>7, <2>2, <2>3, Zenon
  <1> DEFINE got == Extracted[buffer \o SubSeq(wire, 1, c)]
  <1>12. got = [lines |-> LinesFrom(m, m2), rest |-> Pieces3(3 * (m + m2), r2)]
    <2> HIDE DEF m2, r2, rest
    <2>1. Pieces3(3 * m, r) \o Pieces3(3 * m + r, c) = Pieces3(3 * m, r + c)
      <3>1. 3 * m \in Nat /\ r \in Nat /\ c \in Nat
        BY <1>1, <1>3
      <3>2. QED
        BY <3>1, PiecesJoin, Zenon
    <2>2. buffer \o SubSeq(wire, 1, c) = Pieces3(3 * m, 3 * m2 + r2)
      BY <1>4, <1>9, <1>10, <2>1, Zenon
    <2>3. Extracted[Pieces3(3 * m, 3 * m2 + r2)] =
            [lines |-> LinesFrom(m, m2), rest |-> Pieces3(3 * (m + m2), r2)]
      BY <1>3, <1>9, LinesExtracted DEF LinesFrom
    <2>4. QED
      BY <2>2, <2>3, Zenon
  <1>13. /\ lines' = got.lines /\ buffer' = got.rest
         /\ wire' = SubSeq(wire, c + 1, Len(wire))
    BY Zenon DEF Chunk
  <1> DEFINE k == m + m2
  <1>14. /\ k \in n .. L /\ (k = L => r2 = 0) /\ k - n = m2
         /\ 3 * m + r + c = 3 * k + r2 /\ rest - c = 3 * L - 3 * k - r2
    <2> HIDE DEF m2, r2
    <2>1. r2 \in Nat /\ r2 <= 2 /\ r2 >= 0 /\ c \in Int
      BY <1>1, <1>9
    <2>2. m \in Int /\ m2 \in Int /\ L \in Int /\ r \in Int /\ n \in Int /\ m2 >= 0
      BY <1>3, <1>9
    <2>3. r + c = 3 * m2 + r2 /\ c <= 3 * L - 3 * m - r /\ m = n
      BY <1>5, <1>8, <1>9
    <2> HIDE DEF L
    <2>4. n <= k /\ k <= L /\ k \in Int /\ (k = L => r2 = 0)
      BY <2>1, <2>2, <2>3
    <2>5. k - n = m2 /\ 3 * m + r + c = 3 * k + r2 /\ rest - c = 3 * L - 3 * k - r2
      BY <2>1, <2>2, <2>3
    <2>6. QED
      BY <2>2, <2>4, <2>5
  <1>15. /\ lines' = LinesFrom(n, k - n)
         /\ buffer' = Pieces3(3 * k, r2)
         /\ wire' = Pieces3(3 * k + r2, 3 * L - 3 * k - r2)
    <2> HIDE DEF m2, r2, got, rest, L
    <2>1. got.lines = LinesFrom(m, m2) /\ got.rest = Pieces3(3 * (m + m2), r2)
      BY <1>12
    <2>2. QED
      BY <1>5, <1>11, <1>13, <1>14, <2>1, Zenon DEF L
  <1> HIDE DEF k, r2, m2
  <1>16. Aligned(s, n, k, r2)'
    BY <1>15, Zenon DEF Aligned, LinesFrom
  <1>17. QED
    BY <1>9, <1>14, <1>16, Zenon DEF Fits

\* The text of a whole line is the line's, and a head alone is none.
LEMMA TextIs ==
  ASSUME NEW n \in Nat
  PROVE  /\ Text(WholeLine(n + 1)) = script.lines[n + 1]
         /\ Text(Pieces3(3 * n, 2)) = script.lines[n + 1]
         /\ Text(Pieces3(3 * n, 1)) = Malformed
  <1> DEFINE x == Pieces3(3 * n, 2)
             y == Pieces3(3 * n, 1)
  <1>1. 3 * (n + 1) - 3 = 3 * n /\ 3 * n \in Nat
    OBVIOUS
  <1>2. WholeLine(n + 1) = x
    BY <1>1, Zenon DEF WholeLine
  <1>3. Len(x) = 2 /\ x[1] = Piece(3 * n + 1) /\ x[2] = Piece(3 * n + 2)
    <2>1. 2 \in Nat /\ 1 \in 1 .. 2 /\ 2 \in 1 .. 2
      OBVIOUS
    <2>2. Len(x) = 2 /\ \A i \in 1 .. 2 : x[i] = Piece(3 * n + i)
      BY <1>1, <2>1, PiecesParts, Zenon
    <2>3. QED
      BY <2>1, <2>2, Zenon
  <1>4. Len(y) = 1
    <2>1. 1 \in Nat
      OBVIOUS
    <2>2. QED
      BY <1>1, <2>1, PiecesParts, Zenon
  <1>5. /\ (3 * n + 1 + 2) \div 3 = n + 1 /\ (3 * n + 2 + 2) \div 3 = n + 1
        /\ (3 * n + 1) % 3 = 1 /\ 3 * n + 1 \in Nat /\ 3 * n + 2 \in Nat
        /\ 3 * n + 1 > 0 /\ 3 * n + 2 > 0
    OBVIOUS
  <1>6. /\ Piece(3 * n + 1).line = n + 1 /\ Piece(3 * n + 2).line = n + 1
        /\ Piece(3 * n + 1).part = "head"
    BY <1>5, PieceIs
  <1> HIDE DEF x, y
  <1>7. Text(x) = script.lines[n + 1]
    BY <1>3, <1>6 DEF Text
  <1>8. Text(y) = Malformed
    BY <1>4 DEF Text
  <1>9. QED
    BY <1>2, <1>7, <1>8 DEF x, y

\* A line at hand is the next one of the script.
LEMMA LineFits ==
  ASSUME NEW s, Len(s.lines) \in Nat, NEW n \in 0 .. Len(s.lines), Fits(s, n),
         lines # <<>>
  PROVE  /\ n + 1 \in 1 .. Len(s.lines)
         /\ Head(lines) = WholeLine(n + 1)
         /\ lines' = Tail(lines) /\ buffer' = buffer /\ wire' = wire
              => Fits(s, n + 1)'
  <1> DEFINE L == Len(s.lines)
  <1>1. PICK m \in n .. L, r \in 0 .. 2 : (m = L => r = 0) /\ Aligned(s, n, m, r)
    BY DEF Fits
  <1>2. n \in Nat /\ m \in Nat /\ L \in Nat /\ m - n \in Nat /\ m <= L
    OBVIOUS
  <1>3. /\ lines = LinesFrom(n, m - n)
        /\ buffer = Pieces3(3 * m, r)
        /\ wire = Pieces3(3 * m + r, 3 * L - 3 * m - r)
    BY <1>1, AlignedIs
  <1>4. m - n > 0
    BY <1>2, <1>3, LinesParts
  <1>5. Head(lines) = WholeLine(n + 1) /\ Tail(lines) = LinesFrom(n + 1, m - n - 1)
    BY <1>2, <1>3, <1>4, LinesParts
  <1>6. n + 1 \in 1 .. L /\ m \in n + 1 .. L /\ m - n - 1 = m - (n + 1)
    BY <1>2, <1>4
  <1>7. ASSUME lines' = Tail(lines), buffer' = buffer, wire' = wire
        PROVE  Fits(s, n + 1)'
    <2>1. /\ lines' = LinesFrom(n + 1, m - (n + 1))
          /\ buffer' = Pieces3(3 * m, r)
          /\ wire' = Pieces3(3 * m + r, 3 * L - 3 * m - r)
      BY <1>3, <1>5, <1>6, <1>7
    <2>2. Aligned(s, n + 1, m, r)'
      BY <2>1, Zenon DEF Aligned, LinesFrom
    <2>3. QED
      BY <1>1, <1>6, <2>2, Zenon DEF Fits
  <1>8. QED
    BY <1>5, <1>6, <1>7

\* What is left when the stream has ended is nothing, the head of a line, or
\* all of the next line.
LEMMA RestFits ==
  ASSUME NEW s, Len(s.lines) \in Nat, NEW n \in 0 .. Len(s.lines), Fits(s, n),
         lines = <<>>, buffer # <<>>
  PROVE  \/ buffer = Pieces3(3 * n, 1)
         \/ n + 1 \in 1 .. Len(s.lines) /\ buffer = Pieces3(3 * n, 2)
  <1> DEFINE L == Len(s.lines)
  <1>1. PICK m \in n .. L, r \in 0 .. 2 : (m = L => r = 0) /\ Aligned(s, n, m, r)
    BY DEF Fits
  <1>2. n \in Nat /\ m \in Nat /\ L \in Nat /\ m - n \in Nat /\ m <= L
    OBVIOUS
  <1>3. lines = LinesFrom(n, m - n) /\ buffer = Pieces3(3 * m, r)
    BY <1>1, AlignedIs
  <1>4. m = n
    BY <1>2, <1>3, LinesParts
  <1>5. r # 0
    <2>1. Pieces3(3 * m, 0) = <<>>
      BY DEF Pieces3
    <2>2. QED
      BY <1>3, <2>1
  <1>6. r = 1 \/ (r = 2 /\ m # L)
    BY <1>1, <1>5
  <1>7. QED
    BY <1>2, <1>3, <1>4, <1>6

-----------------------------------------------------------------------------
(* The parsers: what all three have in common *)

LEMMA ScriptParts ==
  ASSUME NEW s \in Scripts
  PROVE  /\ IsScript(s) /\ s # NoScript
         /\ Len(s.lines) \in Nat /\ DOMAIN s.lines = 1 .. Len(s.lines)
         /\ Len(s.texts) \in Nat /\ s.texts \in Seq(Range(s.texts))
         /\ Len(s.calls) \in Nat /\ DOMAIN s.calls = 1 .. Len(s.calls)
         /\ s.calls \in Seq(Range(s.calls))
  <1>1. IsScript(s)
    BY LlmAssumption
  <1>2. IsList(s.lines) /\ IsList(s.texts) /\ IsList(s.calls) /\ s.name \in Protocols
    BY <1>1 DEF IsScript
  <1>3. s # NoScript
    BY <1>2 DEF NoScript, Protocols
  <1>4. s.texts \in Seq(Range(s.texts)) /\ s.calls \in Seq(Range(s.calls))
    BY <1>2 DEF IsList
  <1>5. QED
    BY <1>1, <1>2, <1>3, <1>4, ListParts

\* The texts heard and the next line's are the next texts.
LEMMA TextsHeard ==
  ASSUME NEW s \in Scripts, NEW n \in Nat, n + 1 \in 1 .. Len(s.lines)
  PROVE  LET k == Told(s, {"text"}, n)
             next == IF s.lines[n + 1].type = "text" THEN <<s.lines[n + 1].text>> ELSE <<>>
         IN  /\ k \in 0 .. Len(s.texts)
             /\ Taken(s.texts, k) \o next = Taken(s.texts, Told(s, {"text"}, n + 1))
  <1> DEFINE L == Len(s.lines)
             S == Range(s.texts)
             x == s.texts
             k == Told(s, {"text"}, n)
             line == s.lines[n + 1]
  <1>1. L \in Nat /\ x \in Seq(S) /\ Len(x) \in Nat /\ n \in 0 .. L /\ n + 1 \in 0 .. L
    BY ScriptParts
  <1>2. CarriesTexts(s)
    BY ScriptParts DEF IsScript
  <1>3. Len(x) = Told(s, {"text"}, L)
        /\ \A i \in LinesOf(s, {"text"}, L) : s.lines[i].text = x[Told(s, {"text"}, i)]
    BY <1>2 DEF CarriesTexts
  <1>4. /\ k \in Nat /\ k <= Len(x)
        /\ line.type = "text" => Told(s, {"text"}, n + 1) = k + 1
        /\ line.type # "text" => Told(s, {"text"}, n + 1) = k
        /\ Told(s, {"text"}, n + 1) <= Len(x)
    <2>1. /\ k \in Nat
          /\ line.type = "text" => Told(s, {"text"}, n + 1) = k + 1
          /\ line.type # "text" => Told(s, {"text"}, n + 1) = k
      <3>1. k \in Nat
        BY ToldIsNat, Zenon
      <3>2. /\ s.lines[n + 1].type = "text" =>
                  Told(s, {"text"}, n + 1) = Told(s, {"text"}, n) + 1
            /\ s.lines[n + 1].type # "text" =>
                  Told(s, {"text"}, n + 1) = Told(s, {"text"}, n)
        BY ToldOf, Zenon
      <3>3. QED
        BY <3>1, <3>2, Zenon
    <2>2. \A i \in 0 .. L : Told(s, {"text"}, i) <= Told(s, {"text"}, L)
      BY <1>1, ToldRises, Zenon
    <2>3. k <= Len(x) /\ Told(s, {"text"}, n + 1) <= Len(x)
      BY <1>1, <1>3, <2>2, Zenon
    <2>4. QED
      BY <2>1, <2>3
  <1>5. CASE line.type = "text"
    <2>1. n + 1 \in LinesOf(s, {"text"}, L)
      BY <1>1, <1>5 DEF LinesOf
    <2>2. Told(s, {"text"}, n + 1) = k + 1
      BY <1>4, <1>5
    <2>3. line.text = x[k + 1] /\ k + 1 <= Len(x)
      BY <1>3, <1>4, <2>1, <2>2
    <2> HIDE DEF k, x, S
    <2>4. x[k + 1] \in S
      BY <1>1, <1>4, <2>3
    <2> DEFINE e == x[k + 1]
               y == <<e>>
    <2> HIDE DEF e
    <2>5. y \in Seq(S) /\ Len(y) = 1 /\ y[1] = e
      BY <2>4, SingletonList DEF e
    <2> HIDE DEF y
    <2>6. k + Len(y) <= Len(x) /\ \A i \in 1 .. Len(y) : y[i] = x[k + i]
      BY <2>3, <2>5 DEF e
    <2>7. Taken(x, k) \o y = Taken(x, k + Len(y))
      BY <1>1, <1>4, <2>5, <2>6, TakenGrows
    <2>8. Taken(x, k) \o <<line.text>> = Taken(x, Told(s, {"text"}, n + 1))
      BY <2>2, <2>3, <2>5, <2>7, Zenon DEF y, e
    <2>9. k \in 0 .. Len(x)
      BY <1>1, <1>4
    <2>10. QED
      BY <1>5, <2>8, <2>9, Zenon DEF k, x
  <1>6. CASE line.type # "text"
    <2>1. Told(s, {"text"}, n + 1) = k
      BY <1>4, <1>6
    <2> HIDE DEF k, x, S
    <2>2. k \in 0 .. Len(x)
      BY <1>1, <1>4
    <2>3. Taken(x, k) \in Seq(S)
      BY <1>1, <2>2, TakenParts
    <2>4. Taken(x, k) \o <<>> = Taken(x, k)
      BY <2>3, ConcatEmptySeq
    <2>5. QED
      BY <1>6, <2>1, <2>2, <2>4, Zenon DEF k, x
  <1>7. k \in 0 .. Len(x)
    BY <1>1, <1>4
  <1>8. QED
    BY <1>5, <1>6, <1>7

LEMMA UsageNext ==
  ASSUME NEW s, NEW n \in Nat
  PROVE  /\ s.lines[n + 1].type = "usage" =>
              LinesOf(s, {"usage"}, n + 1) = LinesOf(s, {"usage"}, n) \cup {n + 1}
         /\ s.lines[n + 1].type # "usage" =>
              LinesOf(s, {"usage"}, n + 1) = LinesOf(s, {"usage"}, n)
  <1> DEFINE type == "usage"
  <1> HIDE DEF type
  <1>1. /\ s.lines[n + 1].type = type =>
             LinesOf(s, {type}, n + 1) = LinesOf(s, {type}, n) \cup {n + 1}
        /\ s.lines[n + 1].type # type =>
             LinesOf(s, {type}, n + 1) = LinesOf(s, {type}, n)
    BY LinesNext
  <1>2. QED
    BY <1>1 DEF type

LEMMA UsageHeard ==
  ASSUME NEW s, NEW n \in Nat, NEW p, HeardUsage(s, n, p), NEW q,
         q.tokens = IF s.lines[n + 1].type = "usage" THEN s.lines[n + 1].tokens
                    ELSE p.tokens
  PROVE  HeardUsage(s, n + 1, q)
  <1> DEFINE T == LinesOf(s, {"usage"}, n)
             U == LinesOf(s, {"usage"}, n + 1)
  <1>1. /\ T \subseteq 1 .. n
        /\ s.lines[n + 1].type = "usage" => U = T \cup {n + 1}
        /\ s.lines[n + 1].type # "usage" => U = T
    <2>1. T \subseteq 1 .. n
      BY DEF LinesOf
    <2>2. QED
      BY <2>1, UsageNext
  <1>2. /\ T = {} => p.tokens = 0
        /\ \A i \in T : (\A j \in T : j <= i) => p.tokens = s.lines[i].tokens
    BY DEF HeardUsage
  <1> HIDE DEF T, U
  <1>3. /\ U = {} => q.tokens = 0
        /\ \A i \in U : (\A j \in U : j <= i) => q.tokens = s.lines[i].tokens
    <2>1. CASE s.lines[n + 1].type = "usage"
      <3>1. U = T \cup {n + 1} /\ q.tokens = s.lines[n + 1].tokens
        BY <1>1, <2>1
      <3>2. \A i \in U : (\A j \in U : j <= i) => i = n + 1
        <4> SUFFICES ASSUME NEW i \in U, \A j \in U : j <= i PROVE i = n + 1
          OBVIOUS
        <4>1. n + 1 <= i /\ i \in 1 .. n + 1
          BY <1>1, <3>1
        <4>2. QED
          BY <4>1
      <3>3. QED
        BY <3>1, <3>2
    <2>2. CASE s.lines[n + 1].type # "usage"
      <3>1. U = T /\ q.tokens = p.tokens
        BY <1>1, <2>2
      <3>2. QED
        BY <1>2, <3>1
    <2>3. QED
      BY <2>1, <2>2
  <1>4. QED
    BY <1>3 DEF HeardUsage, U

\* At the end marker the usage heard is the usage.
LEMMA UsageWhole ==
  ASSUME NEW s, NEW n \in Nat, NEW p, HeardUsage(s, n, p), CarriesUsage(s),
         n + 1 = Len(s.lines), s.lines[n + 1].type = "done"
  PROVE  p.tokens = s.tokens
  <1> DEFINE T == LinesOf(s, {"usage"}, n)
  <1>1. LinesOf(s, {"usage"}, Len(s.lines)) = T
    <2>1. s.lines[n + 1].type # "usage" => LinesOf(s, {"usage"}, n + 1) = T
      BY UsageNext
    <2>2. QED
      BY <2>1
  <1>2. T \in SUBSET (0 .. n)
    BY DEF LinesOf
  <1>3. /\ T = {} => s.tokens = 0
        /\ \A i \in T : (\A j \in T : j <= i) => s.lines[i].tokens = s.tokens
    BY <1>1 DEF CarriesUsage
  <1>4. /\ T = {} => p.tokens = 0
        /\ \A i \in T : (\A j \in T : j <= i) => p.tokens = s.lines[i].tokens
    BY DEF HeardUsage
  <1> HIDE DEF T
  <1>5. T # {} => \E i \in T : \A j \in T : j <= i
    BY <1>2, GreatestNatural
  <1>6. QED
    BY <1>3, <1>4, <1>5

\* Without a fragment in it, a line changes no call.
LEMMA GotSame ==
  ASSUME NEW s, NEW n \in Nat, s.lines[n + 1].type \notin Carriers
  PROVE  \A k : /\ Got(s, k, n + 1) = Got(s, k, n)
                /\ PartOf(s, k, n + 1) = PartOf(s, k, n)
                /\ Complete(s, k, n + 1) <=> Complete(s, k, n)
  <1> SUFFICES ASSUME NEW k
               PROVE  /\ Got(s, k, n + 1) = Got(s, k, n)
                      /\ PartOf(s, k, n + 1) = PartOf(s, k, n)
                      /\ Complete(s, k, n + 1) <=> Complete(s, k, n)
    OBVIOUS
  <1>1. Got(s, k, n) \in Nat
        /\ Got(s, k, n + 1) = Got(s, k, n) + (IF Carries(s, k, n + 1) THEN 1 ELSE 0)
    BY GotNext
  <1>2. ~Carries(s, k, n + 1)
    BY DEF Carries
  <1>3. Got(s, k, n + 1) = Got(s, k, n)
    BY <1>1, <1>2
  <1>4. QED
    BY <1>3, Zenon DEF PartOf, Received, Complete

LEMMA CallIs ==
  ASSUME NEW s \in Scripts, NEW k \in 1 .. Len(s.calls)
  PROVE  LET c == s.calls[k]
         IN  /\ Len(c.args) \in Nat
             /\ c = [id |-> c.id, name |-> c.name,
                     args |-> [m \in 1 .. Len(c.args) |-> Fragment(k, m, Len(c.args))]]
  <1>1. CarriesCalls(s) /\ DOMAIN s.calls = 1 .. Len(s.calls)
    BY ScriptParts DEF IsScript
  <1>2. QED
    BY <1>1, Zenon DEF CarriesCalls

\* Arguments that are complete and in order parse.
LEMMA ParsedIs ==
  ASSUME NEW k, NEW N \in Nat
  PROVE  LET args == [m \in 1 .. N |-> Fragment(k, m, N)]
         IN  Parsed(args) = args
  <1> DEFINE args == [m \in 1 .. N |-> Fragment(k, m, N)]
             A == {Fragment(k, m, N) : m \in 1 .. N}
  <1>1. \A m \in 1 .. N : Fragment(k, m, N) \in A
    OBVIOUS
  <1> HIDE DEF A
  <1>2. args \in Seq(A) /\ Len(args) = N /\ DOMAIN args = 1 .. N
        /\ \A m \in 1 .. N : args[m] = Fragment(k, m, N)
    BY <1>1
  <1> HIDE DEF args
  <1>3. CASE N = 0
    <2>1. args = <<>>
      BY <1>2, <1>3, EmptySeq
    <2>2. QED
      BY <2>1 DEF Parsed, args
  <1>4. CASE N # 0
    <2>1. 1 \in 1 .. N /\ args # <<>>
      BY <1>2, <1>4, EmptySeq
    <2>2. args[1].call = k
      BY <1>2, <2>1 DEF Fragment
    <2>3. \A i \in DOMAIN args : args[i] = [call |-> args[1].call, part |-> i, of |-> Len(args)]
      BY <1>2, <2>2 DEF Fragment
    <2>4. Parsed(args) = args
      BY <2>1, <2>3, Zenon DEF Parsed
    <2>5. QED
      BY <2>4 DEF args
  <1>5. QED
    BY <1>3, <1>4

\* Once all of a call's fragments came, what is emitted is the call.
LEMMA CallWhole ==
  ASSUME NEW s \in Scripts, NEW k \in 1 .. Len(s.calls), NEW n, Complete(s, k, n)
  PROVE  Call(PartOf(s, k, n).id, PartOf(s, k, n).name, PartOf(s, k, n).args) = s.calls[k]
  <1> DEFINE c == s.calls[k]
             args == [m \in 1 .. Len(c.args) |-> Fragment(k, m, Len(c.args))]
  <1>1. Len(c.args) \in Nat /\ c = [id |-> c.id, name |-> c.name, args |-> args]
    BY CallIs
  <1>2. PartOf(s, k, n) = [id |-> c.id, name |-> c.name, args |-> args]
    BY Zenon DEF PartOf, Received, Complete
  <1>3. Parsed(args) = args
    BY <1>1, ParsedIs
  <1> HIDE DEF c, args
  <1>4. /\ PartOf(s, k, n).id = c.id /\ PartOf(s, k, n).name = c.name
        /\ PartOf(s, k, n).args = args
    BY <1>2
  <1>5. QED
    BY <1>1, <1>3, <1>4, Zenon DEF Call, c

\* A line with a fragment of a call brings the next one of that call.
LEMMA FragmentComes ==
  ASSUME NEW s \in Scripts, NEW n \in Nat, n + 1 \in 1 .. Len(s.lines),
         s.lines[n + 1].type \in Carriers
  PROVE  LET line == s.lines[n + 1]
             k == line.args[1].call
         IN  /\ k \in 1 .. Len(s.calls)
             /\ line.args = <<Fragment(k, Got(s, k, n) + 1, Len(s.calls[k].args))>>
             /\ Got(s, k, n) \in Nat /\ Got(s, k, n + 1) = Got(s, k, n) + 1
             /\ Got(s, k, n) + 1 <= Len(s.calls[k].args)
             /\ Received(s, k, n) \o line.args = Received(s, k, n + 1)
             /\ \A h : h # k => /\ Got(s, h, n + 1) = Got(s, h, n)
                                /\ PartOf(s, h, n + 1) = PartOf(s, h, n)
  <1> DEFINE line == s.lines[n + 1]
             k == line.args[1].call
             N == Len(s.calls[k].args)
             m == Got(s, k, n)
  <1>1. CarriesCalls(s) /\ DOMAIN s.calls = 1 .. Len(s.calls) /\ Len(s.lines) \in Nat
    BY ScriptParts DEF IsScript
  <1>2. n + 1 \in LinesOf(s, Carriers, Len(s.lines))
    BY <1>1 DEF LinesOf
  <1>3. PICK c \in DOMAIN s.calls :
          /\ Got(s, c, n + 1) <= Len(s.calls[c].args)
          /\ line.args = <<Fragment(c, Got(s, c, n + 1), Len(s.calls[c].args))>>
    BY <1>1, <1>2, Zenon DEF CarriesCalls
  <1>4. k = c
    BY <1>3 DEF Fragment
  <1>5. \A h : Carries(s, h, n + 1) <=> h = k
    BY DEF Carries
  <1>6. \A h : Got(s, h, n) \in Nat
               /\ Got(s, h, n + 1) = Got(s, h, n) + (IF Carries(s, h, n + 1) THEN 1 ELSE 0)
    BY GotNext
  <1>7. m \in Nat /\ Got(s, k, n + 1) = m + 1
    BY <1>5, <1>6
  <1>8. ASSUME NEW h, h # k
        PROVE  Got(s, h, n + 1) = Got(s, h, n) /\ PartOf(s, h, n + 1) = PartOf(s, h, n)
    <2>1. Got(s, h, n + 1) = Got(s, h, n)
      BY <1>5, <1>6, <1>8
    <2>2. QED
      BY <2>1, Zenon DEF PartOf, Received
  <1>9. line.args = <<Fragment(k, m + 1, N)>> /\ m + 1 <= N /\ k \in 1 .. Len(s.calls)
    BY <1>1, <1>3, <1>4, <1>7
  <1> DEFINE A == {Fragment(k, i, N) : i \in 1 .. m + 1}
             x == [i \in 1 .. m + 1 |-> Fragment(k, i, N)]
             y == <<Fragment(k, m + 1, N)>>
  <1> HIDE DEF k, line, m, N
  <1>10. Received(s, k, n) \o line.args = Received(s, k, n + 1)
    <2>1. \A i \in 1 .. m + 1 : Fragment(k, i, N) \in A
      OBVIOUS
    <2>2. m + 1 \in 1 .. m + 1
      BY <1>7
    <2>3. Fragment(k, m + 1, N) \in A
      BY <2>1, <2>2
    <2> HIDE DEF A
    <2>4. x \in Seq(A) /\ Len(x) = m + 1 /\ \A i \in 1 .. m + 1 : x[i] = Fragment(k, i, N)
      BY <1>7, <2>1
    <2>5. y \in Seq(A) /\ Len(y) = 1 /\ y[1] = Fragment(k, m + 1, N)
      BY <2>3, SingletonList
    <2> HIDE DEF x, y
    <2>6. m + Len(y) = m + 1 /\ m + 1 <= Len(x) /\ \A i \in 1 .. Len(y) : y[i] = x[m + i]
      BY <1>7, <2>2, <2>4, <2>5
    <2>7. Taken(x, m) \o y = Taken(x, m + 1)
      <3>1. m + Len(y) <= Len(x)
        BY <2>6
      <3>2. Taken(x, m) \o y = Taken(x, m + Len(y))
        BY <1>7, <2>4, <2>5, <2>6, <3>1, TakenGrows
      <3>3. QED
        BY <2>6, <3>2, Zenon
    <2>8. Taken(x, m) = Received(s, k, n) /\ Taken(x, m + 1) = Received(s, k, n + 1)
      <3>1. \A i \in 1 .. m : i \in 1 .. m + 1
        BY <1>7
      <3>2. Taken(x, m) = [i \in 1 .. m |-> Fragment(k, i, N)]
        BY <2>4, <3>1, Zenon DEF Taken
      <3>3. Taken(x, m + 1) = [i \in 1 .. m + 1 |-> Fragment(k, i, N)]
        BY <2>4, Zenon DEF Taken
      <3>4. Received(s, k, n) = [i \in 1 .. m |-> Fragment(k, i, N)]
        BY Zenon DEF Received, m, N
      <3>5. Received(s, k, n + 1) = [i \in 1 .. m + 1 |-> Fragment(k, i, N)]
        BY <1>7, Zenon DEF Received, N
      <3>6. QED
        BY <3>2, <3>3, <3>4, <3>5
    <2>9. QED
      BY <1>9, <2>7, <2>8, Zenon DEF y
  <1>11. QED
    BY <1>7, <1>8, <1>9, <1>10, Zenon DEF k, line, m, N

\* What the caller gathers from the events of a line.
LEMMA GatheredIs ==
  ASSUME NEW acc, NEW calls, NEW text, NEW tokens
  PROVE  /\ Gathered(acc, Nothing) =
              [content |-> acc.content \o <<>>, tool_calls |-> acc.tool_calls \o <<>>,
               tokens |-> acc.tokens, done |-> FALSE]
         /\ Gathered(acc, Token(text)) =
              [content |-> acc.content \o <<text>>,
               tool_calls |-> acc.tool_calls \o <<>>,
               tokens |-> acc.tokens, done |-> FALSE]
         /\ Gathered(acc, Calls(calls)) =
              [content |-> acc.content \o <<>>, tool_calls |-> acc.tool_calls \o calls,
               tokens |-> acc.tokens, done |-> FALSE]
         /\ Gathered(acc, Done(calls, tokens)) =
              [content |-> acc.content \o <<>>, tool_calls |-> acc.tool_calls \o calls,
               tokens |-> tokens, done |-> TRUE]
         /\ ~Nothing.error /\ ~Token(text).error /\ ~Calls(calls).error
         /\ ~Done(calls, tokens).error /\ Error.error
  <1>1. \A x, y : /\ Events(x, y).texts = x /\ Events(x, y).calls = y
                  /\ Events(x, y).done = FALSE /\ Events(x, y).error = FALSE
    BY DEF Events
  <1>2. /\ Done(calls, tokens).texts = <<>> /\ Done(calls, tokens).calls = calls
        /\ Done(calls, tokens).done = TRUE /\ Done(calls, tokens).error = FALSE
        /\ Done(calls, tokens).tokens = tokens
    BY DEF Done
  <1>3. Error.error
    BY DEF Error
  <1>4. ASSUME NEW x, NEW y
        PROVE  Gathered(acc, Events(x, y)) =
                 [content |-> acc.content \o x, tool_calls |-> acc.tool_calls \o y,
                  tokens |-> acc.tokens, done |-> FALSE]
    BY <1>1, Zenon DEF Gathered
  <1>5. Gathered(acc, Done(calls, tokens)) =
          [content |-> acc.content \o <<>>, tool_calls |-> acc.tool_calls \o calls,
           tokens |-> tokens, done |-> TRUE]
    BY <1>2, Zenon DEF Gathered
  <1>6. /\ Gathered(acc, Nothing) =
             [content |-> acc.content \o <<>>, tool_calls |-> acc.tool_calls \o <<>>,
              tokens |-> acc.tokens, done |-> FALSE]
        /\ ~Nothing.error
    BY <1>1, <1>4, Zenon DEF Nothing
  <1>7. /\ Gathered(acc, Token(text)) =
             [content |-> acc.content \o <<text>>,
              tool_calls |-> acc.tool_calls \o <<>>,
              tokens |-> acc.tokens, done |-> FALSE]
        /\ ~Token(text).error
    BY <1>1, <1>4, Zenon DEF Token
  <1>8. /\ Gathered(acc, Calls(calls)) =
             [content |-> acc.content \o <<>>, tool_calls |-> acc.tool_calls \o calls,
              tokens |-> acc.tokens, done |-> FALSE]
        /\ ~Calls(calls).error
    BY <1>1, <1>4, Zenon DEF Calls
  <1>9. ~Done(calls, tokens).error
    BY <1>2
  <1>10. QED
    BY <1>3, <1>5, <1>6, <1>7, <1>8, <1>9, Zenon

\* What the caller holds is so far a list of texts and a list of calls.
LEMMA HeardParts ==
  ASSUME NEW s \in Scripts, NEW n \in 0 .. Len(s.lines), NEW p, NEW acc, Heard(s, n, p, acc)
  PROVE  /\ \E k \in 0 .. Len(s.texts) : acc.content = Taken(s.texts, k)
         /\ \E k \in 0 .. Len(s.calls) : acc.tool_calls = Taken(s.calls, k)
         /\ acc.content \o <<>> = acc.content
         /\ acc.tool_calls \o <<>> = acc.tool_calls
  <1> DEFINE S == Range(s.texts)
             C == Range(s.calls)
  <1>1. /\ s.texts \in Seq(S) /\ Len(s.texts) \in Nat
        /\ s.calls \in Seq(C) /\ Len(s.calls) \in Nat /\ Len(s.lines) \in Nat
        /\ IsScript(s)
    BY ScriptParts
  <1> HIDE DEF S, C
  <1>2. \E k \in 0 .. Len(s.texts) : acc.content = Taken(s.texts, k)
    <2> DEFINE k == Told(s, {"text"}, n)
    <2>1. n \in Nat /\ n \in 0 .. Len(s.lines)
      BY <1>1
    <2>2. k \in Nat
      BY <2>1, ToldIsNat
    <2>3. k <= Told(s, {"text"}, Len(s.lines))
      BY <1>1, <2>1, ToldRises
    <2>4. Told(s, {"text"}, Len(s.lines)) = Len(s.texts)
      BY <1>1 DEF IsScript, CarriesTexts
    <2>5. acc.content = Taken(s.texts, k)
      BY DEF Heard
    <2> HIDE DEF k
    <2>6. k \in 0 .. Len(s.texts)
      BY <1>1, <2>2, <2>3, <2>4
    <2>7. QED
      BY <2>5, <2>6
  <1>3. \E k \in 0 .. Len(s.calls) : acc.tool_calls = Taken(s.calls, k)
    <2>1. CASE s.name = "openai"
      <3>1. acc.tool_calls = <<>>
        BY <2>1 DEF Heard, HeardOpenAI
      <3>2. Taken(s.calls, 0) = <<>>
        BY <1>1, TakenAll
      <3>3. QED
        BY <1>1, <3>1, <3>2
    <2>2. CASE s.name = "anthropic"
      <3> DEFINE b == Told(s, {"block_start"}, n)
      <3>1. /\ b <= Len(s.calls)
            /\ \/ acc.tool_calls = Taken(s.calls, b)
               \/ b > 0 /\ acc.tool_calls = Taken(s.calls, b - 1)
        BY <2>2, Zenon DEF Heard, HeardAnthropic
      <3>2. n \in Nat
        BY <1>1
      <3>3. b \in Nat
        BY <3>2, ToldIsNat
      <3> HIDE DEF b
      <3>4. b \in 0 .. Len(s.calls) /\ (b > 0 => b - 1 \in 0 .. Len(s.calls))
        BY <1>1, <3>1, <3>3
      <3>5. QED
        BY <3>1, <3>4
    <2>3. CASE s.name = "ollama"
      <3>1. PICK sent \in [0 .. Len(s.lines) -> 0 .. Len(s.calls)] :
              acc.tool_calls = Taken(s.calls, sent[n])
        BY <2>3 DEF Heard, HeardOllama
      <3>2. sent[n] \in 0 .. Len(s.calls)
        BY <3>1
      <3>3. QED
        BY <3>1, <3>2
    <2>4. QED
      BY <1>1, <2>1, <2>2, <2>3 DEF IsScript, Protocols
  <1>4. acc.content \o <<>> = acc.content
    <2>1. PICK k \in 0 .. Len(s.texts) : acc.content = Taken(s.texts, k)
      BY <1>2
    <2>2. Taken(s.texts, k) \in Seq(S)
      BY <1>1, TakenParts
    <2>3. QED
      BY <2>1, <2>2, ConcatEmptySeq
  <1>5. acc.tool_calls \o <<>> = acc.tool_calls
    <2>1. PICK k \in 0 .. Len(s.calls) : acc.tool_calls = Taken(s.calls, k)
      BY <1>3
    <2>2. Taken(s.calls, k) \in Seq(C)
      BY <1>1, TakenParts
    <2>3. QED
      BY <2>1, <2>2, ConcatEmptySeq
  <1>6. QED
    BY <1>2, <1>3, <1>4, <1>5

\* What is left to show of a line that does not end the stream, beside what its
\* text and its usage do.
LEMMA HeardMore ==
  ASSUME NEW s \in Scripts, NEW n \in Nat, n + 1 \in 1 .. Len(s.lines),
         NEW p, NEW acc, Heard(s, n, p, acc),
         NEW q, ParserShape(q),
         q.tokens = IF s.lines[n + 1].type = "usage" THEN s.lines[n + 1].tokens
                    ELSE p.tokens,
         NEW calls, NEW texts,
         texts = IF s.lines[n + 1].type = "text" THEN <<s.lines[n + 1].text>> ELSE <<>>,
         NEW g, g = [content |-> acc.content \o texts,
                     tool_calls |-> acc.tool_calls \o calls, tokens |-> 0, done |-> FALSE],
         s.name = "openai" => HeardOpenAI(s, n + 1, q, g),
         s.name = "anthropic" => HeardAnthropic(s, n + 1, q, g),
         s.name = "ollama" => HeardOllama(s, n + 1, g)
  PROVE  Heard(s, n + 1, q, g)
  <1>1. PartialShape(g) /\ g.content = acc.content \o texts
    BY DEF PartialShape
  <1>2. HeardUsage(s, n + 1, q)
    BY UsageHeard DEF Heard
  <1>3. g.content = Taken(s.texts, Told(s, {"text"}, n + 1))
    BY <1>1, TextsHeard, Zenon DEF Heard
  <1>4. QED
    BY <1>1, <1>2, <1>3, Zenon DEF Heard

\* The same of the end marker.
LEMMA HeardAll ==
  ASSUME NEW s \in Scripts, NEW n \in Nat, n + 1 \in 1 .. Len(s.lines),
         NEW p, NEW acc, Heard(s, n, p, acc), s.lines[n + 1].type = "done",
         NEW calls, acc.tool_calls \o calls = s.calls,
         NEW tokens, tokens = s.tokens
  PROVE  Whole(s, Gathered(acc, Done(calls, tokens)))
  <1>1. IsScript(s) /\ Len(s.lines) \in Nat /\ s.texts \in Seq(Range(s.texts))
    BY ScriptParts
  <1>2. n + 1 = Len(s.lines)
    <2>1. n + 1 \in LinesOf(s, {"done"}, Len(s.lines))
      BY <1>1 DEF LinesOf
    <2>2. QED
      BY <1>1, <2>1 DEF IsScript
  <1>3. acc.content \o <<>> = s.texts
    <2>1. acc.content \o <<>> = Taken(s.texts, Told(s, {"text"}, n + 1))
      <3>1. s.lines[n + 1].type # "text"
        OBVIOUS
      <3>2. QED
        BY <3>1, TextsHeard, Zenon DEF Heard
    <2>2. Told(s, {"text"}, Len(s.lines)) = Len(s.texts)
      BY <1>1 DEF IsScript, CarriesTexts
    <2>3. Taken(s.texts, Len(s.texts)) = s.texts
      BY <1>1, TakenAll
    <2>4. QED
      BY <1>2, <2>1, <2>2, <2>3
  <1>4. QED
    BY <1>3, GatheredIs DEF Whole

\* What a line that was fed leaves, when it is not an error.
Hears(s, n, fed, acc) ==
  LET g == Gathered(acc, fed.events)
  IN  IF g.done THEN Whole(s, g) ELSE Heard(s, n + 1, fed.parser, g)

IsParser(p, order, parts, tool, tokens) ==
  /\ ParserShape(p) /\ p.order = order /\ p.parts = parts /\ p.tool = tool
  /\ p.tokens = tokens

LEMMA ParserUpdate ==
  ASSUME NEW p, ParserShape(p), NEW x, NEW y
  PROVE  /\ IsParser([p EXCEPT !.tokens = x], p.order, p.parts, p.tool, x)
         /\ IsParser([p EXCEPT !.tool = x], p.order, p.parts, x, p.tokens)
         /\ IsParser([p EXCEPT !.parts = x], p.order, x, p.tool, p.tokens)
         /\ IsParser([p EXCEPT !.order = x, !.parts = y], x, y, p.tool, p.tokens)
  <1>1. IsParser([p EXCEPT !.tokens = x], p.order, p.parts, p.tool, x)
    BY DEF IsParser, ParserShape
  <1>2. IsParser([p EXCEPT !.tool = x], p.order, p.parts, x, p.tokens)
    BY DEF IsParser, ParserShape
  <1>3. IsParser([p EXCEPT !.parts = x], p.order, x, p.tool, p.tokens)
    BY DEF IsParser, ParserShape
  <1>4. IsParser([p EXCEPT !.order = x, !.parts = y], x, y, p.tool, p.tokens)
    BY DEF IsParser, ParserShape
  <1>5. QED
    BY <1>1, <1>2, <1>3, <1>4

LEMMA ToolUpdate ==
  ASSUME NEW p, ParserShape(p), NEW x
  PROVE  /\ ParserShape([p EXCEPT !.tool = x])
         /\ [p EXCEPT !.tool = x].tool = x
         /\ [p EXCEPT !.tool = x].tokens = p.tokens
  BY DEF ParserShape

LEMMA CallsGathered ==
  ASSUME NEW acc, acc.tokens = 0, NEW calls
  PROVE  Gathered(acc, Calls(calls)) =
           [content |-> acc.content \o <<>>, tool_calls |-> acc.tool_calls \o calls,
            tokens |-> 0, done |-> FALSE]
  <1>1. Gathered(acc, Calls(calls)) =
          [content |-> acc.content \o <<>>, tool_calls |-> acc.tool_calls \o calls,
           tokens |-> acc.tokens, done |-> FALSE]
    BY GatheredIs
  <1>2. QED
    BY <1>1

\* The line before the end marker is the last but one.
LEMMA DoneIsLast ==
  ASSUME NEW s \in Scripts, NEW n \in Nat, n + 1 \in 1 .. Len(s.lines),
         s.lines[n + 1].type = "done"
  PROVE  n + 1 = Len(s.lines) /\ Ended(s) /\ n + 1 \in LinesOf(s, {"done"}, Len(s.lines))
  <1>1. IsScript(s) /\ Len(s.lines) \in Nat
    BY ScriptParts
  <1>2. n + 1 \in LinesOf(s, {"done"}, Len(s.lines))
    BY <1>1 DEF LinesOf
  <1>3. QED
    BY <1>1, <1>2 DEF IsScript, Ended

-----------------------------------------------------------------------------
(* Ollama *)

LEMMA OllamaHears ==
  ASSUME NEW s \in Scripts, s.name = "ollama", NEW n \in Nat, n + 1 \in 1 .. Len(s.lines),
         NEW p, NEW acc, Heard(s, n, p, acc),
         NEW fed, fed = Ollama(p, s.lines[n + 1]), ~fed.events.error
  PROVE  Hears(s, n, fed, acc)
  <1> DEFINE line == s.lines[n + 1]
             C == Range(s.calls)
             x == s.calls
  <1>1. /\ IsScript(s) /\ x \in Seq(C) /\ Len(x) \in Nat /\ DOMAIN x = 1 .. Len(x)
        /\ DOMAIN s.lines = 1 .. Len(s.lines) /\ Len(s.lines) \in Nat
    BY ScriptParts
  <1>2. n \in 0 .. Len(s.lines) /\ n + 1 \in DOMAIN s.lines
    BY <1>1
  <1>3. OllamaScript(s) /\ line.type \in {"text", "calls", "done", "error", "malformed"}
    BY <1>1, <1>2 DEF IsScript, OllamaScript
  <1>4. /\ ParserShape(p) /\ acc.tokens = 0
        /\ acc.content \o <<>> = acc.content /\ acc.tool_calls \o <<>> = acc.tool_calls
    BY <1>2, HeardParts DEF Heard, PartialShape
  <1>5. PICK sent \in [0 .. Len(s.lines) -> 0 .. Len(x)] :
          SentBy(s, sent) /\ acc.tool_calls = Taken(x, sent[n])
    BY DEF Heard, HeardOllama
  <1>6. /\ sent[n] \in 0 .. Len(x) /\ sent[n + 1] \in 0 .. Len(x)
        /\ IF line.type = "calls"
           THEN /\ IsList(line.calls)
                /\ sent[n + 1] = sent[n] + Len(line.calls)
                /\ \A j \in DOMAIN line.calls :
                     x[sent[n] + j] = [id |-> j, name |-> line.calls[j].name,
                                       args |-> line.calls[j].args]
           ELSE sent[n + 1] = sent[n]
    <2>1. n + 1 - 1 = n /\ n \in 0 .. Len(s.lines) /\ n + 1 \in 0 .. Len(s.lines)
      BY <1>1
    <2>2. sent[n] \in 0 .. Len(x) /\ sent[n + 1] \in 0 .. Len(x)
      BY <1>5, <2>1
    <2> DEFINE Next(i) ==
                 IF s.lines[i].type = "calls"
                 THEN /\ IsList(s.lines[i].calls)
                      /\ sent[i] = sent[i - 1] + Len(s.lines[i].calls)
                      /\ \A j \in DOMAIN s.lines[i].calls :
                           s.calls[sent[i - 1] + j] =
                             [id |-> j, name |-> s.lines[i].calls[j].name,
                              args |-> s.lines[i].calls[j].args]
                 ELSE sent[i] = sent[i - 1]
    <2>3. \A i \in DOMAIN s.lines : Next(i)
      BY <1>5 DEF SentBy
    <2> HIDE DEF Next
    <2>4. Next(n + 1)
      BY <1>2, <2>3
    <2>5. QED
      BY <2>1, <2>2, <2>4 DEF Next
  <1>7. ASSUME line.type \in {"text", "malformed"}
        PROVE  Hears(s, n, fed, acc)
    <2> DEFINE texts == IF line.type = "text" THEN <<line.text>> ELSE <<>>
               g == [content |-> acc.content \o texts,
                     tool_calls |-> acc.tool_calls \o <<>>, tokens |-> 0, done |-> FALSE]
    <2>1. fed = Fed(p, IF line.type = "text" THEN Token(line.text) ELSE Nothing)
      BY <1>7 DEF Ollama
    <2>2. fed.parser = p /\ Gathered(acc, fed.events) = g
      <3>1. fed.parser = p /\ fed.events = IF line.type = "text" THEN Token(line.text) ELSE Nothing
        BY <2>1 DEF Fed
      <3>2. QED
        BY <1>4, <3>1, GatheredIs, Zenon
    <2>3. HeardOllama(s, n + 1, g)
      <3>1. g.tool_calls = acc.tool_calls
        BY <1>4
      <3>2. sent[n + 1] = sent[n]
        BY <1>6, <1>7
      <3> HIDE DEF g
      <3>3. g.tool_calls = Taken(x, sent[n + 1])
        BY <1>5, <3>1, <3>2
      <3>4. QED
        BY <1>5, <3>3, Zenon DEF HeardOllama
    <2>4. p.tokens = IF line.type = "usage" THEN line.tokens ELSE p.tokens
      BY <1>7
    <2>5. g.done = FALSE
      OBVIOUS
    <2> HIDE DEF g
    <2>6. Heard(s, n + 1, p, g)
      <3>1. s.name # "openai" /\ s.name # "anthropic"
        OBVIOUS
      <3>2. QED
        BY <1>4, <2>3, <2>4, <3>1, HeardMore, Zenon DEF g
    <2>7. QED
      BY <2>2, <2>5, <2>6, Zenon DEF Hears
  <1>8. ASSUME line.type = "calls"
        PROVE  Hears(s, n, fed, acc)
    <2> DEFINE y == [j \in DOMAIN line.calls |->
                       Call(j, line.calls[j].name, line.calls[j].args)]
               g == [content |-> acc.content \o <<>>,
                     tool_calls |-> acc.tool_calls \o y, tokens |-> 0, done |-> FALSE]
    <2>1. fed = Fed(p, Calls(y))
      BY <1>8 DEF Ollama
    <2>2. fed.parser = p /\ Gathered(acc, fed.events) = g
      <3> HIDE DEF y
      <3>1. fed.parser = p /\ fed.events = Calls(y)
        BY <2>1 DEF Fed
      <3>2. QED
        BY <1>4, <3>1, GatheredIs, Zenon
    <2>3. /\ Len(line.calls) \in Nat /\ DOMAIN line.calls = 1 .. Len(line.calls)
          /\ sent[n + 1] = sent[n] + Len(line.calls)
          /\ \A j \in 1 .. Len(line.calls) :
               x[sent[n] + j] = [id |-> j, name |-> line.calls[j].name,
                                 args |-> line.calls[j].args]
      <3>1. IsList(line.calls)
        BY <1>6, <1>8
      <3>2. Len(line.calls) \in Nat /\ DOMAIN line.calls = 1 .. Len(line.calls)
        BY <3>1, ListParts
      <3>3. QED
        BY <1>6, <1>8, <3>2
    <2>4. ASSUME NEW j \in 1 .. Len(line.calls)
          PROVE  y[j] = x[sent[n] + j] /\ x[sent[n] + j] \in C
      <3> DEFINE k == sent[n] + j
                 call == line.calls[j]
      <3>1. k \in 1 .. Len(x)
        <4> DEFINE X == Len(x)
                   l == Len(line.calls)
        <4>1. /\ X \in Nat /\ l \in Nat /\ j \in 1 .. l
              /\ sent[n] \in 0 .. X /\ sent[n + 1] \in 0 .. X /\ sent[n + 1] = sent[n] + l
          BY <1>1, <1>6, <2>3, Zenon
        <4> HIDE DEF X, l
        <4>2. sent[n] + j \in 1 .. X
          BY <4>1
        <4>3. QED
          BY <4>2, Zenon DEF X
      <3> HIDE DEF k
      <3>2. x[k] = [id |-> j, name |-> call.name, args |-> call.args]
        BY <2>3 DEF k
      <3>3. /\ Len(x[k].args) \in Nat
            /\ x[k] = [id |-> x[k].id, name |-> x[k].name,
                       args |-> [m \in 1 .. Len(x[k].args) |-> Fragment(k, m, Len(x[k].args))]]
        BY <3>1, CallIs
      <3> DEFINE N == Len(x[k].args)
                 a == [m \in 1 .. N |-> Fragment(k, m, N)]
      <3>4. x[k].args = a
        <4>1. x[k] = [id |-> x[k].id, name |-> x[k].name, args |-> a]
          BY <3>3
        <4> HIDE DEF a, x
        <4>2. QED
          BY <4>1
      <3>5. x[k].args = call.args
        BY <3>2
      <3>6. Parsed(a) = a
        BY <3>3, ParsedIs
      <3> HIDE DEF a, N, call
      <3>7. Call(j, call.name, call.args) = x[k]
        BY <3>2, <3>4, <3>5, <3>6, Zenon DEF Call
      <3>8. y[j] = Call(j, call.name, call.args)
        BY <2>3 DEF call
      <3>9. x[k] \in C
        BY <1>1, <3>1
      <3>10. QED
        BY <3>7, <3>8, <3>9 DEF k
    <2>5. y \in Seq(C) /\ Len(y) = Len(line.calls)
      <3>1. DOMAIN y = 1 .. Len(line.calls) /\ \A j \in 1 .. Len(line.calls) : y[j] \in C
        BY <2>3, <2>4
      <3>2. y = [j \in 1 .. Len(line.calls) |-> y[j]]
        BY <3>1
      <3> DEFINE N == Len(line.calls)
      <3>3. N \in Nat /\ y = [j \in 1 .. N |-> y[j]] /\ \A j \in 1 .. N : y[j] \in C
        BY <2>3, <3>1, <3>2
      <3> HIDE DEF y, N, C
      <3>4. y \in Seq(C) /\ Len(y) = N
        BY <3>3, ListOf
      <3>5. QED
        BY <3>4 DEF N
    <2>6. HeardOllama(s, n + 1, g)
      <3> DEFINE k == sent[n]
                 next == sent[n + 1]
      <3>1. g.tool_calls = acc.tool_calls \o y
        OBVIOUS
      <3>2. k \in Nat /\ k + Len(y) = next /\ k + Len(y) <= Len(x)
        <4> DEFINE X == Len(x)
        <4>1. X \in Nat /\ k \in 0 .. X /\ next \in 0 .. X /\ next = k + Len(line.calls)
          BY <1>1, <1>6, <2>3, Zenon
        <4>2. Len(y) = Len(line.calls)
          BY <2>5, Zenon
        <4>3. next = k + Len(y)
          BY <4>1, <4>2, Zenon
        <4> HIDE DEF X, k, next, y
        <4>4. k \in Nat /\ next <= X
          BY <4>1
        <4>5. QED
          BY <4>3, <4>4, Zenon DEF X
      <3>3. \A j \in 1 .. Len(y) : y[j] = x[k + j]
        BY <2>4, <2>5
      <3> HIDE DEF g, y, k, x, C
      <3>4. Taken(x, k) \o y = Taken(x, k + Len(y))
        BY <1>1, <2>5, <3>2, <3>3, TakenGrows
      <3>5. g.tool_calls = Taken(x, next)
        BY <1>5, <3>1, <3>2, <3>4, Zenon DEF k
      <3>6. QED
        BY <1>5, <3>5, Zenon DEF HeardOllama, x
    <2>7. p.tokens = IF line.type = "usage" THEN line.tokens ELSE p.tokens
      BY <1>8
    <2>8. g.done = FALSE
      OBVIOUS
    <2>9. <<>> = IF line.type = "text" THEN <<line.text>> ELSE <<>>
      BY <1>8
    <2> HIDE DEF y
    <2>10. g = [content |-> acc.content \o <<>>,
                tool_calls |-> acc.tool_calls \o y, tokens |-> 0, done |-> FALSE]
      OBVIOUS
    <2> HIDE DEF g
    <2>11. Heard(s, n + 1, p, g)
      <3>1. s.name # "openai" /\ s.name # "anthropic"
        OBVIOUS
      <3>2. QED
        BY <1>4, <2>6, <2>7, <2>9, <2>10, <3>1, HeardMore, Zenon
    <2>12. QED
      BY <2>2, <2>8, <2>11, Zenon DEF Hears
  <1>9. ASSUME line.type = "done"
        PROVE  Hears(s, n, fed, acc)
    <2>1. fed = Fed(p, Done(<<>>, line.tokens))
      BY <1>9 DEF Ollama
    <2>2. n + 1 = Len(s.lines) /\ Ended(s) /\ n + 1 \in LinesOf(s, {"done"}, Len(s.lines))
      BY <1>9, DoneIsLast
    <2>3. line.tokens = s.tokens
      BY <1>3, <2>2 DEF OllamaScript
    <2>4. acc.tool_calls \o <<>> = x
      <3>1. sent[Len(s.lines)] = Len(x)
        BY <1>5, <2>2 DEF SentBy
      <3>2. sent[n] = Len(x)
        BY <1>6, <1>9, <2>2, <3>1
      <3>3. QED
        BY <1>1, <1>4, <1>5, <3>2, TakenAll
    <2>5. Whole(s, Gathered(acc, Done(<<>>, line.tokens)))
      BY <1>9, <2>3, <2>4, HeardAll, Zenon
    <2>6. fed.events = Done(<<>>, line.tokens)
      BY <2>1 DEF Fed
    <2>7. Gathered(acc, fed.events).done
      BY <2>5, <2>6 DEF Whole
    <2>8. QED
      BY <2>5, <2>6, <2>7, Zenon DEF Hears
  <1>10. line.type # "error"
    <2>1. SUFFICES ASSUME line.type = "error" PROVE FALSE
      OBVIOUS
    <2>2. fed.events = Error
      BY <2>1 DEF Ollama, Fed
    <2>3. QED
      BY <2>2 DEF Error
  <1>11. QED
    BY <1>3, <1>7, <1>8, <1>9, <1>10

-----------------------------------------------------------------------------
(* Anthropic *)

LEMMA BlocksNext ==
  ASSUME NEW s, NEW n \in Nat
  PROVE  /\ Told(s, {"block_start"}, n) \in Nat
         /\ s.lines[n + 1].type = "block_start" =>
              Told(s, {"block_start"}, n + 1) = Told(s, {"block_start"}, n) + 1
         /\ s.lines[n + 1].type # "block_start" =>
              Told(s, {"block_start"}, n + 1) = Told(s, {"block_start"}, n)
         /\ \A m \in 0 .. n : Told(s, {"block_start"}, m) <= Told(s, {"block_start"}, n)
  <1> DEFINE type == "block_start"
  <1> HIDE DEF type
  <1>1. Told(s, {type}, n) \in Nat
    BY ToldIsNat
  <1>2. /\ s.lines[n + 1].type = type => Told(s, {type}, n + 1) = Told(s, {type}, n) + 1
        /\ s.lines[n + 1].type # type => Told(s, {type}, n + 1) = Told(s, {type}, n)
    BY ToldOf
  <1>3. \A m \in 0 .. n : Told(s, {type}, m) <= Told(s, {type}, n)
    BY ToldRises
  <1>4. QED
    BY <1>1, <1>2, <1>3 DEF type

\* When the open block's call is complete, closing it yields that call.
LEMMA Closing ==
  ASSUME NEW s \in Scripts, NEW n \in Nat, NEW p, NEW acc, HeardAnthropic(s, n, p, acc),
         Told(s, {"block_start"}, n) > 0 => Complete(s, Told(s, {"block_start"}, n), n)
  PROVE  acc.tool_calls \o CloseCurrentTool(p) = Taken(s.calls, Told(s, {"block_start"}, n))
  <1> DEFINE b == Told(s, {"block_start"}, n)
             C == Range(s.calls)
             x == s.calls
  <1>1. x \in Seq(C) /\ Len(x) \in Nat /\ b \in Nat
    BY ScriptParts, BlocksNext
  <1>2. /\ b <= Len(x)
        /\ \/ p.tool = <<>> /\ acc.tool_calls = Taken(x, b)
           \/ b > 0 /\ p.tool = <<PartOf(s, b, n)>> /\ acc.tool_calls = Taken(x, b - 1)
    BY Zenon DEF HeardAnthropic
  <1>3. b > 0 => Complete(s, b, n)
    OBVIOUS
  <1> HIDE DEF b
  <1>4. CASE p.tool = <<>> /\ acc.tool_calls = Taken(x, b)
    <2>1. CloseCurrentTool(p) = <<>>
      BY <1>4 DEF CloseCurrentTool
    <2>2. Taken(x, b) \in Seq(C)
      BY <1>1, <1>2, TakenParts
    <2>3. QED
      BY <1>4, <2>1, <2>2, ConcatEmptySeq DEF b
  <1>5. CASE b > 0 /\ p.tool = <<PartOf(s, b, n)>> /\ acc.tool_calls = Taken(x, b - 1)
    <2> DEFINE part == PartOf(s, b, n)
               e == x[b]
               k == b - 1
    <2>1. b \in 1 .. Len(x) /\ k \in Nat /\ k + 1 = b
      BY <1>1, <1>2, <1>5
    <2>2. Call(part.id, part.name, part.args) = e
      BY <1>3, <1>5, <2>1, CallWhole
    <2>3. e \in C
      BY <1>1, <2>1
    <2> HIDE DEF part, e, k
    <2>4. CloseCurrentTool(p) = <<e>>
      <3>1. p.tool = <<part>>
        BY <1>5 DEF part
      <3>2. CloseCurrentTool(p) = [i \in {1} |-> Call(part.id, part.name, part.args)]
        BY <3>1 DEF CloseCurrentTool
      <3>3. QED
        BY <2>2, <3>2
    <2>5. <<e>> \in Seq(C) /\ Len(<<e>>) = 1 /\ <<e>>[1] = e
      BY <2>3, SingletonList
    <2> DEFINE y == <<e>>
    <2> HIDE DEF y
    <2>6. y \in Seq(C) /\ Len(y) = 1 /\ y[1] = e
      BY <2>5 DEF y
    <2>7. k + Len(y) <= Len(x) /\ k + Len(y) = b /\ \A i \in 1 .. Len(y) : y[i] = x[k + i]
      BY <1>2, <2>1, <2>6 DEF e
    <2> HIDE DEF x, C
    <2>8. Taken(x, k) \o y = Taken(x, k + Len(y))
      BY <1>1, <2>1, <2>6, <2>7, TakenGrows
    <2>9. QED
      BY <1>5, <2>4, <2>7, <2>8, Zenon DEF y, k, b, x
  <1>6. QED
    BY <1>2, <1>4, <1>5

\* What is known of a line of an Anthropic stream.
LEMMA AnthropicLine ==
  ASSUME NEW s \in Scripts, s.name = "anthropic", NEW n \in Nat, n + 1 \in 1 .. Len(s.lines)
  PROVE  LET line == s.lines[n + 1]
             b == Told(s, {"block_start"}, n)
         IN  /\ line.type \in {"text", "block_start", "block_json", "block_stop", "usage",
                               "done", "error", "malformed"}
             /\ line.type = "block_start" =>
                  /\ b + 1 \in 1 .. Len(s.calls)
                  /\ line.id = s.calls[b + 1].id /\ line.name = s.calls[b + 1].name
             /\ line.type = "block_json" => line.args[1].call = b
             /\ line.type \in {"block_start", "block_stop", "done"} =>
                  (b > 0 => Complete(s, b, n))
             /\ line.type = "done" => CarriesUsage(s) /\ b = Len(s.calls)
             /\ \A i \in 1 .. n + 1 : Carries(s, b + 1, i) => line.type = "block_json"
  <1> DEFINE line == s.lines[n + 1]
             b == Told(s, {"block_start"}, n)
             L == Len(s.lines)
             Started(m) == Told(s, {"block_start"}, m)
  <1>1. /\ IsScript(s) /\ L \in Nat /\ DOMAIN s.lines = 1 .. L
        /\ DOMAIN s.calls = 1 .. Len(s.calls)
    BY ScriptParts
  <1>2. AnthropicScript(s)
    BY <1>1 DEF IsScript
  <1>3. \A i \in 1 .. L : s.lines[i].type \in {"text", "block_start", "block_json",
                                               "block_stop", "usage", "done", "error",
                                               "malformed"}
    BY <1>1, <1>2 DEF AnthropicScript
  <1>4. \A i \in 1 .. L : s.lines[i].type = "block_start" =>
          /\ Started(i) \in DOMAIN s.calls
          /\ s.lines[i].id = s.calls[Started(i)].id
          /\ s.lines[i].name = s.calls[Started(i)].name
    BY <1>2 DEF AnthropicScript, LinesOf
  <1>5. \A i \in 1 .. L : s.lines[i].type = "block_json" => s.lines[i].args[1].call = Started(i)
    BY <1>2 DEF AnthropicScript, LinesOf
  <1>6. \A i \in 1 .. L : s.lines[i].type \in {"block_start", "block_stop", "done"} =>
          \A k \in 1 .. Started(i - 1) : Complete(s, k, i)
    BY <1>2 DEF AnthropicScript, LinesOf
  <1>7. Ended(s) => CarriesUsage(s) /\ Started(L) = Len(s.calls)
    BY <1>2 DEF AnthropicScript
  <1>8. /\ b \in Nat
        /\ line.type = "block_start" => Started(n + 1) = b + 1
        /\ line.type # "block_start" => Started(n + 1) = b
        /\ \A m \in 0 .. n : Started(m) <= b
    BY BlocksNext
  <1>9. \A m \in Nat : Started(m) \in Nat
    BY BlocksNext
  <1>10. line.type \in {"block_start", "block_stop", "done"} => (b > 0 => Complete(s, b, n))
    <2>1. SUFFICES ASSUME line.type \in {"block_start", "block_stop", "done"}, b > 0
                   PROVE  Complete(s, b, n)
      OBVIOUS
    <2>2. n + 1 - 1 = n
      OBVIOUS
    <2>3. \A k \in 1 .. b : Complete(s, k, n + 1)
      <3> HIDE DEF Started
      <3>1. \A k \in 1 .. Started(n + 1 - 1) : Complete(s, k, n + 1)
        BY <1>6, <2>1
      <3>2. QED
        BY <2>2, <3>1 DEF Started
    <2>4. b \in 1 .. b
      BY <1>8, <2>1
    <2> HIDE DEF b
    <2>5. Complete(s, b, n + 1)
      BY <2>3, <2>4
    <2>6. line.type \notin Carriers
      BY <2>1 DEF Carriers
    <2>7. QED
      BY <2>5, <2>6, GotSame
  <1>11. ASSUME NEW i \in 1 .. n + 1, Carries(s, b + 1, i)
         PROVE  line.type = "block_json"
    <2>1. i \in 1 .. L
      BY <1>1
    <2>2. s.lines[i].type \in Carriers /\ s.lines[i].args[1].call = b + 1
      BY <1>11 DEF Carries
    <2>3. s.lines[i].type = "block_json"
      BY <1>3, <2>1, <2>2 DEF Carriers
    <2>4. Started(i) = b + 1
      <3> HIDE DEF Started, b
      <3>1. QED
        BY <1>5, <2>1, <2>2, <2>3
    <2> HIDE DEF Started, b
    <2>5. i = n + 1
      <3>1. SUFFICES ASSUME i \in 0 .. n PROVE FALSE
        OBVIOUS
      <3>2. Started(i) <= b
        BY <1>8, <3>1
      <3>3. QED
        BY <1>8, <2>4, <3>2
    <2>6. QED
      BY <2>3, <2>5
  <1>12. line.type = "done" => CarriesUsage(s) /\ b = Len(s.calls)
    <2>1. SUFFICES ASSUME line.type = "done" PROVE CarriesUsage(s) /\ b = Len(s.calls)
      OBVIOUS
    <2>2. n + 1 = L /\ Ended(s)
      BY <2>1, DoneIsLast
    <2> HIDE DEF Started, b
    <2>3. Started(n + 1) = b
      BY <1>8, <2>1
    <2>4. QED
      BY <1>7, <2>2, <2>3
  <1>13. n + 1 \in 1 .. L
    OBVIOUS
  <1>14. line.type \in {"text", "block_start", "block_json", "block_stop", "usage", "done",
                        "error", "malformed"}
    BY <1>3, <1>13
  <1>15. line.type = "block_start" =>
           /\ b + 1 \in 1 .. Len(s.calls)
           /\ line.id = s.calls[b + 1].id /\ line.name = s.calls[b + 1].name
    <2> HIDE DEF Started, b
    <2>1. QED
      BY <1>1, <1>4, <1>8, <1>13
  <1>16. line.type = "block_json" => line.args[1].call = b
    <2> HIDE DEF Started, b
    <2>1. QED
      BY <1>5, <1>8, <1>13
  <1>17. QED
    BY <1>10, <1>11, <1>12, <1>14, <1>15, <1>16, Zenon

LEMMA ArgsGrow ==
  ASSUME NEW a, NEW b, NEW c, NEW d, NEW r, r = [id |-> a, name |-> b, args |-> c]
  PROVE  [r EXCEPT !.args = d] = [id |-> a, name |-> b, args |-> d]
  <1>1. [r EXCEPT !.args = d] \in [id: {a}, name: {b}, args: {d}]
    OBVIOUS
  <1> DEFINE u == [r EXCEPT !.args = d]
  <1> HIDE DEF u
  <1>2. u \in [id: {a}, name: {b}, args: {d}]
    BY <1>1 DEF u
  <1>3. u = [id |-> a, name |-> b, args |-> d]
    BY <1>2
  <1>4. QED
    BY <1>3 DEF u

\* A line that opens and closes no block and carries no fragment.
LEMMA BlockStays ==
  ASSUME NEW s \in Scripts, NEW n \in Nat, NEW p, NEW acc, HeardAnthropic(s, n, p, acc),
         s.lines[n + 1].type \notin Carriers, s.lines[n + 1].type # "block_start",
         NEW q, q.tool = p.tool, NEW g, g.tool_calls = acc.tool_calls
  PROVE  HeardAnthropic(s, n + 1, q, g)
  <1> DEFINE b == Told(s, {"block_start"}, n)
             c == Told(s, {"block_start"}, n + 1)
  <1>1. c = b
    BY BlocksNext
  <1>2. PartOf(s, b, n + 1) = PartOf(s, b, n) /\ (Complete(s, b, n + 1) <=> Complete(s, b, n))
    BY GotSame
  <1>3. /\ b <= Len(s.calls)
        /\ \/ /\ p.tool = <<>>
              /\ b > 0 => Complete(s, b, n)
              /\ acc.tool_calls = Taken(s.calls, b)
           \/ /\ b > 0
              /\ p.tool = <<PartOf(s, b, n)>>
              /\ acc.tool_calls = Taken(s.calls, b - 1)
    BY Zenon DEF HeardAnthropic
  <1> HIDE DEF b, c
  <1>4. /\ c <= Len(s.calls)
        /\ \/ /\ q.tool = <<>>
              /\ c > 0 => Complete(s, c, n + 1)
              /\ g.tool_calls = Taken(s.calls, c)
           \/ /\ c > 0
              /\ q.tool = <<PartOf(s, c, n + 1)>>
              /\ g.tool_calls = Taken(s.calls, c - 1)
    BY <1>1, <1>2, <1>3
  <1>5. QED
    BY <1>4, Zenon DEF HeardAnthropic, c

LEMMA BlockStarts ==
  ASSUME NEW s \in Scripts, s.name = "anthropic", NEW n \in Nat, n + 1 \in 1 .. Len(s.lines),
         NEW p, NEW acc, HeardAnthropic(s, n, p, acc), s.lines[n + 1].type = "block_start",
         NEW q, q.tool = <<[id |-> s.lines[n + 1].id, name |-> s.lines[n + 1].name,
                            args |-> <<>>]>>,
         NEW g, g.tool_calls = acc.tool_calls \o CloseCurrentTool(p)
  PROVE  HeardAnthropic(s, n + 1, q, g)
  <1> DEFINE b == Told(s, {"block_start"}, n)
             c == Told(s, {"block_start"}, n + 1)
             line == s.lines[n + 1]
  <1>1. b \in Nat /\ c = b + 1
    BY BlocksNext
  <1>2. /\ b + 1 \in 1 .. Len(s.calls)
        /\ line.id = s.calls[b + 1].id /\ line.name = s.calls[b + 1].name
        /\ b > 0 => Complete(s, b, n)
        /\ \A i \in 1 .. n + 1 : ~Carries(s, b + 1, i)
    BY AnthropicLine
  <1>3. g.tool_calls = Taken(s.calls, b)
    BY <1>2, Closing
  <1>4. Got(s, c, n + 1) = 0
    <2>1. n + 1 \in Nat
      OBVIOUS
    <2> HIDE DEF b, c
    <2>2. \A i \in 1 .. n + 1 : ~Carries(s, c, i)
      BY <1>1, <1>2
    <2>3. QED
      BY <2>1, <2>2, GotNext
  <1> HIDE DEF b, c
  <1>5. PartOf(s, c, n + 1) = [id |-> line.id, name |-> line.name, args |-> <<>>]
    <2>1. Received(s, c, n + 1) = <<>>
      <3>1. Received(s, c, n + 1) = [m \in 1 .. 0 |-> Fragment(c, m, Len(s.calls[c].args))]
        BY <1>4, Zenon DEF Received
      <3>2. QED
        BY <3>1
    <2>2. QED
      BY <1>1, <1>2, <2>1 DEF PartOf
  <1>6. c <= Len(s.calls) /\ c > 0 /\ c - 1 = b
    BY <1>1, <1>2
  <1>7. c > 0 /\ q.tool = <<PartOf(s, c, n + 1)>> /\ g.tool_calls = Taken(s.calls, c - 1)
    BY <1>3, <1>5, <1>6
  <1>8. QED
    BY <1>6, <1>7, Zenon DEF HeardAnthropic, c

\* The open block with more of its call's arguments.
Grown(tool, args) ==
  [i \in DOMAIN tool |-> [tool[i] EXCEPT !.args = tool[i].args \o args]]

LEMMA BlockGrows ==
  ASSUME NEW s \in Scripts, s.name = "anthropic", NEW n \in Nat, n + 1 \in 1 .. Len(s.lines),
         NEW p, NEW acc, HeardAnthropic(s, n, p, acc), s.lines[n + 1].type = "block_json",
         NEW q, q.tool = Grown(p.tool, s.lines[n + 1].args),
         NEW g, g.tool_calls = acc.tool_calls
  PROVE  HeardAnthropic(s, n + 1, q, g)
  <1> DEFINE b == Told(s, {"block_start"}, n)
             c == Told(s, {"block_start"}, n + 1)
             line == s.lines[n + 1]
  <1>1. b \in Nat /\ c = b
    BY BlocksNext
  <1>2. line.args[1].call = b
    BY AnthropicLine
  <1>3. line.type \in Carriers
    BY DEF Carriers
  <1>4. /\ b \in 1 .. Len(s.calls)
        /\ Got(s, b, n) \in Nat /\ Got(s, b, n) + 1 <= Len(s.calls[b].args)
        /\ Received(s, b, n) \o line.args = Received(s, b, n + 1)
    BY <1>2, <1>3, FragmentComes
  <1>5. /\ \/ /\ p.tool = <<>>
              /\ b > 0 => Complete(s, b, n)
           \/ /\ b > 0
              /\ p.tool = <<PartOf(s, b, n)>>
              /\ acc.tool_calls = Taken(s.calls, b - 1)
    BY Zenon DEF HeardAnthropic
  <1> HIDE DEF b, c, line
  <1>6. ~Complete(s, b, n)
    BY <1>4 DEF Complete
  <1>7. p.tool = <<PartOf(s, b, n)>> /\ acc.tool_calls = Taken(s.calls, b - 1)
    BY <1>1, <1>4, <1>5, <1>6
  <1> DEFINE part == PartOf(s, b, n)
             next == PartOf(s, b, n + 1)
  <1>8. [part EXCEPT !.args = part.args \o line.args] = next
    <2> DEFINE r == Received(s, b, n)
               m == Received(s, b, n + 1)
               i == s.calls[b].id
               h == s.calls[b].name
    <2>1. part = [id |-> i, name |-> h, args |-> r]
          /\ next = [id |-> i, name |-> h, args |-> m]
      BY Zenon DEF PartOf
    <2> HIDE DEF part, next, r, m, i, h
    <2>2. [part EXCEPT !.args = m] = next
      BY <2>1, ArgsGrow
    <2>3. part.args \o line.args = m
      <3>1. part.args = r
        BY <2>1
      <3>2. QED
        BY <1>4, <3>1, Zenon DEF r, m
    <2>4. QED
      BY <2>2, <2>3
  <1> HIDE DEF part, next
  <1>9. q.tool = <<next>>
    <2>1. p.tool = <<part>>
      BY <1>7 DEF part
    <2> DEFINE F(r) == [r EXCEPT !.args = r.args \o line.args]
    <2>2. q.tool = [i \in DOMAIN p.tool |-> F(p.tool[i])]
      BY Zenon DEF line, Grown
    <2>3. F(part) = next
      BY <1>8
    <2> HIDE DEF F
    <2>4. DOMAIN p.tool = {1} /\ p.tool[1] = part
      BY <2>1
    <2>5. q.tool = [i \in {1} |-> next]
      BY <2>2, <2>3, <2>4
    <2>6. QED
      BY <2>5
  <1>10. c <= Len(s.calls) /\ c > 0
    BY <1>1, <1>4
  <1>11. q.tool = <<PartOf(s, c, n + 1)>> /\ g.tool_calls = Taken(s.calls, c - 1)
    BY <1>1, <1>7, <1>9 DEF next
  <1>12. QED
    BY <1>10, <1>11, Zenon DEF HeardAnthropic, c

LEMMA BlockStops ==
  ASSUME NEW s \in Scripts, s.name = "anthropic", NEW n \in Nat, n + 1 \in 1 .. Len(s.lines),
         NEW p, NEW acc, HeardAnthropic(s, n, p, acc), s.lines[n + 1].type = "block_stop",
         NEW q, q.tool = <<>>,
         NEW g, g.tool_calls = acc.tool_calls \o CloseCurrentTool(p)
  PROVE  HeardAnthropic(s, n + 1, q, g)
  <1> DEFINE b == Told(s, {"block_start"}, n)
             c == Told(s, {"block_start"}, n + 1)
  <1>1. b \in Nat /\ c = b
    BY BlocksNext
  <1>2. b > 0 => Complete(s, b, n)
    BY AnthropicLine
  <1>3. g.tool_calls = Taken(s.calls, b)
    BY <1>2, Closing
  <1>4. b > 0 => Complete(s, b, n + 1)
    <2>1. s.lines[n + 1].type \notin Carriers
      BY DEF Carriers
    <2>2. QED
      BY <1>2, <2>1, GotSame
  <1>5. b <= Len(s.calls)
    BY Zenon DEF HeardAnthropic
  <1> HIDE DEF b, c
  <1>6. /\ c > 0 => Complete(s, c, n + 1)
        /\ g.tool_calls = Taken(s.calls, c)
    BY <1>1, <1>3, <1>4
  <1>7. c <= Len(s.calls)
    BY <1>1, <1>5
  <1>8. QED
    BY <1>6, <1>7, Zenon DEF HeardAnthropic, c

LEMMA AnthropicHears ==
  ASSUME NEW s \in Scripts, s.name = "anthropic", NEW n \in Nat,
         n + 1 \in 1 .. Len(s.lines), NEW p, NEW acc, Heard(s, n, p, acc),
         NEW fed, fed = Anthropic(p, s.lines[n + 1]), ~fed.events.error
  PROVE  Hears(s, n, fed, acc)
  <1> DEFINE line == s.lines[n + 1]
  <1>1. /\ ParserShape(p) /\ acc.tokens = 0 /\ p.done = FALSE
        /\ acc.content \o <<>> = acc.content /\ acc.tool_calls \o <<>> = acc.tool_calls
        /\ HeardAnthropic(s, n, p, acc) /\ HeardUsage(s, n, p)
    <2>1. n \in 0 .. Len(s.lines)
      BY ScriptParts
    <2>2. ParserShape(p) /\ PartialShape(acc) /\ HeardAnthropic(s, n, p, acc)
          /\ HeardUsage(s, n, p)
      BY Zenon DEF Heard
    <2>3. acc.content \o <<>> = acc.content /\ acc.tool_calls \o <<>> = acc.tool_calls
      BY <2>1, HeardParts
    <2>4. acc.tokens = 0
      BY <2>2 DEF PartialShape
    <2>5. QED
      BY <2>2, <2>3, <2>4 DEF ParserShape
  <1>2. line.type \in {"text", "block_start", "block_json", "block_stop", "usage", "done",
                       "error", "malformed"}
    BY AnthropicLine
  <1>3. s.name # "openai" /\ s.name # "ollama"
    OBVIOUS
  \* What remains of a line that does not end the stream.
  <1>4. ASSUME NEW q, ParserShape(q),
               q.tokens = IF line.type = "usage" THEN line.tokens ELSE p.tokens,
               NEW calls, NEW texts,
               texts = IF line.type = "text" THEN <<line.text>> ELSE <<>>,
               fed.parser = q,
               Gathered(acc, fed.events) =
                 [content |-> acc.content \o texts, tool_calls |-> acc.tool_calls \o calls,
                  tokens |-> 0, done |-> FALSE],
               HeardAnthropic(s, n + 1, q, Gathered(acc, fed.events))
        PROVE  Hears(s, n, fed, acc)
    <2> DEFINE g == Gathered(acc, fed.events)
    <2>1. g.done = FALSE
      BY <1>4
    <2> HIDE DEF g
    <2>2. g = [content |-> acc.content \o texts, tool_calls |-> acc.tool_calls \o calls,
               tokens |-> 0, done |-> FALSE]
          /\ HeardAnthropic(s, n + 1, q, g)
      BY <1>4 DEF g
    <2>3. Heard(s, n + 1, q, g)
      BY <1>3, <1>4, <2>2, HeardMore, Zenon
    <2>4. QED
      BY <1>4, <2>1, <2>3, Zenon DEF Hears, g
  <1>5. ASSUME line.type = "text"
        PROVE  Hears(s, n, fed, acc)
    <2>1. fed.parser = p /\ fed.events = Token(line.text)
      BY <1>5 DEF Anthropic, Fed
    <2>2. Gathered(acc, fed.events) =
            [content |-> acc.content \o <<line.text>>,
             tool_calls |-> acc.tool_calls \o <<>>, tokens |-> 0, done |-> FALSE]
      BY <1>1, <2>1, GatheredIs, Zenon
    <2> DEFINE g == Gathered(acc, fed.events)
    <2>3. g.tool_calls = acc.tool_calls
      BY <1>1, <2>2
    <2>4. line.type \notin Carriers /\ line.type # "block_start"
      BY <1>5 DEF Carriers
    <2> HIDE DEF g
    <2>5. HeardAnthropic(s, n + 1, p, g)
      BY <1>1, <2>3, <2>4, BlockStays
    <2>6. <<line.text>> = IF line.type = "text" THEN <<line.text>> ELSE <<>>
      BY <1>5
    <2>7. p.tokens = IF line.type = "usage" THEN line.tokens ELSE p.tokens
      BY <1>5
    <2>8. QED
      BY <1>1, <1>4, <2>1, <2>2, <2>5, <2>6, <2>7, Zenon DEF g
  <1>6. ASSUME line.type \in {"usage", "malformed"}
        PROVE  Hears(s, n, fed, acc)
    <2> DEFINE q == IF line.type = "usage" THEN [p EXCEPT !.tokens = line.tokens] ELSE p
    <2>1. fed.parser = q /\ fed.events = Nothing
      BY <1>6 DEF Anthropic, Fed
    <2>2. Gathered(acc, fed.events) =
            [content |-> acc.content \o <<>>,
             tool_calls |-> acc.tool_calls \o <<>>, tokens |-> 0, done |-> FALSE]
      BY <1>1, <2>1, GatheredIs, Zenon
    <2> DEFINE g == Gathered(acc, fed.events)
    <2>3. g.tool_calls = acc.tool_calls
      BY <1>1, <2>2
    <2>4. line.type \notin Carriers /\ line.type # "block_start"
      BY <1>6 DEF Carriers
    <2>5. /\ ParserShape(q) /\ q.tool = p.tool
          /\ q.tokens = IF line.type = "usage" THEN line.tokens ELSE p.tokens
      <3>1. IsParser([p EXCEPT !.tokens = line.tokens], p.order, p.parts, p.tool,
                     line.tokens)
        BY <1>1, ParserUpdate
      <3> DEFINE u == [p EXCEPT !.tokens = line.tokens]
      <3> HIDE DEF u
      <3>2. ParserShape(u) /\ u.tool = p.tool /\ u.tokens = line.tokens
        BY <3>1 DEF IsParser, u
      <3>3. q = IF line.type = "usage" THEN u ELSE p
        BY DEF u
      <3> HIDE DEF q
      <3>4. QED
        BY <1>1, <3>2, <3>3
    <2> HIDE DEF g, q
    <2>6. HeardAnthropic(s, n + 1, q, g)
      BY <1>1, <2>3, <2>4, <2>5, BlockStays
    <2>7. <<>> = IF line.type = "text" THEN <<line.text>> ELSE <<>>
      BY <1>6
    <2>8. QED
      BY <1>4, <2>1, <2>2, <2>5, <2>6, <2>7, Zenon DEF g
  <1>7. ASSUME line.type = "block_start"
        PROVE  Hears(s, n, fed, acc)
    <2> DEFINE block == <<[id |-> line.id, name |-> line.name, args |-> <<>>]>>
               q == [p EXCEPT !.tool = block]
               y == CloseCurrentTool(p)
    <2>1. fed.parser = q /\ fed.events = Calls(y)
      BY <1>7 DEF Anthropic, Fed
    <2> HIDE DEF y
    <2>2. Gathered(acc, fed.events) =
            [content |-> acc.content \o <<>>,
             tool_calls |-> acc.tool_calls \o y, tokens |-> 0, done |-> FALSE]
      <3>1. Gathered(acc, Calls(y)) =
              [content |-> acc.content \o <<>>,
               tool_calls |-> acc.tool_calls \o y, tokens |-> 0, done |-> FALSE]
        BY <1>1, CallsGathered, Zenon
      <3>2. QED
        BY <2>1, <3>1, Zenon
    <2> DEFINE g == Gathered(acc, fed.events)
    <2>3. g.tool_calls = acc.tool_calls \o y
      BY <2>2
    <2> HIDE DEF g
    <2>4. ParserShape(q) /\ q.tool = block /\ q.tokens = p.tokens
      <3> HIDE DEF block
      <3>1. QED
        BY <1>1, ToolUpdate, Zenon
    <2> HIDE DEF q
    <2>5. HeardAnthropic(s, n + 1, q, g)
      BY <1>1, <1>7, <2>3, <2>4, BlockStarts, Zenon DEF y
    <2>6. <<>> = IF line.type = "text" THEN <<line.text>> ELSE <<>>
      BY <1>7
    <2>7. q.tokens = IF line.type = "usage" THEN line.tokens ELSE p.tokens
      BY <1>7, <2>4
    <2>8. QED
      BY <1>4, <2>1, <2>2, <2>4, <2>5, <2>6, <2>7, Zenon DEF g
  <1>8. ASSUME line.type = "block_json"
        PROVE  Hears(s, n, fed, acc)
    <2> DEFINE tool == Grown(p.tool, line.args)
               q == [p EXCEPT !.tool = tool]
    <2>1. fed.parser = q /\ fed.events = Nothing
      BY <1>8 DEF Anthropic, Fed, Grown
    <2>2. Gathered(acc, fed.events) =
            [content |-> acc.content \o <<>>,
             tool_calls |-> acc.tool_calls \o <<>>, tokens |-> 0, done |-> FALSE]
      BY <1>1, <2>1, GatheredIs, Zenon
    <2> DEFINE g == Gathered(acc, fed.events)
    <2>3. g.tool_calls = acc.tool_calls
      BY <1>1, <2>2
    <2> HIDE DEF g
    <2>4. ParserShape(q) /\ q.tool = tool /\ q.tokens = p.tokens
      <3> HIDE DEF tool
      <3>1. QED
        BY <1>1, ToolUpdate, Zenon
    <2> HIDE DEF q
    <2>5. HeardAnthropic(s, n + 1, q, g)
      <3>1. q.tool = Grown(p.tool, s.lines[n + 1].args)
        BY <2>4, Zenon
      <3>2. QED
        BY <1>1, <1>8, <2>3, <3>1, BlockGrows
    <2>6. <<>> = IF line.type = "text" THEN <<line.text>> ELSE <<>>
      BY <1>8
    <2>7. q.tokens = IF line.type = "usage" THEN line.tokens ELSE p.tokens
      BY <1>8, <2>4
    <2>8. QED
      BY <1>4, <2>1, <2>2, <2>4, <2>5, <2>6, <2>7, Zenon DEF g
  <1>9. ASSUME line.type = "block_stop"
        PROVE  Hears(s, n, fed, acc)
    <2> DEFINE q == [p EXCEPT !.tool = <<>>]
               y == CloseCurrentTool(p)
    <2>1. fed.parser = q /\ fed.events = Calls(y)
      BY <1>9 DEF Anthropic, Fed
    <2> HIDE DEF y
    <2>2. Gathered(acc, fed.events) =
            [content |-> acc.content \o <<>>,
             tool_calls |-> acc.tool_calls \o y, tokens |-> 0, done |-> FALSE]
      <3>1. Gathered(acc, Calls(y)) =
              [content |-> acc.content \o <<>>,
               tool_calls |-> acc.tool_calls \o y, tokens |-> 0, done |-> FALSE]
        BY <1>1, CallsGathered, Zenon
      <3>2. QED
        BY <2>1, <3>1, Zenon
    <2> DEFINE g == Gathered(acc, fed.events)
    <2>3. g.tool_calls = acc.tool_calls \o y
      BY <2>2
    <2> HIDE DEF g
    <2>4. ParserShape(q) /\ q.tool = <<>> /\ q.tokens = p.tokens
      BY <1>1, ToolUpdate, Zenon
    <2> HIDE DEF q
    <2>5. HeardAnthropic(s, n + 1, q, g)
      BY <1>1, <1>9, <2>3, <2>4, BlockStops, Zenon DEF y
    <2>6. <<>> = IF line.type = "text" THEN <<line.text>> ELSE <<>>
      BY <1>9
    <2>7. q.tokens = IF line.type = "usage" THEN line.tokens ELSE p.tokens
      BY <1>9, <2>4
    <2>8. QED
      BY <1>4, <2>1, <2>2, <2>4, <2>5, <2>6, <2>7, Zenon DEF g
  <1>10. ASSUME line.type = "done"
         PROVE  Hears(s, n, fed, acc)
    <2> DEFINE b == Told(s, {"block_start"}, n)
               y == CloseCurrentTool(p)
    <2>1. fed.events = Done(y, p.tokens)
      BY <1>1, <1>10 DEF Anthropic, Fed
    <2>2. n + 1 = Len(s.lines)
      BY <1>10, DoneIsLast
    <2>3. CarriesUsage(s) /\ b = Len(s.calls) /\ (b > 0 => Complete(s, b, n))
      BY <1>10, AnthropicLine
    <2>4. p.tokens = s.tokens
      BY <1>1, <1>10, <2>2, <2>3, UsageWhole
    <2>5. acc.tool_calls \o y = Taken(s.calls, b)
      BY <1>1, <2>3, Closing
    <2>6. acc.tool_calls \o y = s.calls
      <3>1. Taken(s.calls, Len(s.calls)) = s.calls
        BY ScriptParts, TakenAll
      <3> HIDE DEF b, y
      <3>2. QED
        BY <2>3, <2>5, <3>1
    <2> HIDE DEF y
    <2>7. Whole(s, Gathered(acc, Done(y, p.tokens)))
      BY <1>10, <2>4, <2>6, HeardAll, Zenon
    <2>8. Gathered(acc, fed.events).done
      BY <2>1, <2>7 DEF Whole
    <2>9. QED
      BY <2>1, <2>7, <2>8, Zenon DEF Hears
  <1>11. line.type # "error"
    <2>1. SUFFICES ASSUME line.type = "error" PROVE FALSE
      OBVIOUS
    <2>2. fed.events = Error
      BY <2>1 DEF Anthropic, Fed
    <2>3. QED
      BY <2>2 DEF Error
  <1>12. QED
    BY <1>2, <1>5, <1>6, <1>7, <1>8, <1>9, <1>10, <1>11

-----------------------------------------------------------------------------
(* OpenAI *)

\* What is known of a line of an OpenAI stream.
LEMMA OpenAILine ==
  ASSUME NEW s \in Scripts, s.name = "openai", NEW n \in Nat, n + 1 \in 1 .. Len(s.lines)
  PROVE  LET line == s.lines[n + 1]
             k == line.args[1].call
         IN  /\ line.type \in {"text", "delta", "usage", "done", "error", "malformed"}
             /\ \A h \in 1 .. Len(s.calls) : s.calls[h].id # "" /\ IsList(s.calls[h].name)
             /\ line.type = "delta" /\ Got(s, k, n + 1) = 1 =>
                  /\ line.id = s.calls[k].id /\ line.name = s.calls[k].name
                  /\ \A h \in 1 .. k - 1 : Got(s, h, n + 1) > 0
             /\ line.type = "delta" /\ Got(s, k, n + 1) # 1 => line.name = <<>>
             /\ line.type = "done" =>
                  /\ CarriesUsage(s)
                  /\ \A h \in 1 .. Len(s.calls) : Got(s, h, n + 1) > 0 /\ Complete(s, h, n + 1)
  <1> DEFINE line == s.lines[n + 1]
             L == Len(s.lines)
             k == line.args[1].call
  <1>1. /\ IsScript(s) /\ L \in Nat /\ DOMAIN s.lines = 1 .. L
        /\ DOMAIN s.calls = 1 .. Len(s.calls) /\ n + 1 \in 1 .. L
    BY ScriptParts
  <1>2. OpenAIScript(s)
    BY <1>1 DEF IsScript
  <1>3. line.type \in {"text", "delta", "usage", "done", "error", "malformed"}
    BY <1>1, <1>2 DEF OpenAIScript
  <1>4. \A h \in 1 .. Len(s.calls) : s.calls[h].id # "" /\ IsList(s.calls[h].name)
    BY <1>1, <1>2 DEF OpenAIScript
  <1>5. ASSUME line.type = "delta"
        PROVE  IF Got(s, k, n + 1) = 1
               THEN /\ line.id = s.calls[k].id /\ line.name = s.calls[k].name
                    /\ \A h \in 1 .. k - 1 : Got(s, h, n + 1) > 0
               ELSE line.name = <<>>
    <2>1. n + 1 \in LinesOf(s, {"delta"}, L)
      BY <1>1, <1>5 DEF LinesOf
    <2>2. QED
      BY <1>2, <2>1, Zenon DEF OpenAIScript
  <1>6. ASSUME line.type = "done"
        PROVE  /\ CarriesUsage(s)
               /\ \A h \in 1 .. Len(s.calls) : Got(s, h, n + 1) > 0 /\ Complete(s, h, n + 1)
    <2>1. n + 1 = L /\ Ended(s)
      BY <1>6, DoneIsLast
    <2>2. /\ CarriesUsage(s)
          /\ \A h \in DOMAIN s.calls : Got(s, h, L) > 0
          /\ \A h \in DOMAIN s.calls : Complete(s, h, L)
      BY <1>2, <2>1, Zenon DEF OpenAIScript
    <2>3. QED
      BY <1>1, <2>1, <2>2, Zenon
  <1>7. QED
    BY <1>3, <1>4, <1>5, <1>6

\* Two deltas have one index when they are of one call.
LEMMA OpenAIIndex ==
  ASSUME NEW s \in Scripts, s.name = "openai", NEW n \in Nat, n + 1 \in 1 .. Len(s.lines),
         s.lines[n + 1].type = "delta",
         NEW i \in LinesOf(s, {"delta"}, n + 1)
  PROVE  s.lines[i].index = s.lines[n + 1].index
           <=> s.lines[i].args[1].call = s.lines[n + 1].args[1].call
  <1>1. IsScript(s) /\ Len(s.lines) \in Nat
    BY ScriptParts
  <1>2. OpenAIScript(s)
    BY <1>1 DEF IsScript
  <1>3. i \in LinesOf(s, {"delta"}, Len(s.lines))
        /\ n + 1 \in LinesOf(s, {"delta"}, Len(s.lines))
    BY <1>1 DEF LinesOf
  <1>4. QED
    BY <1>2, <1>3, Zenon DEF OpenAIScript

\* The place of a call that began is known by the index of its deltas.
LEMMA PlaceIs ==
  ASSUME NEW s \in Scripts, s.name = "openai", NEW n \in Nat, n + 1 \in 1 .. Len(s.lines),
         s.lines[n + 1].type = "delta", NEW order,
         \A i \in LinesOf(s, {"delta"}, n) :
           order[s.lines[i].args[1].call] = s.lines[i].index,
         NEW k, Got(s, k, n) > 0
  PROVE  order[k] = s.lines[n + 1].index <=> k = s.lines[n + 1].args[1].call
  <1>1. PICK i \in 1 .. n : Carries(s, k, i)
    BY GotNext
  <1>2. Len(s.lines) \in Nat /\ n \in 0 .. Len(s.lines) /\ DOMAIN s.lines = 1 .. Len(s.lines)
    BY ScriptParts
  <1>3. s.lines[i].type = "delta"
    <2>1. PICK m \in Nat : m + 1 = i
      BY <1>1
    <2>2. m + 1 \in 1 .. Len(s.lines)
      BY <1>2, <2>1
    <2>3. s.lines[m + 1].type \in {"text", "delta", "usage", "done", "error", "malformed"}
      BY <2>2, OpenAILine
    <2>4. QED
      BY <1>1, <2>1, <2>3 DEF Carries, Carriers
  <1>4. s.lines[i].args[1].call = k
    BY <1>1 DEF Carries
  <1>5. i \in LinesOf(s, {"delta"}, n) /\ i \in LinesOf(s, {"delta"}, n + 1)
    BY <1>3 DEF LinesOf
  <1>6. order[k] = s.lines[i].index
    BY <1>4, <1>5, Zenon
  <1>7. s.lines[i].index = s.lines[n + 1].index
          <=> s.lines[i].args[1].call = s.lines[n + 1].args[1].call
    BY <1>5, OpenAIIndex
  <1>8. QED
    BY <1>4, <1>6, <1>7

LEMMA AppendIs ==
  ASSUME NEW b \in Nat, NEW x, x = [k \in 1 .. b |-> x[k]], NEW e
  PROVE  LET y == Append(x, e)
         IN  /\ y = [k \in 1 .. b + 1 |-> y[k]]
             /\ \A k \in 1 .. b : y[k] = x[k]
             /\ y[b + 1] = e
  <1> DEFINE S == {x[k] : k \in 1 .. b} \cup {e}
  <1>1. \A k \in 1 .. b : x[k] \in S
    OBVIOUS
  <1>2. e \in S
    OBVIOUS
  <1> HIDE DEF S
  <1>3. x \in Seq(S) /\ Len(x) = b
    BY <1>1, ListOf
  <1>4. /\ Append(x, e) \in Seq(S) /\ Len(Append(x, e)) = b + 1
        /\ \A k \in 1 .. b : Append(x, e)[k] = x[k]
        /\ Append(x, e)[b + 1] = e
    BY <1>2, <1>3, AppendProperties
  <1> DEFINE y == Append(x, e)
  <1> HIDE DEF y
  <1>5. y = [k \in 1 .. b + 1 |-> y[k]]
    <2>1. y \in Seq(S) /\ Len(y) = b + 1
      BY <1>4 DEF y
    <2>2. QED
      BY <2>1
  <1>6. QED
    BY <1>4, <1>5 DEF y

\* The fragments of a call that had none, and of one that had some.
LEMMA FirstFragment ==
  ASSUME NEW s \in Scripts, NEW n \in Nat, n + 1 \in 1 .. Len(s.lines),
         s.lines[n + 1].type = "delta", NEW k, k = s.lines[n + 1].args[1].call,
         Got(s, k, n) = 0,
         s.lines[n + 1].id = s.calls[k].id, s.lines[n + 1].name = s.calls[k].name
  PROVE  [id |-> s.lines[n + 1].id, name |-> s.lines[n + 1].name,
          args |-> s.lines[n + 1].args] = PartOf(s, k, n + 1)
  <1> DEFINE line == s.lines[n + 1]
             N == Len(s.calls[k].args)
  <1>1. line.type \in Carriers
    BY DEF Carriers
  <1> DEFINE h == line.args[1].call
  <1>2. /\ line.args = <<Fragment(h, Got(s, h, n) + 1, Len(s.calls[h].args))>>
        /\ Got(s, h, n + 1) = Got(s, h, n) + 1
    BY <1>1, FragmentComes
  <1>3. h = k
    OBVIOUS
  <1> HIDE DEF h, line
  <1>4. line.args = <<Fragment(k, 0 + 1, N)>> /\ Got(s, k, n + 1) = 0 + 1
    BY <1>2, <1>3, Zenon
  <1>5. line.args = <<Fragment(k, 1, N)>> /\ Got(s, k, n + 1) = 1
    <2>1. 0 + 1 = 1
      OBVIOUS
    <2>2. QED
      BY <1>4, <2>1, Zenon
  <1> HIDE DEF N
  <1>6. Received(s, k, n + 1) = [m \in 1 .. 1 |-> Fragment(k, m, N)]
    BY <1>5, Zenon DEF Received, N
  <1> DEFINE e == Fragment(k, 1, N)
  <1>7. \A m \in 1 .. 1 : Fragment(k, m, N) = e
    BY OnlyOne, Zenon
  <1>8. line.args = <<e>>
    BY <1>5
  <1> HIDE DEF e
  <1>9. Received(s, k, n + 1) = [m \in 1 .. 1 |-> e]
    BY <1>6, <1>7
  <1>10. Received(s, k, n + 1) = line.args
    BY <1>8, <1>9, SingletonIs, Zenon
  <1>11. QED
    BY <1>10, Zenon DEF PartOf, line

LEMMA NextFragment ==
  ASSUME NEW s \in Scripts, NEW n \in Nat, n + 1 \in 1 .. Len(s.lines),
         s.lines[n + 1].type = "delta", NEW k, k = s.lines[n + 1].args[1].call,
         s.calls[k].id # "", IsList(s.calls[k].name), s.lines[n + 1].name = <<>>
  PROVE  Merged(PartOf(s, k, n), s.lines[n + 1]) = PartOf(s, k, n + 1)
  <1> DEFINE line == s.lines[n + 1]
             part == PartOf(s, k, n)
  <1>1. line.type \in Carriers
    BY DEF Carriers
  <1>2. Received(s, k, n) \o line.args = Received(s, k, n + 1)
    BY <1>1, FragmentComes
  <1>3. /\ part.id = s.calls[k].id /\ part.name = s.calls[k].name
        /\ part.args = Received(s, k, n)
    BY DEF PartOf
  <1>4. s.calls[k].name \o <<>> = s.calls[k].name
    BY ConcatEmptySeq DEF IsList
  <1> HIDE DEF part
  <1>5. Merged(part, line) = [id |-> s.calls[k].id, name |-> s.calls[k].name,
                              args |-> Received(s, k, n + 1)]
    BY <1>2, <1>3, <1>4 DEF Merged
  <1>6. QED
    BY <1>5, Zenon DEF PartOf, part

\* A line with a delta is one that its call has got.
LEMMA DeltaCounts ==
  ASSUME NEW s \in Scripts, NEW n \in Nat, n + 1 \in 1 .. Len(s.lines),
         NEW i \in LinesOf(s, {"delta"}, n)
  PROVE  LET h == s.lines[i].args[1].call
         IN  h \in 1 .. Len(s.calls) /\ Got(s, h, n) > 0
  <1> DEFINE h == s.lines[i].args[1].call
  <1>1. i \in 1 .. n /\ s.lines[i].type = "delta"
    BY DEF LinesOf
  <1>2. PICK m \in Nat : m + 1 = i
    BY <1>1
  <1>3. m + 1 \in 1 .. Len(s.lines) /\ m + 1 \in 0 .. n
    BY <1>1, <1>2, ScriptParts
  <1>4. s.lines[m + 1].type \in Carriers
    BY <1>1, <1>2 DEF Carriers
  <1>5. /\ h \in 1 .. Len(s.calls) /\ Got(s, h, m) \in Nat
        /\ Got(s, h, m + 1) = Got(s, h, m) + 1
    BY <1>2, <1>3, <1>4, FragmentComes
  <1>6. Got(s, h, m + 1) <= Got(s, h, n) /\ Got(s, h, n) \in Nat
    BY <1>3, GotNext
  <1>7. QED
    BY <1>5, <1>6

LEMMA DeltasNext ==
  ASSUME NEW s, NEW n \in Nat, NEW i \in LinesOf(s, {"delta"}, n + 1)
  PROVE  i \in LinesOf(s, {"delta"}, n) \/ (i = n + 1 /\ s.lines[n + 1].type = "delta")
  <1>1. i \in 1 .. n \/ i = n + 1
    BY DEF LinesOf
  <1>2. QED
    BY <1>1 DEF LinesOf

\* A delta of a call that had none begins the next call.
LEMMA DeltaBegins ==
  ASSUME NEW s \in Scripts, s.name = "openai", NEW n \in Nat, n + 1 \in 1 .. Len(s.lines),
         s.lines[n + 1].type = "delta",
         NEW order, NEW parts, NEW b \in 0 .. Len(s.calls), Begun(s, n, order, parts, b),
         Got(s, s.lines[n + 1].args[1].call, n) = 0
  PROVE  LET line == s.lines[n + 1]
         IN  /\ b + 1 \in 0 .. Len(s.calls)
             /\ \A j \in 1 .. b : order[j] # line.index
             /\ Begun(s, n + 1, Append(order, line.index),
                      Append(parts, [id |-> line.id, name |-> line.name, args |-> line.args]),
                      b + 1)
  <1> DEFINE line == s.lines[n + 1]
             k == line.args[1].call
             part == [id |-> line.id, name |-> line.name, args |-> line.args]
  <1>1. line.type \in Carriers
    BY DEF Carriers
  <1>2. /\ k \in 1 .. Len(s.calls)
        /\ Got(s, k, n) \in Nat /\ Got(s, k, n + 1) = Got(s, k, n) + 1
        /\ \A h : h # k => /\ Got(s, h, n + 1) = Got(s, h, n)
                           /\ PartOf(s, h, n + 1) = PartOf(s, h, n)
    BY <1>1, FragmentComes
  <1>3. Got(s, k, n + 1) = 1
    BY <1>2
  <1>4. /\ line.id = s.calls[k].id /\ line.name = s.calls[k].name
        /\ \A h \in 1 .. k - 1 : Got(s, h, n + 1) > 0
    BY <1>3, OpenAILine
  <1>5. part = PartOf(s, k, n + 1)
    BY <1>4, FirstFragment
  <1>6. /\ \A h \in 1 .. Len(s.calls) : Got(s, h, n) > 0 <=> h <= b
        /\ order = [h \in 1 .. b |-> order[h]]
        /\ \A i \in LinesOf(s, {"delta"}, n) :
             order[s.lines[i].args[1].call] = s.lines[i].index
        /\ parts = [h \in 1 .. b |-> PartOf(s, h, n)]
    BY Zenon DEF Begun
  <1>7. \A j \in 1 .. b : order[j] # line.index
    <2>1. SUFFICES ASSUME NEW j \in 1 .. b PROVE order[j] # line.index
      OBVIOUS
    <2>2. j \in 1 .. Len(s.calls) /\ j <= b
      BY ScriptParts
    <2>3. Got(s, j, n) > 0
      BY <1>6, <2>2
    <2>4. order[j] = line.index <=> j = k
      <3>1. \A i \in LinesOf(s, {"delta"}, n) :
              order[s.lines[i].args[1].call] = s.lines[i].index
        BY <1>6
      <3>2. order[j] = s.lines[n + 1].index <=> j = s.lines[n + 1].args[1].call
        BY <2>3, <3>1, PlaceIs, SMTT(30)
      <3>3. QED
        BY <3>2, Zenon
    <2>5. j # k
      BY <2>3
    <2>6. QED
      BY <2>4, <2>5
  <1>8. Got(s, k, n) = 0
    OBVIOUS
  <1> DEFINE C == Len(s.calls)
  <1>9. C \in Nat
    BY ScriptParts
  <1> HIDE DEF k, line, part, C
  <1>10. k = b + 1
    <2>1. ~(k <= b)
      BY <1>2, <1>6, <1>8 DEF C
    <2>2. k - 1 = 0 \/ (k - 1 \in 1 .. C /\ k - 1 \in 1 .. k - 1)
      BY <1>2, <1>9 DEF C
    <2>3. k - 1 \in 1 .. C => k - 1 <= b
      <3>1. SUFFICES ASSUME k - 1 \in 1 .. C PROVE k - 1 <= b
        OBVIOUS
      <3>2. k - 1 \in 1 .. k - 1 /\ k - 1 # k
        BY <1>2, <3>1
      <3>3. Got(s, k - 1, n + 1) > 0
        BY <1>4, <3>2
      <3>4. Got(s, k - 1, n) > 0
        BY <1>2, <3>2, <3>3
      <3>5. QED
        BY <1>6, <3>1, <3>4 DEF C
    <2>4. k - 1 <= b
      BY <1>9, <2>2, <2>3 DEF C
    <2>5. QED
      BY <1>2, <1>9, <2>1, <2>4 DEF C
  <1>11. b + 1 \in 0 .. C /\ b \in Nat
    BY <1>2, <1>9, <1>10 DEF C
  <1> DEFINE order2 == Append(order, line.index)
             parts2 == Append(parts, part)
  <1>12. /\ order2 = [h \in 1 .. b + 1 |-> order2[h]]
         /\ \A h \in 1 .. b : order2[h] = order[h]
         /\ order2[b + 1] = line.index
    BY <1>6, <1>11, AppendIs
  <1>13. \A h \in 1 .. b : parts[h] = PartOf(s, h, n)
    BY <1>6
  <1>14. parts = [h \in 1 .. b |-> parts[h]]
    BY <1>6
  <1>15. /\ parts2 = [h \in 1 .. b + 1 |-> parts2[h]]
         /\ \A h \in 1 .. b : parts2[h] = parts[h]
         /\ parts2[b + 1] = part
    BY <1>11, <1>14, AppendIs
  <1> HIDE DEF order2, parts2
  <1>16. \A h \in 1 .. C : Got(s, h, n + 1) > 0 <=> h <= b + 1
    <2>1. SUFFICES ASSUME NEW h \in 1 .. C PROVE Got(s, h, n + 1) > 0 <=> h <= b + 1
      OBVIOUS
    <2>2. CASE h = k
      BY <1>3, <1>10, <1>11, <2>2
    <2>3. CASE h # k
      <3>1. Got(s, h, n + 1) = Got(s, h, n)
        BY <1>2, <2>3
      <3>2. Got(s, h, n) > 0 <=> h <= b
        BY <1>6 DEF C
      <3>3. QED
        BY <1>10, <1>11, <2>3, <3>1, <3>2
    <2>4. QED
      BY <2>2, <2>3
  <1>17. \A i \in LinesOf(s, {"delta"}, n + 1) :
           order2[s.lines[i].args[1].call] = s.lines[i].index
    <2>1. SUFFICES ASSUME NEW i \in LinesOf(s, {"delta"}, n + 1)
                   PROVE  order2[s.lines[i].args[1].call] = s.lines[i].index
      OBVIOUS
    <2>2. CASE i = n + 1
      BY <1>10, <1>12, <2>2 DEF line, k
    <2>3. CASE i \in LinesOf(s, {"delta"}, n)
      <3> DEFINE h == s.lines[i].args[1].call
      <3>1. h \in 1 .. C /\ Got(s, h, n) > 0
        BY <2>3, DeltaCounts DEF C
      <3> HIDE DEF h
      <3>2. h \in 1 .. b
        BY <1>6, <1>9, <3>1 DEF C
      <3>3. order[h] = s.lines[i].index
        BY <1>6, <2>3 DEF h
      <3>4. QED
        BY <1>12, <3>2, <3>3 DEF h
    <2>4. QED
      BY <2>2, <2>3, DeltasNext
  <1>18. parts2 = [h \in 1 .. b + 1 |-> PartOf(s, h, n + 1)]
    <2>1. ASSUME NEW h \in 1 .. b + 1 PROVE parts2[h] = PartOf(s, h, n + 1)
      <3>1. CASE h = b + 1
        BY <1>5, <1>10, <1>15, <3>1
      <3>2. CASE h # b + 1
        <4>1. h \in 1 .. b
          BY <1>11, <3>2
        <4>2. PartOf(s, h, n + 1) = PartOf(s, h, n)
          BY <1>2, <1>10, <3>2
        <4>3. QED
          BY <1>13, <1>15, <4>1, <4>2
      <3>3. QED
        BY <3>1, <3>2
    <2>2. QED
      BY <1>15, <2>1
  <1>19. Begun(s, n + 1, order2, parts2, b + 1)
    BY <1>12, <1>16, <1>17, <1>18, Zenon DEF Begun, C
  <1>20. QED
    BY <1>7, <1>11, <1>19 DEF C, order2, parts2, part, line

\* A delta of a call that had some goes to that call.
LEMMA DeltaGoes ==
  ASSUME NEW s \in Scripts, s.name = "openai", NEW n \in Nat, n + 1 \in 1 .. Len(s.lines),
         s.lines[n + 1].type = "delta",
         NEW order, NEW parts, NEW b \in 0 .. Len(s.calls), Begun(s, n, order, parts, b),
         NEW k, k = s.lines[n + 1].args[1].call, Got(s, k, n) > 0,
         NEW parts2, parts2 = [j \in 1 .. b |-> IF j = k THEN Merged(parts[j], s.lines[n + 1])
                                                ELSE parts[j]]
  PROVE  /\ k \in 1 .. b
         /\ \A j \in 1 .. b : order[j] = s.lines[n + 1].index <=> j = k
         /\ Begun(s, n + 1, order, parts2, b)
  <1> DEFINE line == s.lines[n + 1]
             C == Len(s.calls)
  <1>1. line.type \in Carriers
    BY DEF Carriers
  <1>2. /\ k \in 1 .. C
        /\ Got(s, k, n) \in Nat /\ Got(s, k, n + 1) = Got(s, k, n) + 1
        /\ \A h : h # k => /\ Got(s, h, n + 1) = Got(s, h, n)
                           /\ PartOf(s, h, n + 1) = PartOf(s, h, n)
    <2> DEFINE m == line.args[1].call
    <2>1. /\ m \in 1 .. C
          /\ Got(s, m, n) \in Nat /\ Got(s, m, n + 1) = Got(s, m, n) + 1
          /\ \A h : h # m => /\ Got(s, h, n + 1) = Got(s, h, n)
                             /\ PartOf(s, h, n + 1) = PartOf(s, h, n)
      BY <1>1, FragmentComes
    <2>2. m = k
      OBVIOUS
    <2> HIDE DEF m, C
    <2>3. QED
      BY <2>1, <2>2, Zenon
  <1>3. C \in Nat /\ b <= C
    BY ScriptParts
  <1>4. line.name = <<>> /\ s.calls[k].id # "" /\ IsList(s.calls[k].name)
    <2>1. Got(s, k, n + 1) # 1
      BY <1>2
    <2>2. line.name = <<>>
      BY <2>1, OpenAILine
    <2>3. \A h \in 1 .. C : s.calls[h].id # "" /\ IsList(s.calls[h].name)
      BY OpenAILine
    <2>4. QED
      BY <1>2, <2>2, <2>3
  <1>5. Merged(PartOf(s, k, n), line) = PartOf(s, k, n + 1)
    BY <1>4, NextFragment
  <1>6. /\ \A h \in 1 .. C : Got(s, h, n) > 0 <=> h <= b
        /\ order = [h \in 1 .. b |-> order[h]]
        /\ \A i \in LinesOf(s, {"delta"}, n) :
             order[s.lines[i].args[1].call] = s.lines[i].index
        /\ parts = [h \in 1 .. b |-> PartOf(s, h, n)]
    BY Zenon DEF Begun
  <1> HIDE DEF C
  <1>7. k \in 1 .. b
    <2>1. Got(s, k, n) > 0 <=> k <= b
      BY <1>2, <1>6, Zenon
    <2>2. QED
      BY <1>2, <1>3, <2>1
  <1>8. \A i \in LinesOf(s, {"delta"}, n) : order[s.lines[i].args[1].call] = s.lines[i].index
    BY <1>6
  <1>9. \A j \in 1 .. b : order[j] = line.index <=> j = k
    <2>1. SUFFICES ASSUME NEW j \in 1 .. b PROVE order[j] = line.index <=> j = k
      OBVIOUS
    <2>2. j \in 1 .. C /\ j <= b
      BY <1>3
    <2>3. Got(s, j, n) > 0
      BY <1>6, <2>2
    <2>4. order[j] = line.index <=> j = line.args[1].call
      BY <1>8, <2>3, PlaceIs
    <2>5. QED
      BY <2>4
  <1>10. \A h \in 1 .. C : Got(s, h, n + 1) > 0 <=> h <= b
    <2>1. SUFFICES ASSUME NEW h \in 1 .. C PROVE Got(s, h, n + 1) > 0 <=> h <= b
      OBVIOUS
    <2>2. Got(s, h, n) > 0 <=> h <= b
      BY <1>6, Zenon
    <2>3. Got(s, h, n + 1) > 0 <=> Got(s, h, n) > 0
      <3>1. CASE h = k
        BY <1>2, <3>1
      <3>2. CASE h # k
        BY <1>2, <3>2
      <3>3. QED
        BY <3>1, <3>2
    <2>4. QED
      BY <2>2, <2>3
  <1>11. \A i \in LinesOf(s, {"delta"}, n + 1) :
           order[s.lines[i].args[1].call] = s.lines[i].index
    <2>1. SUFFICES ASSUME NEW i \in LinesOf(s, {"delta"}, n + 1)
                   PROVE  order[s.lines[i].args[1].call] = s.lines[i].index
      OBVIOUS
    <2>2. CASE i = n + 1
      BY <1>7, <1>9, <2>2
    <2>3. CASE i \in LinesOf(s, {"delta"}, n)
      BY <1>8, <2>3
    <2>4. QED
      BY <2>2, <2>3, DeltasNext
  <1>12. parts2 = [h \in 1 .. b |-> PartOf(s, h, n + 1)]
    <2>1. ASSUME NEW h \in 1 .. b
          PROVE  (IF h = k THEN Merged(parts[h], line) ELSE parts[h]) = PartOf(s, h, n + 1)
      <3>1. parts[h] = PartOf(s, h, n)
        BY <1>6
      <3>2. CASE h = k
        BY <1>5, <3>1, <3>2
      <3>3. CASE h # k
        BY <1>2, <3>1, <3>3
      <3>4. QED
        BY <3>2, <3>3
    <2>2. QED
      BY <2>1, Zenon
  <1>13. Begun(s, n + 1, order, parts2, b)
    BY <1>6, <1>10, <1>11, <1>12, Zenon DEF Begun, C
  <1>14. QED
    BY <1>7, <1>9, <1>13

\* A line without a delta changes no call.
LEMMA DeltaStays ==
  ASSUME NEW s \in Scripts, s.name = "openai", NEW n \in Nat, s.lines[n + 1].type \notin Carriers,
         NEW order, NEW parts, NEW b \in 0 .. Len(s.calls), Begun(s, n, order, parts, b)
  PROVE  Begun(s, n + 1, order, parts, b)
  <1>1. /\ \A h \in 1 .. Len(s.calls) : Got(s, h, n) > 0 <=> h <= b
        /\ order = [h \in 1 .. b |-> order[h]]
        /\ \A i \in LinesOf(s, {"delta"}, n) :
             order[s.lines[i].args[1].call] = s.lines[i].index
        /\ parts = [h \in 1 .. b |-> PartOf(s, h, n)]
    BY Zenon DEF Begun
  <1>2. \A h : Got(s, h, n + 1) = Got(s, h, n) /\ PartOf(s, h, n + 1) = PartOf(s, h, n)
    BY GotSame
  <1>3. \A h \in 1 .. Len(s.calls) : Got(s, h, n + 1) > 0 <=> h <= b
    BY <1>1, <1>2
  <1>4. \A i \in LinesOf(s, {"delta"}, n + 1) :
          order[s.lines[i].args[1].call] = s.lines[i].index
    <2>1. s.lines[n + 1].type # "delta"
      BY DEF Carriers
    <2>2. QED
      BY <1>1, <2>1, DeltasNext
  <1>5. parts = [h \in 1 .. b |-> PartOf(s, h, n + 1)]
    <2>1. [h \in 1 .. b |-> PartOf(s, h, n + 1)] = [h \in 1 .. b |-> PartOf(s, h, n)]
      BY <1>2, Zenon
    <2>2. QED
      BY <1>1, <2>1, Zenon
  <1>6. QED
    BY <1>1, <1>3, <1>4, <1>5, Zenon DEF Begun

LEMMA DeltaHeard ==
  ASSUME NEW s \in Scripts, s.name = "openai", NEW n \in Nat, n + 1 \in 1 .. Len(s.lines),
         s.lines[n + 1].type = "delta", NEW p, ParserShape(p), NEW acc,
         HeardOpenAI(s, n, p, acc), NEW g, g.tool_calls = <<>>
  PROVE  LET q == AccumulateToolDelta(p, s.lines[n + 1])
         IN  ParserShape(q) /\ q.tokens = p.tokens /\ HeardOpenAI(s, n + 1, q, g)
  <1> DEFINE line == s.lines[n + 1]
             q == AccumulateToolDelta(p, line)
             k == line.args[1].call
  <1>1. PICK b \in 0 .. Len(s.calls) : Begun(s, n, p.order, p.parts, b)
    BY DEF HeardOpenAI
  <1>2. line.type \in Carriers
    BY DEF Carriers
  <1>3. k \in 1 .. Len(s.calls) /\ Got(s, k, n) \in Nat
    BY <1>2, FragmentComes
  <1>4. DOMAIN p.order = 1 .. b /\ DOMAIN p.parts = 1 .. b
    BY <1>1 DEF Begun
  <1>5. CASE Got(s, k, n) = 0
    <2> DEFINE order2 == Append(p.order, line.index)
               parts2 == Append(p.parts, [id |-> line.id, name |-> line.name,
                                          args |-> line.args])
    <2>1. /\ b + 1 \in 0 .. Len(s.calls)
          /\ \A j \in 1 .. b : p.order[j] # line.index
          /\ Begun(s, n + 1, order2, parts2, b + 1)
      BY <1>1, <1>5, DeltaBegins
    <2>2. Place(p, line) = {}
      BY <1>4, <2>1 DEF Place
    <2>3. q = [p EXCEPT !.order = order2, !.parts = parts2]
      BY <2>2, Zenon DEF AccumulateToolDelta
    <2> HIDE DEF order2, parts2, q
    <2>4. IsParser([p EXCEPT !.order = order2, !.parts = parts2], order2, parts2, p.tool,
                   p.tokens)
      BY ParserUpdate
    <2>5. IsParser(q, order2, parts2, p.tool, p.tokens)
      BY <2>3, <2>4, Zenon
    <2>6. /\ ParserShape(q) /\ q.order = order2 /\ q.parts = parts2
          /\ q.tokens = p.tokens
      BY <2>5, Zenon DEF IsParser
    <2>7. HeardOpenAI(s, n + 1, q, g)
      BY <2>1, <2>6, Zenon DEF HeardOpenAI
    <2>8. QED
      BY <2>6, <2>7 DEF q
  <1>6. CASE Got(s, k, n) > 0
    <2> DEFINE parts2 == [j \in 1 .. b |-> IF j = k THEN Merged(p.parts[j], line)
                                           ELSE p.parts[j]]
    <2>1. /\ k \in 1 .. b
          /\ \A j \in 1 .. b : p.order[j] = line.index <=> j = k
          /\ Begun(s, n + 1, p.order, parts2, b)
      BY <1>1, <1>6, DeltaGoes
    <2>2. Place(p, line) = {k}
      <3> HIDE DEF k, line, parts2
      <3>1. Place(p, line) = {j \in 1 .. b : p.order[j] = line.index}
        BY <1>4 DEF Place
      <3>2. QED
        BY <2>1, <3>1
    <2>3. q = [p EXCEPT !.parts = parts2]
      <3> DEFINE X == [j \in DOMAIN p.parts |-> IF j \in Place(p, line)
                                                THEN Merged(p.parts[j], line) ELSE p.parts[j]]
      <3>1. q = [p EXCEPT !.parts = X]
        BY <2>2, Zenon DEF AccumulateToolDelta
      <3>2. X = parts2
        BY <1>4, <2>2
      <3>3. QED
        BY <3>1, <3>2, Zenon
    <2> HIDE DEF parts2, q
    <2>4. IsParser([p EXCEPT !.parts = parts2], p.order, parts2, p.tool, p.tokens)
      BY ParserUpdate
    <2>5. IsParser(q, p.order, parts2, p.tool, p.tokens)
      BY <2>3, <2>4, Zenon
    <2>6. /\ ParserShape(q) /\ q.order = p.order /\ q.parts = parts2
          /\ q.tokens = p.tokens
      BY <2>5, Zenon DEF IsParser
    <2>7. HeardOpenAI(s, n + 1, q, g)
      BY <1>1, <2>1, <2>6, Zenon DEF HeardOpenAI
    <2>8. QED
      BY <2>6, <2>7 DEF q
  <1>7. QED
    BY <1>3, <1>5, <1>6

\* At the end marker what is emitted is all the calls.
LEMMA CallsFinished ==
  ASSUME NEW s \in Scripts, s.name = "openai", NEW n \in Nat, n + 1 \in 1 .. Len(s.lines),
         s.lines[n + 1].type = "done", NEW p, NEW acc, HeardOpenAI(s, n, p, acc)
  PROVE  [k \in DOMAIN p.order |->
            Call(IF p.parts[k].id = "" THEN "call" ELSE p.parts[k].id,
                 p.parts[k].name, p.parts[k].args)] = s.calls
  <1> DEFINE C == Len(s.calls)
             x == [k \in DOMAIN p.order |->
                     Call(IF p.parts[k].id = "" THEN "call" ELSE p.parts[k].id,
                          p.parts[k].name, p.parts[k].args)]
  <1>1. PICK b \in 0 .. C : Begun(s, n, p.order, p.parts, b)
    BY DEF HeardOpenAI
  <1>2. C \in Nat /\ s.calls \in Seq(Range(s.calls))
    BY ScriptParts
  <1>3. s.lines[n + 1].type \notin Carriers
    BY DEF Carriers
  <1>4. \A h \in 1 .. C : Got(s, h, n) > 0 /\ Complete(s, h, n) /\ s.calls[h].id # ""
    <2>1. \A h \in 1 .. C : Got(s, h, n + 1) > 0 /\ Complete(s, h, n + 1) /\ s.calls[h].id # ""
      BY OpenAILine
    <2>2. \A h : Got(s, h, n + 1) = Got(s, h, n) /\ (Complete(s, h, n + 1) <=> Complete(s, h, n))
      BY <1>3, GotSame
    <2>3. QED
      BY <2>1, <2>2
  <1>5. /\ \A h \in 1 .. C : Got(s, h, n) > 0 <=> h <= b
        /\ p.order = [h \in 1 .. b |-> p.order[h]]
        /\ p.parts = [h \in 1 .. b |-> PartOf(s, h, n)]
    BY <1>1, Zenon DEF Begun
  <1>6. b = C
    <2> HIDE DEF C
    <2>1. C > 0 => C <= b
      <3>1. SUFFICES ASSUME C > 0 PROVE C <= b
        OBVIOUS
      <3>2. C \in 1 .. C
        BY <1>2, <3>1
      <3>3. QED
        BY <1>4, <1>5, <3>2, Zenon
    <2>2. QED
      BY <1>2, <2>1
  <1>7. DOMAIN p.order = 1 .. C /\ \A h \in 1 .. C : p.parts[h] = PartOf(s, h, n)
    BY <1>5, <1>6
  <1>8. ASSUME NEW h \in 1 .. C
        PROVE  Call(IF p.parts[h].id = "" THEN "call" ELSE p.parts[h].id,
                    p.parts[h].name, p.parts[h].args) = s.calls[h]
    <2> DEFINE part == PartOf(s, h, n)
    <2>1. p.parts[h] = part
      BY <1>7
    <2>2. part.id = s.calls[h].id
      BY DEF PartOf
    <2>3. Call(part.id, part.name, part.args) = s.calls[h]
      BY <1>4, CallWhole
    <2> HIDE DEF part
    <2>4. (IF part.id = "" THEN "call" ELSE part.id) = part.id
      BY <1>4, <2>2
    <2>5. QED
      BY <2>1, <2>3, <2>4, Zenon
  <1>9. x = [h \in 1 .. C |-> s.calls[h]]
    BY <1>7, <1>8, Zenon
  <1>10. s.calls = [h \in 1 .. C |-> s.calls[h]]
    BY <1>2
  <1>11. QED
    BY <1>9, <1>10, Zenon

LEMMA OpenAIHears ==
  ASSUME NEW s \in Scripts, s.name = "openai", NEW n \in Nat,
         n + 1 \in 1 .. Len(s.lines), NEW p, NEW acc, Heard(s, n, p, acc),
         NEW fed, fed = OpenAI(p, s.lines[n + 1]), ~fed.events.error
  PROVE  Hears(s, n, fed, acc)
  <1> DEFINE line == s.lines[n + 1]
  <1>1. /\ ParserShape(p) /\ acc.tokens = 0 /\ p.done = FALSE
        /\ acc.content \o <<>> = acc.content /\ acc.tool_calls \o <<>> = acc.tool_calls
        /\ HeardOpenAI(s, n, p, acc) /\ HeardUsage(s, n, p)
    <2>1. n \in 0 .. Len(s.lines)
      BY ScriptParts
    <2>2. ParserShape(p) /\ PartialShape(acc) /\ HeardOpenAI(s, n, p, acc)
          /\ HeardUsage(s, n, p)
      BY Zenon DEF Heard
    <2>3. acc.content \o <<>> = acc.content /\ acc.tool_calls \o <<>> = acc.tool_calls
      BY <2>1, HeardParts
    <2>4. acc.tokens = 0
      BY <2>2 DEF PartialShape
    <2>5. QED
      BY <2>2, <2>3, <2>4 DEF ParserShape
  <1>2. line.type \in {"text", "delta", "usage", "done", "error", "malformed"}
    BY OpenAILine
  <1>3. s.name # "anthropic" /\ s.name # "ollama"
    OBVIOUS
  <1>4. PICK b \in 0 .. Len(s.calls) : Begun(s, n, p.order, p.parts, b)
    BY <1>1 DEF HeardOpenAI
  <1>5. acc.tool_calls = <<>>
    BY <1>1 DEF HeardOpenAI
  \* What remains of a line that does not end the stream.
  <1>6. ASSUME NEW q, ParserShape(q),
               q.tokens = IF line.type = "usage" THEN line.tokens ELSE p.tokens,
               NEW texts,
               texts = IF line.type = "text" THEN <<line.text>> ELSE <<>>,
               fed.parser = q,
               Gathered(acc, fed.events) =
                 [content |-> acc.content \o texts, tool_calls |-> acc.tool_calls \o <<>>,
                  tokens |-> 0, done |-> FALSE],
               HeardOpenAI(s, n + 1, q, Gathered(acc, fed.events))
        PROVE  Hears(s, n, fed, acc)
    <2> DEFINE g == Gathered(acc, fed.events)
    <2>1. g.done = FALSE
      BY <1>6
    <2> HIDE DEF g
    <2>2. g = [content |-> acc.content \o texts, tool_calls |-> acc.tool_calls \o <<>>,
               tokens |-> 0, done |-> FALSE]
          /\ HeardOpenAI(s, n + 1, q, g)
      BY <1>6 DEF g
    <2>3. Heard(s, n + 1, q, g)
      BY <1>3, <1>6, <2>2, HeardMore, Zenon
    <2>4. QED
      BY <1>6, <2>1, <2>3, Zenon DEF Hears, g
  <1>7. ASSUME NEW q, q.order = p.order, q.parts = p.parts, line.type \notin Carriers,
               NEW g, g.tool_calls = <<>>
        PROVE  HeardOpenAI(s, n + 1, q, g)
    <2>1. Begun(s, n + 1, p.order, p.parts, b)
      BY <1>4, <1>7, DeltaStays
    <2>2. QED
      BY <1>7, <2>1 DEF HeardOpenAI
  <1>8. ASSUME line.type = "text"
        PROVE  Hears(s, n, fed, acc)
    <2>1. fed.parser = p /\ fed.events = Token(line.text)
      BY <1>8 DEF OpenAI, Fed
    <2>2. Gathered(acc, fed.events) =
            [content |-> acc.content \o <<line.text>>,
             tool_calls |-> acc.tool_calls \o <<>>, tokens |-> 0, done |-> FALSE]
      BY <1>1, <2>1, GatheredIs, Zenon
    <2> DEFINE g == Gathered(acc, fed.events)
    <2>3. g.tool_calls = <<>>
      BY <1>1, <1>5, <2>2
    <2>4. line.type \notin Carriers
      BY <1>8 DEF Carriers
    <2> HIDE DEF g
    <2>5. HeardOpenAI(s, n + 1, p, g)
      BY <1>7, <2>3, <2>4, Zenon
    <2>6. <<line.text>> = IF line.type = "text" THEN <<line.text>> ELSE <<>>
      BY <1>8
    <2>7. p.tokens = IF line.type = "usage" THEN line.tokens ELSE p.tokens
      BY <1>8
    <2>8. QED
      BY <1>1, <1>6, <2>1, <2>2, <2>5, <2>6, <2>7, Zenon DEF g
  <1>9. ASSUME line.type \in {"usage", "malformed"}
        PROVE  Hears(s, n, fed, acc)
    <2> DEFINE q == IF line.type = "usage" THEN [p EXCEPT !.tokens = line.tokens] ELSE p
    <2>1. fed.parser = q /\ fed.events = Nothing
      BY <1>9 DEF OpenAI, Fed
    <2>2. Gathered(acc, fed.events) =
            [content |-> acc.content \o <<>>,
             tool_calls |-> acc.tool_calls \o <<>>, tokens |-> 0, done |-> FALSE]
      BY <1>1, <2>1, GatheredIs, Zenon
    <2> DEFINE g == Gathered(acc, fed.events)
    <2>3. g.tool_calls = <<>>
      BY <1>1, <1>5, <2>2
    <2>4. line.type \notin Carriers
      BY <1>9 DEF Carriers
    <2>5. /\ ParserShape(q) /\ q.order = p.order /\ q.parts = p.parts
          /\ q.tokens = IF line.type = "usage" THEN line.tokens ELSE p.tokens
      <3>1. IsParser([p EXCEPT !.tokens = line.tokens], p.order, p.parts, p.tool,
                     line.tokens)
        BY <1>1, ParserUpdate
      <3> DEFINE u == [p EXCEPT !.tokens = line.tokens]
      <3> HIDE DEF u
      <3>2. ParserShape(u) /\ u.order = p.order /\ u.parts = p.parts /\ u.tokens = line.tokens
        BY <3>1 DEF IsParser, u
      <3>3. q = IF line.type = "usage" THEN u ELSE p
        BY DEF u
      <3> HIDE DEF q
      <3>4. QED
        BY <1>1, <3>2, <3>3
    <2> HIDE DEF g, q
    <2>6. HeardOpenAI(s, n + 1, q, g)
      BY <1>7, <2>3, <2>4, <2>5, Zenon
    <2>7. <<>> = IF line.type = "text" THEN <<line.text>> ELSE <<>>
      BY <1>9
    <2>8. QED
      BY <1>6, <2>1, <2>2, <2>5, <2>6, <2>7, Zenon DEF g
  <1>10. ASSUME line.type = "delta"
         PROVE  Hears(s, n, fed, acc)
    <2> DEFINE q == AccumulateToolDelta(p, line)
    <2>1. fed.parser = q /\ fed.events = Nothing
      BY <1>10 DEF OpenAI, Fed
    <2>2. Gathered(acc, fed.events) =
            [content |-> acc.content \o <<>>,
             tool_calls |-> acc.tool_calls \o <<>>, tokens |-> 0, done |-> FALSE]
      BY <1>1, <2>1, GatheredIs, Zenon
    <2> DEFINE g == Gathered(acc, fed.events)
    <2>3. g.tool_calls = <<>>
      BY <1>1, <1>5, <2>2
    <2> HIDE DEF g
    <2>4. ParserShape(q) /\ q.tokens = p.tokens /\ HeardOpenAI(s, n + 1, q, g)
      BY <1>1, <1>10, <2>3, DeltaHeard
    <2> HIDE DEF q
    <2>5. <<>> = IF line.type = "text" THEN <<line.text>> ELSE <<>>
      BY <1>10
    <2>6. q.tokens = IF line.type = "usage" THEN line.tokens ELSE p.tokens
      BY <1>10, <2>4
    <2>7. QED
      BY <1>6, <2>1, <2>2, <2>4, <2>5, <2>6, Zenon DEF g
  <1>11. ASSUME line.type = "done"
         PROVE  Hears(s, n, fed, acc)
    <2> DEFINE y == [k \in DOMAIN p.order |->
                       Call(IF p.parts[k].id = "" THEN "call" ELSE p.parts[k].id,
                            p.parts[k].name, p.parts[k].args)]
    <2>1. fed.events = Done(y, p.tokens)
      BY <1>1, <1>11 DEF OpenAI, OpenAIFinish, Fed
    <2>2. y = s.calls
      BY <1>1, <1>11, CallsFinished
    <2>3. n + 1 = Len(s.lines)
      BY <1>11, DoneIsLast
    <2>4. CarriesUsage(s)
      BY <1>11, OpenAILine
    <2>5. p.tokens = s.tokens
      BY <1>1, <1>11, <2>3, <2>4, UsageWhole
    <2> HIDE DEF y
    <2>6. acc.tool_calls \o y = s.calls
      <3>1. s.calls \in Seq(Range(s.calls))
        BY ScriptParts
      <3>2. <<>> \o s.calls = s.calls
        BY <3>1, ConcatEmptySeq
      <3>3. QED
        BY <1>5, <2>2, <3>2
    <2>7. Whole(s, Gathered(acc, Done(y, p.tokens)))
      BY <1>11, <2>5, <2>6, HeardAll, Zenon
    <2>8. Gathered(acc, fed.events).done
      BY <2>1, <2>7 DEF Whole
    <2>9. QED
      BY <2>1, <2>7, <2>8, Zenon DEF Hears
  <1>12. line.type # "error"
    <2>1. SUFFICES ASSUME line.type = "error" PROVE FALSE
      OBVIOUS
    <2>2. fed.events = Error
      BY <2>1 DEF OpenAI, Fed
    <2>3. QED
      BY <2>2 DEF Error
  <1>13. QED
    BY <1>2, <1>8, <1>9, <1>10, <1>11, <1>12

-----------------------------------------------------------------------------
(* The stream of the driver that is asked *)

\* What a line of the driver's stream leaves, whichever the protocol is.
LEMMA LineHeard ==
  ASSUME NEW s \in Scripts, Head(ranked).name = s.name, NEW n \in Nat,
         n + 1 \in 1 .. Len(s.lines), NEW p, NEW acc, Heard(s, n, p, acc),
         NEW fed, fed = Feed(p, s.lines[n + 1]), ~fed.events.error
  PROVE  Hears(s, n, fed, acc)
  <1>1. s.name \in Protocols
    BY ScriptParts DEF IsScript
  <1>2. CASE s.name = "openai"
    <2>1. fed = OpenAI(p, s.lines[n + 1])
      BY <1>2 DEF Feed
    <2>2. QED
      BY <1>2, <2>1, OpenAIHears
  <1>3. CASE s.name = "anthropic"
    <2>1. fed = Anthropic(p, s.lines[n + 1])
      BY <1>3 DEF Feed
    <2>2. QED
      BY <1>3, <2>1, AnthropicHears
  <1>4. CASE s.name = "ollama"
    <2>1. fed = Ollama(p, s.lines[n + 1])
      BY <1>4 DEF Feed
    <2>2. QED
      BY <1>4, <2>1, OllamaHears
  <1>5. QED
    BY <1>1, <1>2, <1>3, <1>4 DEF Protocols

\* Text that is no line of the protocol changes nothing.
LEMMA MalformedHeard ==
  ASSUME NEW s \in Scripts, Head(ranked).name = s.name, NEW n \in 0 .. Len(s.lines),
         NEW p, NEW acc, Heard(s, n, p, acc)
  PROVE  LET fed == Feed(p, Malformed)
         IN  ~fed.events.error /\ fed.parser = p /\ Gathered(acc, fed.events) = acc
             /\ ~acc.done
  <1> DEFINE fed == Feed(p, Malformed)
  <1>1. s.name \in Protocols
    BY ScriptParts DEF IsScript
  <1>2. Malformed.type = "malformed"
    BY DEF Malformed
  <1> DEFINE line == Malformed
  <1> HIDE DEF line
  <1>3. line.type = "malformed"
    BY <1>2 DEF line
  <1>4. /\ OpenAI(p, line) = Fed(p, Nothing)
        /\ Anthropic(p, line) = Fed(p, Nothing)
        /\ Ollama(p, line) = Fed(p, Nothing)
    BY <1>3 DEF OpenAI, Anthropic, Ollama
  <1>5. fed = Fed(p, Nothing)
    BY <1>1, <1>4 DEF Feed, Protocols, line
  <1>6. fed.parser = p /\ fed.events = Nothing
    BY <1>5 DEF Fed
  <1>7. acc = [content |-> acc.content, tool_calls |-> acc.tool_calls, tokens |-> 0,
               done |-> FALSE]
    BY Zenon DEF Heard, PartialShape
  <1>8. acc.tokens = 0 /\ acc.done = FALSE
    BY <1>7
  <1>9. Gathered(acc, Nothing) =
          [content |-> acc.content \o <<>>, tool_calls |-> acc.tool_calls \o <<>>,
           tokens |-> acc.tokens, done |-> FALSE]
        /\ ~Nothing.error
    BY GatheredIs, Zenon
  <1>10. acc.content \o <<>> = acc.content /\ acc.tool_calls \o <<>> = acc.tool_calls
    BY HeardParts
  <1>11. Gathered(acc, Nothing) = acc
    BY <1>7, <1>8, <1>9, <1>10, Zenon
  <1>12. QED
    BY <1>6, <1>8, <1>9, <1>11, Zenon

\* Before its first line, nothing was heard of a stream.
LEMMA NothingHeard ==
  ASSUME NEW s \in Scripts
  PROVE  Heard(s, 0, NoParser, NoPartial)
  <1>1. IsScript(s) /\ Len(s.lines) \in Nat /\ Len(s.texts) \in Nat /\ Len(s.calls) \in Nat
        /\ s.texts \in Seq(Range(s.texts)) /\ s.calls \in Seq(Range(s.calls))
    BY ScriptParts
  <1>2. \A types : LinesOf(s, types, 0) = {}
    BY DEF LinesOf
  <1>3. \A types : Told(s, types, 0) = 0
    BY <1>2, FS_EmptySet DEF Told
  <1>4. Taken(s.texts, 0) = <<>> /\ Taken(s.calls, 0) = <<>>
    BY <1>1, TakenAll
  <1>5. ParserShape(NoParser) /\ NoParser.order = <<>> /\ NoParser.parts = <<>>
        /\ NoParser.tool = <<>> /\ NoParser.tokens = 0
    BY DEF NoParser, ParserShape
  <1>6. PartialShape(NoPartial) /\ NoPartial.content = <<>> /\ NoPartial.tool_calls = <<>>
    BY DEF NoPartial, PartialShape
  <1> DEFINE p == NoParser
             acc == NoPartial
  <1> HIDE DEF p, acc
  <1>7. HeardUsage(s, 0, p)
    BY <1>2, <1>5 DEF HeardUsage, p
  <1>8. ASSUME s.name = "openai"
        PROVE  HeardOpenAI(s, 0, p, acc)
    <2>1. \A k \in 1 .. Len(s.calls) : Got(s, k, 0) > 0 <=> k <= 0
      <3>1. \A k : Got(s, k, 0) = 0
        BY GotNext
      <3>2. QED
        BY <1>1, <3>1
    <2>2. p.order = [k \in 1 .. 0 |-> p.order[k]]
      BY <1>5 DEF p
    <2>3. p.parts = [k \in 1 .. 0 |-> PartOf(s, k, 0)]
      BY <1>5 DEF p
    <2>4. Begun(s, 0, p.order, p.parts, 0)
      BY <1>2, <2>1, <2>2, <2>3 DEF Begun
    <2>5. 0 \in 0 .. Len(s.calls)
      BY <1>1
    <2>6. QED
      BY <1>6, <2>4, <2>5 DEF HeardOpenAI, acc
  <1>9. ASSUME s.name = "anthropic"
        PROVE  HeardAnthropic(s, 0, p, acc)
    <2> DEFINE b == Told(s, {"block_start"}, 0)
    <2>1. b = 0
      BY <1>3
    <2> HIDE DEF b
    <2>2. /\ b <= Len(s.calls)
          /\ /\ p.tool = <<>>
             /\ b > 0 => Complete(s, b, 0)
             /\ acc.tool_calls = Taken(s.calls, b)
      BY <1>1, <1>4, <1>5, <1>6, <2>1 DEF p, acc
    <2>3. QED
      BY <2>2, Zenon DEF HeardAnthropic, b
  <1>10. ASSUME s.name = "ollama"
         PROVE  HeardOllama(s, 0, acc)
    <2>1. PICK sent \in [0 .. Len(s.lines) -> 0 .. Len(s.calls)] : SentBy(s, sent)
      BY <1>1, <1>10 DEF IsScript, OllamaScript
    <2>2. sent[0] = 0
      BY <2>1 DEF SentBy
    <2>3. acc.tool_calls = Taken(s.calls, sent[0])
      BY <1>4, <1>6, <2>2 DEF acc
    <2>4. QED
      BY <2>1, <2>3, Zenon DEF HeardOllama
  <1>11. acc.content = Taken(s.texts, Told(s, {"text"}, 0))
    <2> DEFINE b == Told(s, {"text"}, 0)
    <2>1. b = 0
      BY <1>3
    <2> HIDE DEF b
    <2>2. acc.content = Taken(s.texts, b)
      BY <1>4, <1>6, <2>1 DEF acc
    <2>3. QED
      BY <2>2 DEF b
  <1>12. ParserShape(p) /\ PartialShape(acc)
    BY <1>5, <1>6 DEF p, acc
  <1>13. Heard(s, 0, p, acc)
    BY <1>7, <1>8, <1>9, <1>10, <1>11, <1>12, Zenon DEF Heard
  <1>14. QED
    BY <1>13 DEF p, acc

\* The three forms a state has: reading a stream, having read it, and before it.
LEMMA InStream ==
  ASSUME NEW s \in Scripts, script' = s, answer' = NoAnswer,
         ranked' # <<>>, s.name = Head(ranked').name,
         NEW n \in 0 .. Len(s.lines), Fits(s, n)', Heard(s, n, parser', partial')
  PROVE  StreamInv'
  <1>1. s # NoScript
    BY ScriptParts
  <1>2. Fits(script, n)'
    BY Zenon DEF Fits, Aligned
  <1>3. Heard(script, n, parser, partial)'
    BY Zenon
  <1>4. n \in 0 .. Len(script'.lines)
    OBVIOUS
  <1>5. \E m \in 0 .. Len(script'.lines) : Fits(script, m)' /\ Heard(script, m, parser, partial)'
    BY <1>2, <1>3, <1>4, Zenon
  <1>6. answer'.status = "Waiting" /\ answer' \in {NoAnswer, Failure}
    BY DEF NoAnswer
  <1>7. QED
    BY <1>1, <1>5, <1>6 DEF StreamInv

LEMMA AfterStream ==
  ASSUME NEW s \in Scripts, script' = s,
         answer' = [status |-> "Answered", content |-> partial'.content,
                    tool_calls |-> partial'.tool_calls, tokens |-> partial'.tokens],
         Whole(s, partial') \/ \E n \in 0 .. Len(s.lines) : Heard(s, n, parser', partial')
  PROVE  StreamInv'
  <1>1. s # NoScript
    BY ScriptParts
  <1>2. answer'.status = "Answered"
    OBVIOUS
  <1>3. answer' # NoAnswer
    BY <1>2 DEF NoAnswer
  <1>4. Whole(script, partial)'
        \/ \E n \in 0 .. Len(script'.lines) : Heard(script, n, parser, partial)'
    BY Zenon
  <1>5. QED
    BY <1>1, <1>2, <1>3, <1>4, Zenon DEF StreamInv

LEMMA NoStream ==
  ASSUME script' = NoScript, Pristine', answer' \in {NoAnswer, Failure}
  PROVE  StreamInv'
  <1>1. answer'.status # "Answered"
    BY DEF NoAnswer, Failure
  <1>2. QED
    BY <1>1 DEF StreamInv

LEMMA StreamInvInit ==
  ASSUME LlmInit
  PROVE  StreamInv
  <1>1. script = NoScript /\ Pristine /\ answer = NoAnswer
    BY DEF LlmInit, Pristine
  <1>2. answer.status # "Answered"
    BY <1>1 DEF NoAnswer
  <1>3. QED
    BY <1>1, <1>2 DEF StreamInv

LEMMA NextDriverKeepsStream ==
  ASSUME answer = NoAnswer, NextDriver
  PROVE  StreamInv'
  <1>1. script' = NoScript /\ Pristine' /\ answer' = NoAnswer
    BY Zenon DEF NextDriver, Pristine
  <1>2. QED
    BY <1>1, NoStream

\* What is known while a stream is read.
LEMMA ReadingParts ==
  ASSUME StreamInv, Reading
  PROVE  /\ answer = NoAnswer /\ script \in Scripts /\ Len(script.lines) \in Nat
         /\ ranked # <<>> /\ Head(ranked).name = script.name
         /\ \E n \in 0 .. Len(script.lines) :
              Fits(script, n) /\ Heard(script, n, parser, partial)
  <1>1. answer = NoAnswer /\ script # NoScript
    BY DEF Reading, Asking
  <1>2. script \in Scripts
    BY <1>1 DEF StreamInv
  <1>3. Len(script.lines) \in Nat
    BY <1>2, ScriptParts
  <1>4. QED
    BY <1>1, <1>2, <1>3 DEF StreamInv

\* A line of the stream, the n + 1-st, goes through the parser.
LEMMA TakeKeepsStream ==
  ASSUME StreamInv, Reading, NEW pieces, Take(pieces),
         NEW n \in Nat, n + 1 \in 1 .. Len(script.lines),
         Heard(script, n, parser, partial), Text(pieces) = script.lines[n + 1],
         NEW s \in Scripts, s = script, Fits(s, n + 1)' \/ NextDriver
  PROVE  StreamInv'
  <1>1. /\ answer = NoAnswer /\ ranked # <<>> /\ Head(ranked).name = s.name
    BY ReadingParts
  <1> DEFINE fed == Feed(parser, Text(pieces))
             gathered == Gathered(partial, fed.events)
  <1>2. IF fed.events.error THEN NextDriver
        ELSE /\ parser' = fed.parser
             /\ IF gathered.done THEN Answered(gathered)
                ELSE partial' = gathered /\ UNCHANGED <<attempts, answer>>
             /\ UNCHANGED <<request, ranked, script, wire, finished>>
    BY Zenon DEF Take
  <1>3. ~fed.events.error => Hears(s, n, fed, partial)
    <2>1. fed = Feed(parser, s.lines[n + 1])
      BY Zenon
    <2> HIDE DEF fed
    <2>2. QED
      BY <1>1, <2>1, LineHeard
  <1>4. ~fed.events.error =>
          IF gathered.done THEN Whole(s, gathered)
          ELSE Heard(s, n + 1, fed.parser, gathered)
    BY <1>3, Zenon DEF Hears
  <1> HIDE DEF fed, gathered
  <1>5. CASE NextDriver
    BY <1>1, <1>5, NextDriverKeepsStream
  <1>6. CASE ~fed.events.error /\ gathered.done
    <2>1. Answered(gathered) /\ script' = s
      BY <1>2, <1>6
    <2>2. partial' = gathered
          /\ answer' = [status |-> "Answered", content |-> gathered.content,
                        tool_calls |-> gathered.tool_calls, tokens |-> gathered.tokens]
      BY <2>1, Zenon DEF Answered
    <2>3. Whole(s, partial')
      BY <1>4, <1>6, <2>2
    <2>4. answer' = [status |-> "Answered", content |-> partial'.content,
                     tool_calls |-> partial'.tool_calls, tokens |-> partial'.tokens]
      BY <2>2, Zenon
    <2>5. QED
      BY <2>1, <2>3, <2>4, AfterStream
  <1>7. CASE ~fed.events.error /\ ~gathered.done /\ ~NextDriver
    <2>1. /\ parser' = fed.parser /\ partial' = gathered /\ answer' = answer
          /\ ranked' = ranked /\ script' = s
      BY <1>2, <1>7
    <2>2. Heard(s, n + 1, parser', partial')
      BY <1>4, <1>7, <2>1
    <2>3. n + 1 \in 0 .. Len(s.lines)
      BY ScriptParts
    <2>4. answer' = NoAnswer /\ ranked' # <<>> /\ s.name = Head(ranked').name
      BY <1>1, <2>1
    <2>5. Fits(s, n + 1)'
      BY <1>7
    <2>6. QED
      BY <2>1, <2>2, <2>3, <2>4, <2>5, InStream
  <1>8. QED
    BY <1>2, <1>5, <1>6, <1>7

LEMMA StreamInvNext ==
  ASSUME StreamInv, [LlmNext]_llm_vars
  PROVE  StreamInv'
  <1>1. CASE NoDriver
    <2>1. /\ answer = NoAnswer /\ ranked = <<>> /\ answer' = Failure
          /\ UNCHANGED <<script, lines, buffer, finished, parser, partial>>
      BY <1>1, Zenon DEF NoDriver
    <2>2. script = NoScript
      BY <2>1 DEF StreamInv
    <2>3. Pristine
      BY <2>2 DEF StreamInv
    <2>4. script' = NoScript /\ Pristine' /\ answer' \in {NoAnswer, Failure}
      BY <2>1, <2>2, <2>3 DEF Pristine
    <2>5. QED
      BY <2>4, NoStream
  <1>2. CASE Connect
    <2>1. PICK s \in Scripts :
            /\ s.name = Head(ranked).name
            /\ script' = s
            /\ wire' = PiecesOf(Len(s.lines))
      BY <1>2 DEF Connect
    <2>2. /\ answer = NoAnswer /\ ranked # <<>> /\ script = NoScript
          /\ UNCHANGED <<ranked, buffer, lines, parser, partial, answer>>
      BY <1>2, Zenon DEF Connect, Asking
    <2>3. Pristine
      BY <2>2 DEF StreamInv
    <2>4. lines' = <<>> /\ buffer' = <<>> /\ parser' = NoParser /\ partial' = NoPartial
      BY <2>2, <2>3 DEF Pristine
    <2>5. Len(s.lines) \in Nat
      BY ScriptParts
    <2>6. Fits(s, 0)'
      BY <2>1, <2>4, <2>5, ConnectFits
    <2>7. Heard(s, 0, parser', partial')
      BY <2>4, NothingHeard, Zenon
    <2>8. 0 \in 0 .. Len(s.lines)
      BY <2>5
    <2>9. answer' = NoAnswer /\ ranked' # <<>> /\ s.name = Head(ranked').name
      BY <2>1, <2>2
    <2>10. QED
      BY <2>1, <2>6, <2>7, <2>8, <2>9, InStream
  <1>3. CASE ConnectFails \/ StreamBreaks
    <2>1. answer = NoAnswer /\ NextDriver
      BY <1>3, Zenon DEF ConnectFails, StreamBreaks, Reading, Asking
    <2>2. QED
      BY <2>1, NextDriverKeepsStream
  <1>4. ASSUME NEW c \in Pieces, Chunk(c)
        PROVE  StreamInv'
    <2>1. Reading /\ UNCHANGED <<ranked, script, parser, partial, answer>>
      BY <1>4, Zenon DEF Chunk
    <2>2. /\ answer = NoAnswer /\ script \in Scripts /\ Len(script.lines) \in Nat
          /\ ranked # <<>> /\ Head(ranked).name = script.name
      BY <2>1, ReadingParts
    <2>3. PICK s \in Scripts : s = script
      BY <2>2
    <2>4. PICK n \in 0 .. Len(s.lines) : Fits(s, n) /\ Heard(s, n, parser, partial)
      BY <2>1, <2>3, ReadingParts
    <2>5. Fits(s, n)'
      BY <1>4, <2>2, <2>3, <2>4, ChunkFits
    <2>6. Heard(s, n, parser', partial')
      BY <2>1, <2>4, Zenon
    <2>7. script' = s /\ answer' = NoAnswer /\ ranked' # <<>> /\ s.name = Head(ranked').name
      BY <2>1, <2>2, <2>3
    <2>8. QED
      BY <2>5, <2>6, <2>7, InStream
  <1>5. CASE StreamEnds
    <2>1. /\ Reading /\ lines = <<>> /\ finished = FALSE /\ finished' = TRUE
          /\ UNCHANGED <<ranked, script, wire, buffer, lines, parser, partial, answer>>
      <3>1. /\ Reading /\ lines = <<>> /\ ~finished /\ finished' = TRUE
            /\ UNCHANGED <<ranked, script, wire, buffer, lines, parser, partial, answer>>
        BY <1>5, Zenon DEF StreamEnds
      <3>2. finished = FALSE
        BY <1>5 DEF StreamEnds
      <3>3. QED
        BY <3>1, <3>2
    <2>2. /\ answer = NoAnswer /\ script \in Scripts
          /\ ranked # <<>> /\ Head(ranked).name = script.name
      BY <2>1, ReadingParts
    <2>3. PICK s \in Scripts : s = script
      BY <2>2
    <2>4. PICK n \in 0 .. Len(s.lines) : Fits(s, n) /\ Heard(s, n, parser, partial)
      BY <2>1, <2>3, ReadingParts
    <2>5. Fits(s, n)'
      <3>1. \E m \in n .. Len(s.lines), r \in 0 .. 2 :
              (m = Len(s.lines) => r = 0) /\ Aligned(s, n, m, r)
        BY <2>1, <2>4, Zenon DEF Fits
      <3>2. \E m \in n .. Len(s.lines), r \in 0 .. 2 :
              (m = Len(s.lines) => r = 0) /\ Aligned(s, n, m, r)'
        BY <2>1, <3>1, Zenon DEF Aligned
      <3>3. QED
        BY <3>2, Zenon DEF Fits
    <2>6. Heard(s, n, parser', partial')
      BY <2>1, <2>4, Zenon
    <2>7. script' = s /\ answer' = NoAnswer /\ ranked' # <<>> /\ s.name = Head(ranked').name
      BY <2>1, <2>2, <2>3
    <2>8. QED
      BY <2>5, <2>6, <2>7, InStream
  <1>6. CASE TakeLine
    <2>1. Reading /\ lines # <<>> /\ Take(Head(lines))
      BY <1>6 DEF TakeLine
    <2>2. script \in Scripts /\ answer = NoAnswer
      BY <2>1, ReadingParts
    <2>3. PICK s \in Scripts : s = script
      BY <2>2
    <2>4. PICK n \in 0 .. Len(s.lines) : Fits(s, n) /\ Heard(s, n, parser, partial)
      BY <2>1, <2>3, ReadingParts
    <2>5. Len(s.lines) \in Nat /\ n \in Nat
      BY ScriptParts
    <2>6. /\ n + 1 \in 1 .. Len(s.lines) /\ Head(lines) = WholeLine(n + 1)
          /\ lines' = Tail(lines) /\ buffer' = buffer /\ wire' = wire => Fits(s, n + 1)'
      BY <2>1, <2>4, <2>5, LineFits
    <2>7. \/ NextDriver
          \/ lines' = Tail(lines) /\ buffer' = buffer /\ wire' = wire
      BY <2>1, Zenon DEF Take
    <2>8. Text(Head(lines)) = s.lines[n + 1]
      BY <2>3, <2>5, <2>6, TextIs
    <2>9. Fits(s, n + 1)' \/ NextDriver
      BY <2>6, <2>7
    <2>10. QED
      BY <2>1, <2>3, <2>4, <2>5, <2>6, <2>8, <2>9, TakeKeepsStream
  <1>7. CASE FlushRest
    <2>1. /\ Reading /\ finished /\ lines = <<>> /\ buffer # <<>> /\ Take(buffer)
      BY <1>7, Zenon DEF FlushRest
    <2>2. /\ answer = NoAnswer /\ script \in Scripts
          /\ ranked # <<>> /\ Head(ranked).name = script.name
      BY <2>1, ReadingParts
    <2>3. PICK s \in Scripts : s = script
      BY <2>2
    <2>4. PICK n \in 0 .. Len(s.lines) : Fits(s, n) /\ Heard(s, n, parser, partial)
      BY <2>1, <2>3, ReadingParts
    <2>5. Len(s.lines) \in Nat /\ n \in Nat
      BY ScriptParts
    <2>6. \/ buffer = Pieces3(3 * n, 1)
          \/ n + 1 \in 1 .. Len(s.lines) /\ buffer = Pieces3(3 * n, 2)
      BY <2>1, <2>4, <2>5, RestFits
    <2>7. NextDriver \/ \A m : Fits(s, m)'
      <3>1. NextDriver \/ (lines' = <<>> /\ buffer' = <<>> /\ finished' = finished)
        BY <2>1, Zenon DEF Take
      <3>2. QED
        BY <2>1, <3>1, Zenon DEF Fits
    <2>8. CASE n + 1 \in 1 .. Len(s.lines) /\ buffer = Pieces3(3 * n, 2)
      <3>1. Text(buffer) = s.lines[n + 1]
        BY <2>3, <2>5, <2>8, TextIs
      <3>2. QED
        BY <2>1, <2>3, <2>4, <2>5, <2>7, <2>8, <3>1, TakeKeepsStream
    <2>9. CASE buffer = Pieces3(3 * n, 1)
      <3>1. Text(buffer) = Malformed
        BY <2>5, <2>9, TextIs
      <3> DEFINE fed == Feed(parser, Malformed)
                 gathered == Gathered(partial, fed.events)
      <3>2. IF fed.events.error THEN NextDriver
            ELSE /\ parser' = fed.parser
                 /\ IF gathered.done THEN Answered(gathered)
                    ELSE partial' = gathered /\ UNCHANGED <<attempts, answer>>
                 /\ UNCHANGED <<request, ranked, script, wire, finished>>
        BY <2>1, <3>1, Zenon DEF Take
      <3>3. ~fed.events.error /\ fed.parser = parser /\ gathered = partial
            /\ ~partial.done
        <4>1. Head(ranked).name = s.name
          BY <2>2, <2>3
        <4>2. QED
          BY <2>4, <4>1, MalformedHeard, Zenon
      <3> HIDE DEF fed, gathered
      <3>4. /\ parser' = parser /\ partial' = partial /\ answer' = answer
            /\ ranked' = ranked /\ script' = script
        BY <3>2, <3>3
      <3>5. Heard(s, n, parser', partial')
        BY <2>4, <3>4, Zenon
      <3>6. CASE NextDriver
        BY <2>2, <3>6, NextDriverKeepsStream
      <3>7. CASE Fits(s, n)'
        <4>1. script' = s /\ answer' = NoAnswer /\ ranked' # <<>>
              /\ s.name = Head(ranked').name
          BY <2>2, <2>3, <3>4
        <4>2. QED
          BY <3>5, <3>7, <4>1, InStream
      <3>8. QED
        BY <2>7, <3>6, <3>7
    <2>10. QED
      BY <2>6, <2>8, <2>9
  <1>8. CASE StreamOver
    <2>1. /\ Reading /\ Answered(partial) /\ UNCHANGED <<script, parser>>
      BY <1>8, Zenon DEF StreamOver
    <2>2. script \in Scripts
      BY <2>1, ReadingParts
    <2>3. PICK s \in Scripts : s = script
      BY <2>2
    <2>4. PICK n \in 0 .. Len(s.lines) : Heard(s, n, parser, partial)
      BY <2>1, <2>3, ReadingParts
    <2>5. partial' = partial
          /\ answer' = [status |-> "Answered", content |-> partial.content,
                        tool_calls |-> partial.tool_calls, tokens |-> partial.tokens]
      BY <2>1, Zenon DEF Answered
    <2>6. \E m \in 0 .. Len(s.lines) : Heard(s, m, parser', partial')
      BY <2>1, <2>4, <2>5, Zenon
    <2>7. answer' = [status |-> "Answered", content |-> partial'.content,
                     tool_calls |-> partial'.tool_calls, tokens |-> partial'.tokens]
      BY <2>5, Zenon
    <2>8. script' = s
      BY <2>1, <2>3
    <2>9. QED
      BY <2>6, <2>7, <2>8, AfterStream
  <1>9. CASE UNCHANGED llm_vars
    <2>1. UNCHANGED <<ranked, script, wire, buffer, lines, finished, parser, partial, answer>>
      BY <1>9, Zenon DEF llm_vars
    <2>2. QED
      BY <2>1, Zenon DEF StreamInv, Fits, Aligned, Pristine
  <1>10. QED
    BY <1>1, <1>2, <1>3, <1>4, <1>5, <1>6, <1>7, <1>8, <1>9 DEF LlmNext

\* Whatever was read so far is the parser's account of the lines sent so far,
\* whose own bytes are what is in the buffer and still on the wire: the
\* inductive invariant of the stream (stream.rs:38-98, service.rs:105-150).
THEOREM StreamInvariant == LlmSpec => []StreamInv
  BY StreamInvInit, StreamInvNext, PTL DEF LlmSpec

\* An answer is what one provider meant to send, up to where its stream ended.
LEMMA AnswerIsHeard ==
  ASSUME StreamInv
  PROVE  ToolCallsWhole
  <1>1. SUFFICES ASSUME answer.status = "Answered" PROVE ToolCallsWhole
    BY DEF ToolCallsWhole, Succeeded
  <1>2. script # NoScript /\ script \in Scripts
    BY <1>1 DEF StreamInv
  <1>3. PICK s \in Scripts : s = script
    BY <1>2
  <1>4. /\ answer = [status |-> "Answered", content |-> partial.content,
                     tool_calls |-> partial.tool_calls, tokens |-> partial.tokens]
        /\ \/ Whole(s, partial)
           \/ \E n \in 0 .. Len(s.lines) : Heard(s, n, parser, partial)
    BY <1>1, <1>3 DEF StreamInv
  <1>5. /\ answer.content = partial.content /\ answer.tool_calls = partial.tool_calls
        /\ answer.tokens = partial.tokens
    BY <1>4
  <1>6. /\ s.texts \in Seq(Range(s.texts)) /\ Len(s.texts) \in Nat
        /\ s.calls \in Seq(Range(s.calls)) /\ Len(s.calls) \in Nat
    BY ScriptParts
  <1>7. CASE Whole(s, partial)
    <2>1. /\ partial.content = s.texts /\ partial.tool_calls = s.calls
          /\ partial.tokens = s.tokens /\ partial.done = TRUE
      BY <1>7 DEF Whole
    <2>2. IsPrefix(s.texts, s.texts) /\ IsPrefix(s.calls, s.calls)
      <3>1. Taken(s.texts, Len(s.texts)) = s.texts /\ Taken(s.calls, Len(s.calls)) = s.calls
        BY <1>6, TakenAll
      <3>2. Len(s.texts) \in 0 .. Len(s.texts) /\ Len(s.calls) \in 0 .. Len(s.calls)
        BY <1>6
      <3>3. IsPrefix(Taken(s.texts, Len(s.texts)), s.texts)
            /\ IsPrefix(Taken(s.calls, Len(s.calls)), s.calls)
        BY <1>6, <3>2, TakenParts
      <3>4. QED
        BY <3>1, <3>3
    <2>3. QED
      BY <1>3, <1>5, <2>1, <2>2, Zenon DEF ToolCallsWhole
  <1>8. CASE \E n \in 0 .. Len(s.lines) : Heard(s, n, parser, partial)
    <2>1. PICK n \in 0 .. Len(s.lines) : Heard(s, n, parser, partial)
      BY <1>8
    <2>2. /\ \E k \in 0 .. Len(s.texts) : partial.content = Taken(s.texts, k)
          /\ \E k \in 0 .. Len(s.calls) : partial.tool_calls = Taken(s.calls, k)
      BY <2>1, HeardParts
    <2>3. IsPrefix(partial.content, s.texts)
      BY <1>6, <2>2, TakenParts
    <2>4. IsPrefix(partial.tool_calls, s.calls)
      BY <1>6, <2>2, TakenParts
    <2>5. partial.tokens = 0 /\ partial.done = FALSE
      <3>1. PartialShape(partial)
        BY <2>1, Zenon DEF Heard
      <3>2. QED
        BY <3>1 DEF PartialShape
    <2>6. s.name = "openai" => partial.tool_calls = <<>>
      BY <2>1 DEF Heard, HeardOpenAI
    <2>7. QED
      BY <1>3, <1>5, <2>3, <2>4, <2>5, <2>6, Zenon DEF ToolCallsWhole
  <1>9. QED
    BY <1>4, <1>7, <1>8

\* Wherever the chunks of a stream end and wherever the stream does, an answer
\* holds the texts and the calls of one provider, in order and each as it was
\* meant, none of a failed driver's; all of them once the end marker was read
\* (service.rs:105-150, stream.rs:38-98, openai.rs:162-341, anthropic.rs:189-333,
\* ollama.rs:148-211).
THEOREM ToolCallsStayWhole == LlmSpec => []ToolCallsWhole
  <1>1. StreamInv => ToolCallsWhole
    BY AnswerIsHeard
  <1>2. QED
    BY <1>1, StreamInvariant, PTL

=============================================================================
