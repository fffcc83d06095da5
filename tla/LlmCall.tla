------------------------------ MODULE LlmCall ------------------------------
(***************************************************************************)
(* One request to the language models: ReasoningService ranks the drivers  *)
(* with ModelRouter and reads the stream of one, or of one after another,  *)
(* through LineStream and the parser of the driver's protocol. The loop    *)
(* asks with fallback (call_llm_with_messages), the pipeline asks only the *)
(* best driver (execute_pipeline). A provider is external: it refuses the  *)
(* request, or sends the lines of a script in chunks that end anywhere,    *)
(* and may end or break the stream at any point.                           *)
(*                                                                         *)
(* A line is sent as its head, its tail and its newline; a head or a tail  *)
(* alone is not JSON and is skipped. A fragment of a call's arguments says *)
(* which of how many it is, so that the arguments parse when the fragments *)
(* of one call are complete and in order. A name is a list of fragments.   *)
(***************************************************************************)
EXTENDS Integers, Sequences, FiniteSets, SequencesExt

CONSTANTS
  DriverLists,     \* registered drivers, in order: [name, cost]
  LlmTasks,        \* [type, length, private, priority]
  Scripts,         \* what a provider means to send: [name, lines, texts,
                   \* calls, tokens]
  Modes,           \* "Fallback" and "Pipeline"
  Pieces           \* sizes of a chunk

VARIABLES
  request,         \* [mode, drivers, task]: entry point, registry and task
  ranked,          \* drivers not asked yet, the one being asked first
  script,          \* what its provider is sending, or NoScript: not connected
  wire,            \* pieces the provider has still to send
  buffer,          \* LineStream.buffer
  lines,           \* LineStream.lines
  finished,        \* LineStream.finished
  parser,          \* state of the driver's parser
  partial,         \* what try_single_driver has gathered
  attempts,        \* history: [driver, ok] in the order they were asked
  answer           \* none yet, an error, or what the last driver answered

llm_vars == <<request, ranked, script, wire, buffer, lines, finished, parser,
              partial, attempts, answer>>

NoParser == [order |-> <<>>, parts |-> <<>>, tool |-> <<>>, tokens |-> 0,
             done |-> FALSE]
NoPartial == [content |-> <<>>, tool_calls |-> <<>>, tokens |-> 0, done |-> FALSE]
NoScript == [name |-> "none"]
NoAnswer == [status |-> "Waiting"]
Failure == [status |-> "Failed"]

-----------------------------------------------------------------------------
(* What a provider means to send: lines of its protocol that carry its      *)
(* texts, its calls in numbered fragments, and the tokens it has used       *)

Protocols == {"openai", "anthropic", "ollama"}
Fragment(k, m, n) == [call |-> k, part |-> m, of |-> n]
IsList(x) == x \in Seq(Range(x))

\* Among the first n lines of script s: those of some types, their number, and
\* those that carry a fragment of the k-th call.
LinesOf(s, types, n) == {i \in 1 .. n : s.lines[i].type \in types}
Told(s, types, n) == Cardinality(LinesOf(s, types, n))
Carriers == {"delta", "block_json"}
FragmentsOf(s, k, n) ==
  {i \in LinesOf(s, Carriers, n) : s.lines[i].args[1].call = k}
Got(s, k, n) == Cardinality(FragmentsOf(s, k, n))
Complete(s, k, n) == Got(s, k, n) = Len(s.calls[k].args)

CarriesTexts(s) ==
  /\ Len(s.texts) = Told(s, {"text"}, Len(s.lines))
  /\ \A i \in LinesOf(s, {"text"}, Len(s.lines)) :
       s.lines[i].text = s.texts[Told(s, {"text"}, i)]

\* Each line carries the next fragment of some call.
CarriesCalls(s) ==
  /\ \A k \in DOMAIN s.calls :
       LET call == s.calls[k]
       IN  /\ Len(call.args) \in Nat
           /\ call = [id |-> call.id, name |-> call.name,
                      args |-> [m \in 1 .. Len(call.args) |->
                                  Fragment(k, m, Len(call.args))]]
  /\ \A i \in LinesOf(s, Carriers, Len(s.lines)) : \E k \in DOMAIN s.calls :
       /\ Got(s, k, i) <= Len(s.calls[k].args)
       /\ s.lines[i].args = <<Fragment(k, Got(s, k, i), Len(s.calls[k].args))>>

Ended(s) == LinesOf(s, {"done"}, Len(s.lines)) # {}

\* The last usage told is the usage.
CarriesUsage(s) ==
  LET told == LinesOf(s, {"usage"}, Len(s.lines))
  IN  /\ told = {} => s.tokens = 0
      /\ \A i \in told : (\A j \in told : j <= i) => s.lines[i].tokens = s.tokens

\* Calls begin in order, each with its id and its name, under an index of its own.
OpenAIScript(s) ==
  LET deltas == LinesOf(s, {"delta"}, Len(s.lines))
  IN  /\ \A i \in DOMAIN s.lines : s.lines[i].type \in
           {"text", "delta", "usage", "done", "error", "malformed"}
      /\ \A k \in DOMAIN s.calls : s.calls[k].id # "" /\ IsList(s.calls[k].name)
      /\ \A i \in deltas : LET k == s.lines[i].args[1].call IN
           IF Got(s, k, i) = 1
           THEN /\ s.lines[i].id = s.calls[k].id
                /\ s.lines[i].name = s.calls[k].name
                /\ \A h \in 1 .. k - 1 : Got(s, h, i) > 0
           ELSE s.lines[i].name = <<>>
      /\ \A i, j \in deltas : s.lines[i].index = s.lines[j].index
           <=> s.lines[i].args[1].call = s.lines[j].args[1].call
      /\ Ended(s) =>
           /\ CarriesUsage(s)
           /\ \A k \in DOMAIN s.calls : Got(s, k, Len(s.lines)) > 0
           /\ \A k \in DOMAIN s.calls : Complete(s, k, Len(s.lines))

\* A call is complete when the next one begins, and when its block stops.
AnthropicScript(s) ==
  LET Begun(n) == Told(s, {"block_start"}, n)
  IN  /\ \A i \in DOMAIN s.lines : s.lines[i].type \in
           {"text", "block_start", "block_json", "block_stop", "usage", "done",
            "error", "malformed"}
      /\ \A i \in LinesOf(s, {"block_start"}, Len(s.lines)) :
           /\ Begun(i) \in DOMAIN s.calls
           /\ s.lines[i].id = s.calls[Begun(i)].id
           /\ s.lines[i].name = s.calls[Begun(i)].name
      /\ \A i \in LinesOf(s, {"block_json"}, Len(s.lines)) :
           s.lines[i].args[1].call = Begun(i)
      /\ \A i \in LinesOf(s, {"block_start", "block_stop", "done"}, Len(s.lines)) :
           \A k \in 1 .. Begun(i - 1) : Complete(s, k, i)
      /\ Ended(s) => CarriesUsage(s) /\ Begun(Len(s.lines)) = Len(s.calls)

\* Calls are sent whole, any number of them in a line; sent[n] of them with the
\* first n lines.
SentBy(s, sent) ==
  /\ sent[0] = 0
  /\ \A i \in DOMAIN s.lines :
       IF s.lines[i].type = "calls"
       THEN /\ IsList(s.lines[i].calls)
            /\ sent[i] = sent[i - 1] + Len(s.lines[i].calls)
            /\ \A j \in DOMAIN s.lines[i].calls :
                 s.calls[sent[i - 1] + j] =
                   [id |-> j, name |-> s.lines[i].calls[j].name,
                    args |-> s.lines[i].calls[j].args]
       ELSE sent[i] = sent[i - 1]
  /\ Ended(s) => sent[Len(s.lines)] = Len(s.calls)

OllamaScript(s) ==
  /\ \A i \in DOMAIN s.lines : s.lines[i].type \in
       {"text", "calls", "done", "error", "malformed"}
  /\ \E sent \in [0 .. Len(s.lines) -> 0 .. Len(s.calls)] : SentBy(s, sent)
  /\ \A i \in LinesOf(s, {"done"}, Len(s.lines)) : s.lines[i].tokens = s.tokens

\* The end marker, if there is one, is the last line.
IsScript(s) ==
  /\ s.name \in Protocols
  /\ IsList(s.lines) /\ IsList(s.texts) /\ IsList(s.calls)
  /\ CarriesTexts(s) /\ CarriesCalls(s)
  /\ \A i \in LinesOf(s, {"done"}, Len(s.lines)) : i = Len(s.lines)
  /\ s.name = "openai" => OpenAIScript(s)
  /\ s.name = "anthropic" => AnthropicScript(s)
  /\ s.name = "ollama" => OllamaScript(s)

ASSUME LlmAssumption ==
  /\ DriverLists \subseteq Seq([name: Protocols, cost: Nat])
  /\ LlmTasks \subseteq
       [type: {"Reasoning", "ToolExecution", "MemoryRetrieval", "IdleReflection",
               "SystemTask", "IntentProcessing"},
        length: Nat, private: BOOLEAN, priority: Nat]
  /\ \A s \in Scripts : IsScript(s)
  /\ Modes \subseteq {"Fallback", "Pipeline"}
  /\ Pieces \subseteq Nat

-----------------------------------------------------------------------------
(* ModelRouter: scores in hundredths, costs in 1/100000 of a dollar *)

CostScore(d, task) ==
  CASE d.cost = 0 /\ ~(task.type = "Reasoning" /\ task.length > 500) -> 3000
    [] d.cost = 0 /\ task.type = "Reasoning" /\ task.length > 500    -> 1500
    [] d.cost > 0 /\ d.cost < 100                       -> 2000
    [] d.cost > 1000 /\ task.priority > 60              -> 4000
    [] d.cost > 1000 /\ task.priority <= 60             -> -2000
    [] OTHER                                            -> 0

Simple == {"MemoryRetrieval", "IdleReflection"}
Points(b, n) == IF b THEN n ELSE 0

NameScore(d, task) ==
  CASE d.name = "openai" ->
         Points(task.type \in {"Reasoning", "ToolExecution"}, 2000)
    [] d.name = "anthropic" ->
         Points(task.length > 1000, 2500) + Points(task.type = "Reasoning", 1500)
    [] d.name = "ollama" ->
         Points(task.type \in Simple, 3500) + Points(task.private, 4000)

TypeScore(d, task) ==
  CASE task.type = "Reasoning"        -> Points(d.name # "ollama", 1000)
    [] task.type = "ToolExecution"    -> Points(d.cost > 0, 500)
    [] task.type \in Simple           -> Points(d.cost = 0, 2500)
    [] task.type = "SystemTask"       -> 500
    [] task.type = "IntentProcessing" -> -d.cost

\* The bonus of a critical task is the same for every driver.
Score(d, task) ==
  5000 + CostScore(d, task) + NameScore(d, task) + TypeScore(d, task)
       + Points(task.priority > 80, 200 * (task.priority - 80))

\* The sort is stable: drivers with one score keep their order. A ranking says
\* which driver comes at which place.
\* Mutant: the list is sorted in ascending order.
Rankings_Ascending(drivers, task) ==
  {r \in Bijection(DOMAIN drivers, DOMAIN drivers) :
     \A i, j \in DOMAIN drivers : i < j =>
       LET c == Score(drivers[r[i]], task)
           d == Score(drivers[r[j]], task)
       IN  c < d \/ (c = d /\ r[i] < r[j])}

Rankings(drivers, task) ==
  {r \in Bijection(DOMAIN drivers, DOMAIN drivers) :
     \A i, j \in DOMAIN drivers : i < j =>
       LET c == Score(drivers[r[i]], task)
           d == Score(drivers[r[j]], task)
       IN  c > d \/ (c = d /\ r[i] < r[j])}

-----------------------------------------------------------------------------
(* LineStream *)

Parts == <<"head", "tail", "newline">>
WirePieces == [line: Nat, part: {"head", "tail", "newline"}]
PiecesOf(n) ==
  [q \in 1 .. 3 * n |-> [line |-> (q + 2) \div 3, part |-> Parts[((q + 2) % 3) + 1]]]

\* extract_lines: one line after another leaves the buffer, up to its newline,
\* and the fragment after the last newline stays.
Newlines(bytes) == {q \in DOMAIN bytes : bytes[q].part = "newline"}
First(places) == CHOOSE q \in places : \A p \in places : q <= p

Extracted[bytes \in Seq(WirePieces)] ==
  IF Newlines(bytes) = {} THEN [lines |-> <<>>, rest |-> bytes]
  ELSE LET pos == First(Newlines(bytes))
           others == Extracted[SubSeq(bytes, pos + 1, Len(bytes))]
       IN  [lines |-> <<SubSeq(bytes, 1, pos - 1)>> \o others.lines,
            rest |-> others.rest]

\* The text of a line, when all of it is there.
Malformed == [type |-> "malformed"]
Text(pieces) ==
  IF /\ Len(pieces) = 2 /\ pieces[1].line = pieces[2].line
     /\ pieces[1].part = "head"
  THEN script.lines[pieces[1].line] ELSE Malformed

-----------------------------------------------------------------------------
(* The parsers: a line changes the parser's state and yields events, which *)
(* are texts, then calls, then perhaps Done; or an error                   *)

Parsed(args) ==
  IF /\ args # <<>>
     /\ \A i \in DOMAIN args : args[i] = [call |-> args[1].call, part |-> i,
                                          of |-> Len(args)]
  THEN args ELSE <<>>

Call(id, name, args) == [id |-> id, name |-> name, args |-> Parsed(args)]

Events(texts, calls) ==
  [texts |-> texts, calls |-> calls, done |-> FALSE, tokens |-> 0, error |-> FALSE]
Nothing == Events(<<>>, <<>>)
Token(text) == Events(<<text>>, <<>>)
Calls(calls) == Events(<<>>, calls)
Done(calls, tokens) ==
  [texts |-> <<>>, calls |-> calls, done |-> TRUE, tokens |-> tokens, error |-> FALSE]
Error ==
  [texts |-> <<>>, calls |-> <<>>, done |-> FALSE, tokens |-> 0, error |-> TRUE]
Fed(p, events) == [parser |-> p, events |-> events]

\* A delta belongs to the call of its stream index; the id and the name come
\* with the first delta only. parts is a sequence beside order.
\* Mutant: calls are told apart by their id.
Place_ById(p, delta) == {k \in DOMAIN p.parts : p.parts[k].id = delta.id}

Place(p, delta) == {k \in DOMAIN p.order : p.order[k] = delta.index}

Merged(part, delta) ==
  [id |-> IF part.id = "" THEN delta.id ELSE part.id,
   name |-> part.name \o delta.name,
   args |-> part.args \o delta.args]

AccumulateToolDelta(p, delta) ==
  IF Place(p, delta) = {}
  THEN [p EXCEPT !.order = Append(p.order, delta.index),
                 !.parts = Append(p.parts, [id |-> delta.id, name |-> delta.name,
                                            args |-> delta.args])]
  ELSE [p EXCEPT !.parts = [k \in DOMAIN p.parts |->
                              IF k \in Place(p, delta)
                              THEN Merged(p.parts[k], delta) ELSE p.parts[k]]]

\* Everything gathered is emitted at the end marker, and only there; a call
\* without an id is given one.
OpenAIFinish(p) ==
  IF p.done THEN Fed(p, Nothing)
  ELSE Fed([p EXCEPT !.done = TRUE, !.order = <<>>, !.parts = <<>>],
           Done([k \in DOMAIN p.order |->
                   Call(IF p.parts[k].id = "" THEN "call" ELSE p.parts[k].id,
                        p.parts[k].name, p.parts[k].args)],
                p.tokens))

OpenAI(p, line) ==
  CASE line.type = "text"  -> Fed(p, Token(line.text))
    [] line.type = "delta" -> Fed(AccumulateToolDelta(p, line), Nothing)
    [] line.type = "usage" -> Fed([p EXCEPT !.tokens = line.tokens], Nothing)
    [] line.type = "done"  -> OpenAIFinish(p)
    [] line.type = "error" -> Fed(p, Error)
    [] line.type = "malformed" -> Fed(p, Nothing)

\* The open tool_use block, if any, as a sequence of at most one record.
CloseCurrentTool(p) ==
  [i \in DOMAIN p.tool |-> Call(p.tool[i].id, p.tool[i].name, p.tool[i].args)]

Anthropic(p, line) ==
  CASE line.type = "text"  -> Fed(p, Token(line.text))
    [] line.type = "block_start" ->
         Fed([p EXCEPT !.tool = <<[id |-> line.id, name |-> line.name,
                                   args |-> <<>>]>>],
             Calls(CloseCurrentTool(p)))
    [] line.type = "block_json" ->
         Fed([p EXCEPT !.tool = [i \in DOMAIN p.tool |->
                [p.tool[i] EXCEPT !.args = p.tool[i].args \o line.args]]], Nothing)
    [] line.type = "block_stop" ->
         Fed([p EXCEPT !.tool = <<>>], Calls(CloseCurrentTool(p)))
    [] line.type = "usage" -> Fed([p EXCEPT !.tokens = line.tokens], Nothing)
    [] line.type = "done"  ->
         IF p.done THEN Fed(p, Nothing)
         ELSE Fed([p EXCEPT !.done = TRUE, !.tool = <<>>],
                  Done(CloseCurrentTool(p), p.tokens))
    [] line.type = "error" -> Fed(p, Error)
    [] line.type = "malformed" -> Fed(p, Nothing)

\* Calls come whole, and are numbered anew in every line.
Ollama(p, line) ==
  CASE line.type = "text"  -> Fed(p, Token(line.text))
    [] line.type = "calls" ->
         Fed(p, Calls([i \in DOMAIN line.calls |->
                         Call(i, line.calls[i].name, line.calls[i].args)]))
    [] line.type = "done"  -> Fed(p, Done(<<>>, line.tokens))
    [] line.type = "error" -> Fed(p, Error)
    [] line.type = "malformed" -> Fed(p, Nothing)

Feed(p, line) ==
  CASE Head(ranked).name = "openai"    -> OpenAI(p, line)
    [] Head(ranked).name = "anthropic" -> Anthropic(p, line)
    [] Head(ranked).name = "ollama"    -> Ollama(p, line)

-----------------------------------------------------------------------------
(* ReasoningService *)

\* The events of a line are read from the stream; Done sets the tokens and is
\* the last of them, and nothing is read after it.
Gathered(acc, events) ==
  [content |-> acc.content \o events.texts,
   tool_calls |-> acc.tool_calls \o events.calls,
   tokens |-> IF events.done THEN events.tokens ELSE acc.tokens,
   done |-> events.done]

LlmInit ==
  /\ request \in [mode: Modes, drivers: DriverLists, task: LlmTasks]
  /\ \E r \in Rankings(request.drivers, request.task) :
       ranked = [i \in DOMAIN request.drivers |-> request.drivers[r[i]]]
  /\ script = NoScript
  /\ wire = <<>>
  /\ buffer = <<>>
  /\ lines = <<>>
  /\ finished = FALSE
  /\ parser = NoParser
  /\ partial = NoPartial
  /\ attempts = <<>>
  /\ answer = NoAnswer

Asking == answer = NoAnswer /\ ranked # <<>>

\* No driver is left or there was none.
NoDriver ==
  /\ answer = NoAnswer
  /\ ranked = <<>>
  /\ answer' = Failure
  /\ UNCHANGED <<request, ranked, script, wire, buffer, lines, finished, parser,
                 partial, attempts>>

\* generate_stream: the request is accepted.
Connect ==
  /\ Asking
  /\ script = NoScript
  /\ \E s \in Scripts :
       /\ s.name = Head(ranked).name
       /\ script' = s
       /\ wire' = PiecesOf(Len(s.lines))
  /\ UNCHANGED <<request, ranked, buffer, lines, finished, parser, partial,
                 attempts, answer>>

\* The driver failed: the next one starts from nothing, but the pipeline has
\* no next one.
NextDriver ==
  /\ attempts' = Append(attempts, [driver |-> Head(ranked), ok |-> FALSE])
  /\ ranked' = IF request.mode = "Fallback" THEN Tail(ranked) ELSE <<>>
  /\ script' = NoScript
  /\ wire' = <<>>
  /\ buffer' = <<>>
  /\ lines' = <<>>
  /\ finished' = FALSE
  /\ parser' = NoParser
  /\ partial' = NoPartial
  /\ UNCHANGED <<request, answer>>

Answered(gathered) ==
  /\ attempts' = Append(attempts, [driver |-> Head(ranked), ok |-> TRUE])
  /\ partial' = gathered
  /\ answer' = [status |-> "Answered", content |-> gathered.content,
                tool_calls |-> gathered.tool_calls, tokens |-> gathered.tokens]

\* The network or the status refuses the request.
ConnectFails == Asking /\ script = NoScript /\ NextDriver

Reading == Asking /\ script # NoScript

\* poll_next: with no line at hand, the next chunk.
Chunk(n) ==
  /\ Reading
  /\ lines = <<>> /\ ~finished
  /\ n <= Len(wire)
  /\ LET got == Extracted[buffer \o SubSeq(wire, 1, n)]
     IN  lines' = got.lines /\ buffer' = got.rest
  /\ wire' = SubSeq(wire, n + 1, Len(wire))
  /\ UNCHANGED <<request, ranked, script, finished, parser, partial, attempts,
                 answer>>

\* The stream ends, having sent all of the script or not.
StreamEnds ==
  /\ Reading
  /\ lines = <<>> /\ ~finished
  /\ finished' = TRUE
  /\ UNCHANGED <<request, ranked, script, wire, buffer, lines, parser, partial,
                 attempts, answer>>

StreamBreaks == Reading /\ lines = <<>> /\ ~finished /\ NextDriver

\* A line at hand, or the fragment left when the stream has ended, goes
\* through the parser, and its events to the caller.
Take(pieces) ==
  LET fed == Feed(parser, Text(pieces))
      gathered == Gathered(partial, fed.events)
  IN  IF fed.events.error
      THEN NextDriver
      ELSE /\ parser' = fed.parser
           /\ IF gathered.done THEN Answered(gathered)
              ELSE partial' = gathered /\ UNCHANGED <<attempts, answer>>
           /\ UNCHANGED <<request, ranked, script, wire, finished>>
           /\ lines' = IF lines = <<>> THEN lines ELSE Tail(lines)
           /\ buffer' = IF lines = <<>> THEN <<>> ELSE buffer

TakeLine == Reading /\ lines # <<>> /\ Take(Head(lines))

FlushRest ==
  /\ Reading
  /\ finished /\ lines = <<>> /\ buffer # <<>>
  /\ Take(buffer)

\* The stream is over without Done: what was gathered is the answer.
StreamOver ==
  /\ Reading
  /\ finished /\ lines = <<>> /\ buffer = <<>>
  /\ Answered(partial)
  /\ UNCHANGED <<request, ranked, script, wire, buffer, lines, finished, parser>>

LlmNext ==
  \/ NoDriver
  \/ Connect
  \/ ConnectFails
  \/ \E n \in Pieces : Chunk(n)
  \/ StreamEnds
  \/ StreamBreaks
  \/ TakeLine
  \/ FlushRest
  \/ StreamOver

LlmSpec == LlmInit /\ [][LlmNext]_llm_vars

-----------------------------------------------------------------------------
(* Properties *)

Succeeded == answer.status = "Answered"

\* Wherever the chunks end and wherever the stream does, an answer holds a
\* prefix of the texts and of the calls of one provider, each call with its
\* own name and arguments and nothing of a failed driver's; after the end
\* marker it holds all of them and the tokens used, and before it the calls
\* of an OpenAI stream are missing together.
ToolCallsWhole ==
  Succeeded =>
    /\ IsPrefix(answer.content, script.texts)
    /\ IsPrefix(answer.tool_calls, script.calls)
    /\ partial.done => /\ answer.content = script.texts
                       /\ answer.tool_calls = script.calls
                       /\ answer.tokens = script.tokens
    /\ ~partial.done =>
         /\ answer.tokens = 0
         /\ script.name = "openai" => answer.tool_calls = <<>>

LlmTypeOK ==
  /\ finished \in BOOLEAN
  /\ \A i \in DOMAIN attempts : attempts[i].ok \in BOOLEAN
  /\ lines # <<>> \/ buffer # <<>> => script # NoScript

\* How often a driver occurs in a list of drivers.
Times(d, list) == Cardinality({i \in DOMAIN list : list[i] = d})
Asked == [i \in DOMAIN attempts |-> attempts[i].driver]

\* Each registered driver is asked at most once, the better ones first, and
\* the next one only when all before it failed; the pipeline asks only the
\* best. An answer is the first success, and a request fails only when every
\* driver it may ask has failed.
FallbackFaithful ==
  LET Worth(i) == Score(attempts[i].driver, request.task)
      registered == request.drivers
  IN  /\ LlmTypeOK
      /\ \A i \in DOMAIN attempts :
           /\ Times(Asked[i], Asked) <= Times(Asked[i], registered)
           /\ \A j \in 1 .. i - 1 : ~attempts[j].ok /\ Worth(j) >= Worth(i)
      /\ request.mode = "Pipeline" =>
           \A i \in DOMAIN attempts, j \in DOMAIN registered :
             Worth(i) >= Score(registered[j], request.task)
      /\ answer = Failure =>
           /\ \A i \in DOMAIN attempts : ~attempts[i].ok
           /\ Len(attempts) = IF request.mode = "Fallback" THEN Len(registered)
                              ELSE IF registered = <<>> THEN 0 ELSE 1
      /\ Succeeded <=> attempts # <<>> /\ Last(attempts).ok

\* What openai.rs:162 says of its parser: a terminal Done is emitted when the
\* end marker arrives "or when the underlying stream ends". The parser is not
\* told of the end, so that a cut stream passes for an answer without its
\* tool calls and its tokens, and no other driver is asked.
DoneWhenStreamEnds ==
  Succeeded /\ script.name = "openai" => partial.done

=============================================================================
