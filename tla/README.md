# LAK agent kernel: verification project

TLA+ modules, TLC configurations and TLAPS proofs for the Rust crates under
`src/crates/`. Line numbers below refer to the files there; `kernel.rs`,
`scheduler.rs`, `journal.rs` are in `lak-services/src/`, `token_budget.rs` in
`lak-core/src/`, `agent.rs` and `task.rs` in `lak-core/src/types/`.

## 1. Inventory of the system

LAK is one daemon process (`lakd`) with gRPC clients in front and language
models behind it. All kernel state is one `KernelState` behind one
`tokio::sync::RwLock` (kernel.rs:40-60). Every gRPC handler is a single
critical section of that lock, and one background task, started by
`KernelService::start` (kernel.rs:126-415), executes the cognitive tasks one at
a time, taking and releasing the lock once per phase.

| Component | State | Operations | Correct when |
| --- | --- | --- | --- |
| agent kernel (kernel.rs) | maps of agents, tasks, mailboxes; certificates; scheduler, journal, memory, router; counters; shutdown flag | create/destroy/pause/resume agent, submit/cancel task, intents, memory, capabilities, execute_tool, the execution loop, shutdown | no task is lost or run twice, no slot leaks, records, queue, journal and counters agree under every interleaving of clients with the loop |
| agent process (lak-are) | process state, context window, statistics, COI | activate, suspend, terminate, record completion/failure | tracks the agent's record |
| scheduler | BinaryHeap of ready tasks, blocked list, slot count | submit, schedule_next, complete, block, unblock, preempt, cancel | slots exact, nothing lost or duplicated, equals served by age, no starvation |
| journal | bounded log, sequence counter, last checkpoint | append and its callers, checkpoint, truncate, clear, in_flight_tasks | numbering without gaps, bounded, recovery restarts the right tasks |
| token budget (lak-core) | consumed total, rolling window | check_allocation, record, refund, reset | hard limit, reserve and rate limit hold under any sequence |
| intent router | subscriptions, dead letters, counters | subscribe, publish, requeue, unsubscribe; kernel's send/await_intent and mailboxes | each intent delivered to exactly its targets or kept as a dead letter, once |
| capabilities (capability.rs, kernel.rs:873-1014) | certificates, per agent and global | grant, delegate (attenuate), revoke, merged view for tool checks | delegation never widens, revocation and expiry are seen by the next check |
| semantic memory (memory/service.rs) | chunks in four tiers, TF-IDF index | store, query (with promotion), forget, tier limits | index and store agree, limits hold |
| speculative engine (speculative.rs) | branches, token reservation | fork, start, complete, merge, prune, fail | every reservation returned exactly once |
| reasoning pipeline and model router | driver list, statistics | select driver, fall back, five stages | every driver tried at most once, critical work on a capable model |
| injection defense, tool enforcement | rules, audit log | scan, sanitize, execute with enforcement | no tool runs without a certificate that allows it |
| tools, LLM drivers, stream parsers (lak-tal) | per-call buffers | HTTP, files, commands; line reassembly and event parsing | each stream ends with one Done whatever the chunking |
| context window (context.rs) | entries, token count | append, compress | nothing in the repository fills one |
| gRPC daemon (lakd), protocol (lak-proto) | none of its own | conversions, one handler per call | conversions lose no state the client needs |

**Interactions.** Handlers and the loop share `KernelState` and nothing else,
apart from the atomic shutdown flag. `submit_task` touches budget, agent,
scheduler, task map and journal in one critical section; the loop touches the
scheduler (phase 1), task map and journal (phase 2), agent (phase 3), model and
tools (rounds), and task map, agent, journal, scheduler and counters (phase 4).
Destroying an agent touches agent, process, tasks, heap and mailbox.

**Hard behaviours.** Client calls between any two phases of the loop (a task
cancelled, resubmitted, or its agent destroyed, while the loop has it); the read
lock held while the model answers, with no timeout; a heap whose keys grow with
time; truncation and automatic checkpoints of the same log; several copies of
the same fact (agent record and process, three sets of counters, consumed total
and window); recovery from a journal that may have dropped entries. The
`hazards` list of PROJECT.json has each at its line.

## 2. Modules

| Module | What it is |
| --- | --- |
| `Kernel` | agents, tasks, ready queue, slot count, journal view, budgets and the execution loop, with clients interleaved |
| `MCKernel` | symmetry for TLC; `MCKernel_safety.cfg`, `MCKernel_liveness.cfg` |
| `KernelProofs` | inductive invariant of `Kernel`, nine properties, and the refinement of `TaskPool` |
| `Induction` | induction and recursion over numbers and finite sets, and sums over sets, in the form the proofs use |
| `KernelClaims` | two statements of comments and tests that the kernel does not keep; `KernelClaims_*.cfg` |
| `Scheduler`, `MCScheduler`, `SchedulerProofs` | the scheduler on the real heap array; priorities, shared ids, and a claim for TLC; slots, places, conservation and the heap's order proved |
| `Journal`, `MCJournal`, `JournalProofs` | the journal under the kernel's calls and its remaining interface; all its properties proved |
| `IntentRouter`, `MCIntentRouter`, `IntentRouterProofs` | routing, dead letters, mailboxes, `send_intent`, `await_intent`; a small instance with every kind of target; all its properties proved |
| `TaskPool` | the abstract specification of the kernel for those who submit tasks; `Kernel` implements it (`KeepsTickets`) |
| `Capability`, `MCCapability`, `CapabilityProofs` | certificates, and the tools they gate, with audit and counters; both properties proved |
| `TokenBudget` | the budget of one agent, with time |
| `Memory` | the semantic memory of one agent: tiers and index; both properties proved in `ServicesProofs` |
| `Speculative` | the speculative engine: branches and their token reservation |
| `LlmCall`, `LlmCallProofs` | one request to the language models: ranking, fallback, line reassembly, the three parsers; both properties proved |
| `Gateway` | the gRPC conversions, on a record that is submitted, read and submitted again |
| `ServicesProofs` | theorems about `Gateway`, `TokenBudget`, `Speculative` and `Memory` |
| `MCServices` | small instances of the five services above, `TokenBudget` to `Gateway` |

The kernel's state is divided among the modules along its lines of interaction:
`Kernel` composes agents, tasks, scheduler, journal and budget, which change
together in one critical section; `IntentRouter` composes the router with the
kernel's mailboxes and `send_intent`/`await_intent`; `Capability` composes
certificates, tool enforcement, the audit log, the agent's counters and the
loop's turn. The five services share no state with one another.

### Kernel

*State.* One variable per field: `agentState`, `processState`, `callLimit`,
`consumed`, `stats` for the agent map, `taskState`, `taskAgent` for the task
map, `ready`, `running_count`, `total_*` for the scheduler. `journal[t]` is
what `in_flight_tasks` looks at, the target of the last transition of `t` that
the journal still has. With `JournalOverflows` the journal has outgrown its
10,000 entries, and every append (a transition, a submission, an intent sent)
may drop the last transitions of any tasks; without, it is young and keeps all. The
loop is `pc` with its locals (`cur`, `safety_cap`, `round`, `pending_calls`,
`outcome`).

*Actions.* Each client call is one action guarded by `WriteLockFree`, because
it is one critical section. The loop has one action per critical section or
await point: `LoopHead`, `Dequeue`/`PollAgain` (phase 1), `Prepare` (phase 2),
`Configure` (phase 3), `RoundsExhausted`/`AskLlm`/`LlmEnds`/`LlmAsksForTools`/
`ExecuteTool` (the rounds), `WriteBack` (phase 4). While `pc = "AwaitLlm"` the
loop holds the read lock (kernel.rs:259-268), so every writer waits.

*Abstractions.* A queue entry is a numbered submission; which entry is on top of
the heap is left open, since `Scheduler` shows that almost any may be. Which
transitions an overflowing journal drops is left open, too: `Journal` has the log. Token
counts, prompts and tool results are data. A submission's grant is computed
without the rolling window; `TokenBudget`'s `WindowNeverBinds` justifies that
for a kernel that never refunds.

*Refinement.* `Pool` instantiates `TaskPool`: its waiting tickets are the queue
entries, its running ticket is the loop's `cur` between dequeue and write-back,
and finished and succeeded tickets are the kernel's counters. Agents, budget,
journal, phases and rounds are hidden; client calls that touch no queue, and all
steps of the loop but dequeue and write-back, are stutters. That a task's
tickets are withdrawn together, and never while one of them runs, is what a
client may rely on when it cancels.

### Scheduler

The heap is the array of `std::collections::BinaryHeap` with its own sifts
(external definitions), because an entry's score grows while it lies in the heap
and nothing restores the order: an abstract priority queue would say more than
the code does. `weight` is priority score times COI boost, chosen once per
behaviour.

A member of `Tasks` is one submission, a value that `submit` takes and the other
calls move on; `task_id` gives its id, which clients choose and may choose
twice. So `submit(t)` asks only that the *name* `t` is not under way, and an id may
be in the heap twice, or queued while it runs; `cancel` and `unblock` go by id, as
in the code. `running` is what callers were given and have not returned: it is
what makes `SlotsExact` a statement.

The clock ticks `Second` times a second, and each entry has waited a number of
ticks of its own; its score counts whole seconds (scheduler.rs:83 truncates), as
fractions of a minute, up to the cap. So scores of entries submitted at
different ticks grow at different ticks, entries that tie are swapped, and the tie
breaks later: an order by age is not kept, even among equals. `NearlyOldestFirst`
says how much of it is: the top has waited longest to within a second for each
level of the heap between. All comparisons of one call read one tick.

The kernel calls `submit`, `schedule_next`, `complete`, `cancel`; the other
operations are exercised too.

### Journal

`entries` as sequence number, task and target. `Log` is `append` entire: push,
truncate to the maximum, then the automatic checkpoint, which is pushed without
a second truncation. `status` stands for the kernel's task records, so that
`in_flight_tasks` can be compared with the truth. A submission puts the client's
record there, in any state it says, over whatever the kernel knew of the id;
`claimed` remembers the ids whose record speaks for a client and not for the
kernel, until the kernel moves them. A journal that records what the kernel does
can be right about the others only. In half of the behaviours
(`api_calls`) the operations the kernel never calls are used as well.

### IntentRouter

`subscriptions`, `dead_letters` and `mailboxes` as in the code; a list of
subscriptions is a set, because duplicates change no delivery. A message has the
target's fields side by side, and one `text`: the topic of a publish-subscribe
target, the natural language of any other. Topics are sequences of segments,
`MatchSegments` is the code's recursion, substrings are taken at whole
segments. `SendIntent` is publish with the kernel's fan-out to mailboxes;
`await_intent` is three actions for its three outcomes, each registering the
subscription. `usage` is fixed per behaviour: clients keep intent ids unique, or
send an id again, or the operations the kernel never calls are used too. The
properties restate the audience of a message without the algorithms: what a
pattern denotes, and who a target names.

### TokenBudget

`check_allocation` as one operator, `Grant`, whose value 0 is a denial. The clock
is the age of window entries; `Retained` is the vector's `retain`. `api_calls` as
above.

### Capability

`issued` is every certificate in order of issue, `live` the ids still in the
kernel's map, `initial` the capabilities an agent was created with. A resource
pattern is the sequence of its segments, so that `ScopeMatches` and
`ScopeExpands` follow the code's string operations, text length included.
`GrantCapability` and `DelegateCapability` are the handlers with all checks; the
source of a delegation is any matching certificate (a HashMap's order), and
otherwise the first of the initial list. A tool call is one step, in the
write lock: `Enforced` orders the checks of `execute_tool_with_enforcement`,
`Counted` is what `execute_tool` adds. Suspicious parameters are counts of
detections per category, with the code's penalties. The loop's collected calls
are `turn`, reported at completion.

### Memory

A text is the set of its terms. `chunks` and the three maps of the index change
side by side; a query may answer any `top_k` of the matching chunks, an eviction
may take any chunk of the tier, because scores (TF-IDF, S-Clock) are
real-valued data. `enforced` and `promoted` remember the limits at the last
store and the promotions since.

### Speculative

One action per method; nothing stops a caller from calling a method for a
branch that is over, so such calls are steps, counted by `late`. `Fork` folds the
code's gates over the candidates in the one order a stable sort by confidence
can give them (`Ranks`).

### LlmCall

`Score` is `ModelRouter`'s; a member of `Rankings` says which registered driver
comes at which place of its stable descending sort. The provider sends a script's
lines in pieces (head, tail, newline, each with its line's number), a chunk ends
after any piece, and the stream may end or break whenever the client waits.
`buffer`, `lines`, `finished` are `LineStream`'s fields, `parser` the driver's
parser, `partial` the caller's locals. A parser answers a line with one record of
`events`: texts, calls, and whether Done or an error is among them, in the order
in which the code emits them. `NextDriver` throws all of it away.

The provider is external: what it *means* to send is a script, a sequence of lines
with the texts, calls and usage they stand for. `IsScript` says what a script of
each protocol is (`OpenAIScript`, `AnthropicScript`, `OllamaScript`); what of it
arrives, and in what chunks, is open.

### Gateway

Numbers of an enumeration are their names in the protocol. Each conversion is an
operator with the code's defaults; the handlers of five kinds of record refuse,
fail or keep. A client submits a new record first and then whatever it reads.

## 3. Runs

| Run | Instance | What it shows |
| --- | --- | --- |
| `kernel_safety` | 2 agents, 2 task ids, 3 submissions, 1 slot, budget of two and a half estimates with a reserve; about 1.17 million states | nine invariants: slots, queue, records, journal, process state, counters; and `KeepsTickets`, that the kernel implements `TaskPool` |
| `kernel_liveness` | 1 agent, 2 task ids, 2 submissions, round limits 0 and 2, replies with 1 or 2 tool calls, tasks submitted as Completed too, a grant cut short by the reserve, a journal that overflows; 75 thousand states | dispatched tasks are brought to an end; the queue is served; shutdown stops the loop between tasks; the journal may miss a running task and never says that it is settled |
| `scheduler` | 5 submissions, two of one id, 2 slots, priorities mixed or all the same, 2 ticks to a second, aging for 2 seconds; 291 thousand states | slots exact; nothing lost or duplicated; among equals the top has waited longest, to within a second a level |
| `journal` | 2 tasks, log of 4, checkpoint every 3, sequence numbers up to 9; 311 thousand states | numbering, size, regular checkpoints, sound and complete recovery |
| `capabilities` | 2 agents, one with a delegatable directory, one without; 2 capability types, 3 scopes, 2 tools, 2 issues or calls | authority is never conjured; counters follow from the audit log |
| `services` | memory: 3 chunks, limits 2/1/1 and 1/1/1; budget: limit 4, reserve 2, window of 2 ticks, overdraw to 5; speculative: 3 branches, 4 tokens, 2 outputs; models: 3 drivers, 4 scripts, chunks of 1, 2 and 7 pieces; gateway: every number of every enumeration; 88 thousand states | memory: the index is exact but for the named drift, tiers bounded. Budget: grants within budget and rate, window never binds for the kernel. Speculative: tokens conserved, merges exact. Models: tool calls whole under every chunking, fallback in order. Gateway: conversions inverse but for the named drifts |
| `intent_router` | 2 agents, 3 subscriptions (type, topic with each wildcard, capability), a message per kind of target, 3 intents, 2 dead letters; 189 thousand states | publishing reaches exactly the audience; intents leave one at a time or by the named exceptions; who asks is answered, with what matches |
| `unicast_stays_private` | the same | **violated**: a unicast dead letter is answered to whoever asks with a matching subscription (kernel.rs:825) |
| `terminated_is_final` | 1 agent, 2 tasks, none submitted to a terminated agent | **violated**: write-back makes an agent Idle that was destroyed while the loop held its task (kernel.rs:356) |
| `cancelled_stays_cancelled` | 1 agent, 2 tasks | **violated**: phase 2 sets a task Running that was cancelled after it was dequeued (kernel.rs:160) |
| `openai_stream_end` | as `services` | **violated**: a stream cut before its end marker is a complete answer without its tool calls (openai.rs:305) |
| `no_starvation` | 3 tasks, weights 14, 98, 98, fair loop and clock | **violated**: aging stops at six, critical outweighs low seven times (scheduler.rs:84) |

*Why the bounds are enough.* Two agents let one act while the loop works for
the other; two ids with three submissions let an id be resubmitted while its
first entry is queued, held, or settled, next to another task. The loop holds
one task at a time, so a limit of one slot is where a leak shows at once. In
`Scheduler` five entries are a heap of three levels, in which a downward sift
chooses between two children and then goes on; two submissions of one id share it
in the heap, in the blocked queue, and across queue and caller. With `Second` = 2
two entries can cross a second at different ticks, so that a tie breaks after it
decided a comparison. `Minute` and `MaxAging` only set
where aging stops, and the theorems hold for any. `kernel_safety` has a journal
that keeps everything, `kernel_liveness` one that overflows and still meets an id
that is submitted again after it settled, which is where an old transition could
speak for it. Three intents over two dead-letter places
let the queue overflow, and put one intent ahead of a matching one in mailbox
and queue. The journal's nine sequence numbers pass through three checkpoints and fill the
log twice. The budget needs room for two grants and a cut-off one. Two issued certificates
are a grant followed by its delegation or revocation, or a certificate and the
call it allows. Three chunks fill a tier of two and overflow it; three
branches are one more than may be active; one late call shows what any number of
them adds. Each script has two tool calls, of which the first comes in two
fragments, interleaved with the second where the protocol allows it, and one
script fails in the middle of a call. Counters are bounded by `MaxSubmissions`,
`MaxSequence`, `MaxConsumed`, `MaxEntries`, `MaxPublished`, `MaxEvents`,
`MaxCalls`, `MaxHits`, `MaxRestores`, `MaxBranches`, `MaxGiven` and `MaxLate`, and
by nothing else. Deadlock is checked in all runs but `capabilities`, `services`
and `openai_stream_end`, where an answered request or a spent bound is an end.

*Fairness.* The loop is one tokio task, runnable whenever it does not await;
tokio's RwLock is fair, so a waiting loop gets the lock: weak fairness of
`LoopStep`. The code sets no timeout on the model's answer, so that it answers is
an assumption of its own (`LlmFairness`); without it (`SilentLlmSpec`) a single
silent model stops the loop, and the read lock it holds stops every writer.
Clients owe nothing. `KernelSpec` of `Scheduler` has weak fairness for the loop's
two calls and for the clock.

## 4. Proofs

Every theorem holds for all values of the constants that the named assumption
of the module admits. The assumptions are types of what the code's own types
bound (`usize`, `u64` and sizes of sets of flags), plus: agent ids are finitely
many (they are 128-bit UUIDs, `KernelAssumption`), an intent that is routed by
capability names one (the field is no option, `RouterAssumption`),
`max_dead_letters` is not 0 (publish panics then), windows and slots are not
empty, and the absence of a protocol field differs from all of its values
(`GatewayAssumption`). `LlmAssumption` is about the providers, whose code is not in
the repository: their drivers bear the names of the three protocols, and each
script keeps to its protocol. Texts and fragments of calls come in order; an
OpenAI call has a nonempty id and a stream index of its own and begins after
those before it; an Anthropic call is complete before its block ends; the end
marker comes last, with every call complete and, in the last usage told, the
tokens used. A provider that stops early, an error line and a malformed line
are all within it; a provider that swaps two fragments is not, and no client could put
its arguments together.

**Recursion.** `Induction` states induction about sets rather than predicates,
since the provers here cannot instantiate a predicate: a set of naturals that is
closed is all of them (`CompleteIsNat`), a set that contains whatever it contains
all the smaller members of is everything (`ByMeasure`, `ByRemoval` for finite
sets). `SolutionExists` builds a function from an equation that determines
each value from values of smaller measure. A recursive function of the model
only *chooses* a function that satisfies its equation; with
`SolutionExists` each one is shown to satisfy it (`UpSolves`, `DownSolves`, `DrainSolves`,
`BuildSolves`, `RetainSolves` and their like), and then properties go by measure. `Total` is the
sum of a function over a finite set, with what moves it: `TotalWithout`, `TotalsAgree`, `TotalRaised`, `TotalOfPart`.

**Kernel** (`KernelProofs`). `IInv` is the conjunction of the type invariant, of
`SlotAccounting`, `QueueRefersToKnown`, `NoLostTask`, `CancelledNotQueued`,
`RunningIsJournaled`, `ProcessTracksAgent`, `CountersAgree` and `AtMostOnce` with
what they need of one another. None is inductive alone: that a running task is
in hand needs the loop's control point, that the journal does not contradict it
needs what an append may drop (`AppendKeepsOrDrops`, `TransitionIsLast`), that a write-back finds its agent needs
the entries to be known, that submissions are distinct needs their numbers to
lie below the counter and the queue to be finite. `CountersAgree` compares sums
over agents: only write-back moves one, by one, at an agent that
`QueueRefersToKnown` says is there. `EntriesAreKnown` is what makes the
code's skip of a vanished task (kernel.rs:183), which would leak a slot,
unreachable. `KernelKeepsTickets` is the refinement: `PoolFrame` says that a
step that leaves queue, `cur` and counters alone stutters, `PoolStep` maps every
other step to one of `TaskPool`, and needs of the invariant only the types and
that the loop has an entry exactly between dequeue and write-back.

**Scheduler** (`SchedulerProofs`). Each sift is shown to be a rearrangement of its
array (`UpKeeps`, `DownKeeps`, `BottomKeeps`), the drain of `cancel` to keep every
entry but those of one id (`DrainCancels`), the rebuild to be a rearrangement
again (`BuildKeeps`). `SInv` says that no submission is filed twice or in two places
and that there is a slot per running one; it gives `SlotsStayExact`,
`TasksStayInOnePlace`, `TasksAreConserved`. `NearlyOldestFirst` speaks of the top
alone, which no step preserves: `OInv` says, wherever all weights are equal,
that every edge of the array is in order to within a second, which sums up to a second a
level. That comparisons see whole seconds only makes this more than a heap
proof: an exchange repairs the edge it is made on and could spoil the ones next
to it by up to a second each. `UpReady`, `Hole` and `DownReady` say what the
entries around the one that moves keep of their earlier order, the path it came
down included, so that a sift leaves every edge in order (`UpOrders`,
`BottomOrders`, `DownOrders`); a tick moves all edges alike, or closes them at the
cap (`TickOrders`).

**Journal** (`JournalProofs`). `JInv` joins types, contiguity, size and checkpoint
distance, the last of which needs to know that a checkpoint lies below the next
number. `RInv` relates log and records: the record of a task that the kernel has
moved says what its last transition in the log says, unless it was cancelled with
its agent, which journals nothing; a record that a client submitted says nothing
(`Told`); and as long as there is an entry for every number, each running task has
its last transition in the log. What truncation drops is a prefix, so that the last transition that is left is the last there was.

**IntentRouter** (`IntentRouterProofs`). `DeliversToAudience` is about one state:
the wildcard recursion of `topic_matches` succeeds exactly when the topic can be
cut into pieces the pattern's segments stand for, so that what `publish`
collects is the declarative audience. `RInv` adds to the types that dead letters
bear different ids, below the number of intents sent, as long as clients keep ids unique:
without it, removal by id could take the wrong one, which is what
`AnswersAreRight` excludes. `IntentsAreConserved` looks at one step of each kind.

**Capability** (`CapabilityProofs`). Inductive with `Provenance` are the types of
the certificates issued, and that an agent that is not created yet has no
initial list, so that creating one only adds roots. `MergedIsRooted` and
`SourceIsRooted` carry roots from certificates to what is granted, delegated or
run. `CountersExplained` is inductive with the types of its counters; each path
through `execute_tool` moves both of its sides.

**Memory** (`ServicesProofs`). `IndexExact` is not inductive: a removal lowers the
frequency of a term that only an overwritten text had. `FrequenciesAhead` says by how
much a frequency can be ahead of the chunks that hold the term, the number of
stores over a stored chunk. Tiers are bounded with the limits last enforced and the
promotions since.

**Gateway, TokenBudget, Speculative** (`ServicesProofs`). *Gateway:* one lemma per
pair of conversions says that one undoes the other, but for the drift named;
`GInv` says that what is kept is what the first request made, or, once relayed, its
drift, and that a drift does not drift again. *TokenBudget:* what `retain` leaves
is no more than what was there (`Tokens` of a recursive function over lists);
`BInv` adds that, within the kernel's use, the window counts nothing that was not
consumed. The three action properties follow step by step. *Speculative:*
`SpeculationInv` balances budget, reservations and payments, says that the
results are those of the completed branches, with one novel result per output,
and that the two counters count branches. The fold of `fork` is reduced to a
recursion that takes the greatest position last, of which `SpawnedStays` shows that what no candidate breaks
the whole fork does not break.

**LlmCall** (`LlmCallProofs`). *Fallback:* `FInv` says that the drivers asked, followed
by those still to ask, are the registered ones in the order of a ranking
(`AskedInOrder`), that all but the last asked have failed, and how far the request
is. A ranking is an injection of places, so that a driver is asked no more often
than it is registered (`AskedAsRegistered`). *Stream:* `ToolCallsWhole` speaks of
the answer, and the answer depends on chunks, buffer, parser and caller's locals;
`StreamInv` ties all of them to one number, that of the lines of the script
heard so far. The recursive line extraction is solved first (`ExtractedSolves`)
and shown to cut a run of pieces at its newlines (`LinesExtracted`); then lines at
hand, buffer and wire are, joined, the rest of the script wherever chunks ended
(`Aligned`, `Fits`). `Heard` says what parser and caller hold after the first n lines: all texts
and calls told so far, and in the parser the call under way: for OpenAI the
fragments of every call begun, by index (`HeardOpenAI`), for Anthropic those of
the open block (`HeardAnthropic`), for Ollama nothing (`HeardOllama`). One lemma per
parser carries it over a line (`OpenAIHears`, `AnthropicHears`, `OllamaHears`); half a
line, which a cut stream leaves, is not JSON and changes nothing (`MalformedHeard`). After the
end marker everything has been heard, once (`Whole`).

*Model-checked only.* The liveness properties, `DispatchedTasksSettle`,
`QueueIsServed` and `ShutdownStopsLoop` of `Kernel` and what the run `no_starvation`
refutes: liveness under fairness and ENABLED are beyond the prover used here. None of the three
leans on the bound of submissions: each speaks of one task in hand, of the queue
as a whole, or of the flag. That each *accepted* task is dispatched in the end is
not among them, because it is false: `no_starvation` has a task that is passed over for ever.
Every other property of a passing run is stated by a theorem.

## 5. What the code does, where a reader may expect something else

The five violation runs above, and, seen while modelling:

- A write-back makes its agent Idle whatever else the agent has queued
  (agent.rs:85), undoes a pause, and leaves the process state as it was; an
  agent may say Running without any work.
- Suspended and terminated agents accept tasks (agent.rs:98 is not consulted),
  and queued tasks of suspended agents start (agent.rs:89).
- `max_tool_calls_per_task` bounds rounds, not calls; the reasoning timeout is
  never read (agent.rs:48-50).
- `destroy_agent` journals no cancellation (kernel.rs:611) although journal.rs:4
  says "every state transition", so `in_flight_tasks` may go on reporting the tasks
  of a destroyed agent; `InFlightSound` excepts them. Truncation drops entries of
  tasks in flight (journal.rs:148) although journal.rs:7 speaks of "committed
  entries"; `InFlightComplete` speaks of logs that dropped nothing.
- The top of the heap need not have the highest score (scheduler.rs:158 says it does):
  nothing puts entries in order again that aged at different rates.
- `destroy_agent` leaves the agent's subscriptions (kernel.rs:617): an intent that
  only they match counts as delivered, into a mailbox made anew that nobody reads,
  and is never a dead letter.
- Tool calls are counted by `execute_tool` and again at completion; tokens of a
  pipeline that fails in a later round are dropped.
- The journal exceeds its maximum by one entry (journal.rs:91), and nothing
  persists or replays it although
  journal.rs:6 speaks of recovery. Write-back journals a transition *from*
  Running whatever the record said.
- The state of a submitted task is the client's (kernel.rs:714): a task may say
  Running or Completed without the kernel having run it, and the journal does not
  know. Its id is the client's too, and may be in the queue twice.
- Of tasks with equal priority the one handed out need not be the oldest: ages are
  cut to seconds, and ties that break later leave the heap out of order
  (scheduler.rs:83).
- A dead letter is requeued by its id, so after a retry under the same id a
  poll may be answered with an intent that does not match (kernel.rs:830); a
  newer mail may overtake an older dead letter.
- A multicast that names an
  agent twice is delivered to it twice. The ttl of intents (intent.rs:21,
  "expired ones are dropped") is never read.
- `with_max_dead_letters(0)` makes the first undeliverable intent panic
  (intent_router.rs:192); `RouterAssumption` excludes it.
- A refund does not return tokens to the rate-limit window, whose cap is the
  hard limit (token_budget.rs:55-57).
- Attenuation compares a scope only when its pattern is longer: a delegation may
  replace `dir/**` by a shorter pattern of any other place, although
  capability.rs:185 asks for a subset of the old scope (capability.rs:203). So flags descend
  along every chain (`Provenance`), scopes do not.
- Granting matches a pattern as if it were a resource, so the holder of `a/*` may
  grant `a/**`; `SYSTEM` is exempt from the check but is never an agent, so the
  exemption is unreachable (kernel.rs:883-890).
- Certificates delegated from a revoked one stay valid; anybody may revoke;
  constraints and time windows are stored and never checked.
- Storing a chunk over another leaves the old terms' frequencies and counts a
  document more (memory/service.rs:86-97).
- `fail_branch` refunds in any state, and completing, starting or failing a
  branch that is over is not refused: tokens can be minted
  (speculative.rs:220-257, 310-320). `is_redundant` compares with the results
  still held, not with "merged results" (speculative.rs:356): an output that was
  merged before is novel again.
- The OpenAI parser accumulates by stream index, not "by call id"
  (openai.rs:162); Ollama numbers the calls of every line from the start, so two
  lines yield the same ids.
- The bonus for critical priority is the same for every driver, so it changes no
  ranking (model_router.rs:150-154).
- An agent read and submitted again loses its capabilities, a negotiation
  becomes a request for approval, an external source the user, a belief loses its
  confidence, a priority is cut to a byte (server.rs:450, 346, 393, 271, 501). A
  subscription that names only a capability type gets that name as its topic
  pattern too (server.rs:702). `query_memory` answers with the rank of the answer in
  the field of the chunk's importance (memory/service.rs:329). `forget_memory` answers any error with "not found".

## 6. Not modelled

The context window: no code appends to it, so that the prompt's context is empty
in every state. Protocol definitions are generated. Of the parts listed as
partly modelled: COI arithmetic, scores of memory chunks, token and latency
statistics, prompt texts, the pipeline's text stages, injection patterns and the
sanitizer, and the I/O of tools and HTTP requests are data or single calls, with
any result. The gRPC handlers that only pass an id to the kernel are not
repeated in `Gateway`.

## 7. Plan

Each planned module is written and each of its safety and action properties
proved. What could still be added: token statistics in the loop of `Kernel`, so
that the tokens dropped when a later round fails (kernel.rs:272) become one; COI
arithmetic and its effect on priorities; the pipeline's five stages between two
calls of `LlmCall`; and the S-Clock scores that choose what `Memory` evicts. Five
hazards have no property, for the reason their note gives: those token counts, an
id used for two intents, the subscriptions of a destroyed agent, certificates
delegated from a revoked one, and the priority cut to a byte.
