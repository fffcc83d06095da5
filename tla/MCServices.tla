------------------------------ MODULE MCServices ------------------------------
(***************************************************************************)
(* Small instances of five services: an agent's memory and token budget,   *)
(* the speculative engine, one request to the language models and the gRPC *)
(* conversions. They share no state, so that a behaviour follows one of    *)
(* them, its focus, and the others stay in one initial state.              *)
(***************************************************************************)
EXTENDS Memory, TokenBudget, Speculative, LlmCall, Gateway, TLC

CONSTANTS k1, k2, k3, o1, o2, g1

VARIABLE focus

\* The ids of chunks and the outputs of branches are interchangeable.
Symmetry == Permutations({k1, k2, k3}) \cup Permutations({o1, o2})

-----------------------------------------------------------------------------
(* Memory: one term, so that a text matches a query or does not *)

Limits(w, s, l) ==
  [short_hits |-> 1, long_hits |-> 2,
   max |-> [Working |-> w, ShortTerm |-> s, LongTerm |-> l]]
MCDefaultTiers == Limits(2, 1, 1)
MCThresholds == {Limits(1, 1, 1)}

-----------------------------------------------------------------------------
(* Speculative *)

Candidate(c, e) == [confidence |-> c, estimated |-> e]
MCCandidateLists == {<<Candidate(2, 1), Candidate(3, 2)>>,
                     <<Candidate(1, 1), Candidate(2, 2)>>}

-----------------------------------------------------------------------------
(* LlmCall: two calls each, the first in two fragments where there are some *)

TextLine(x) == [type |-> "text", text |-> x]
Delta(i, id, name, f) ==
  [type |-> "delta", index |-> i, id |-> id, name |-> name, args |-> <<f>>]
BlockStart(id, name) == [type |-> "block_start", id |-> id, name |-> name]
BlockJson(f) == [type |-> "block_json", args |-> <<f>>]
BlockStop == [type |-> "block_stop"]
Usage(n) == [type |-> "usage", tokens |-> n]
EndMarker == [type |-> "done"]

TwoCalls(id0, id1) ==
  <<[id |-> id0, name |-> <<"n0">>, args |-> <<Fragment(1, 1, 2), Fragment(1, 2, 2)>>],
    [id |-> id1, name |-> <<"n1">>, args |-> <<Fragment(2, 1, 1)>>]>>

MCOpenAIScript ==
  [name |-> "openai", texts |-> <<"x">>, calls |-> TwoCalls("i0", "i1"),
   tokens |-> 7,
   lines |-> <<TextLine("x"), Delta(0, "i0", <<"n0">>, Fragment(1, 1, 2)),
               Delta(1, "i1", <<"n1">>, Fragment(2, 1, 1)),
               Delta(0, "", <<>>, Fragment(1, 2, 2)), Usage(7), EndMarker>>]

MCAnthropicScript ==
  [name |-> "anthropic", texts |-> <<"y">>, calls |-> TwoCalls("i0", "i1"),
   tokens |-> 5,
   lines |-> <<BlockStart("i0", <<"n0">>), BlockJson(Fragment(1, 1, 2)),
               BlockJson(Fragment(1, 2, 2)), BlockStop, TextLine("y"),
               BlockStart("i1", <<"n1">>), BlockJson(Fragment(2, 1, 1)),
               Usage(5), EndMarker>>]

Whole(call) == [name |-> call.name, args |-> call.args]
MCOllamaScript ==
  [name |-> "ollama", texts |-> <<"z">>, calls |-> TwoCalls(1, 2), tokens |-> 3,
   lines |-> <<TextLine("z"),
               [type |-> "calls",
                calls |-> <<Whole(TwoCalls(1, 2)[1]), Whole(TwoCalls(1, 2)[2])>>],
               [type |-> "done", tokens |-> 3]>>]

\* A provider that reports an error in the middle of a call.
MCFailingScript ==
  [name |-> "openai", texts |-> <<"w">>, calls |-> TwoCalls("i0", "i1"),
   tokens |-> 0,
   lines |-> <<TextLine("w"), Delta(0, "i0", <<"n0">>, Fragment(1, 1, 2)),
               [type |-> "error"]>>]

MCScripts == {MCOpenAIScript, MCAnthropicScript, MCOllamaScript, MCFailingScript}

Driver(n, c) == [name |-> n, cost |-> c]
MCDriverLists ==
  {<<>>, <<Driver("ollama", 0), Driver("openai", 250), Driver("anthropic", 1500)>>}
MCLlmTasks ==
  {[type |-> "Reasoning", length |-> 600, private |-> FALSE, priority |-> 50],
   [type |-> "IdleReflection", length |-> 10, private |-> TRUE, priority |-> 90]}

-----------------------------------------------------------------------------
(* Gateway: every number of every enumeration, and one that has no name *)

MCWireGrants ==
  [cap_type: {"FileRead", "FileWrite", "FileDelete", "ShellExec", "NetworkHttp",
              "NetworkRaw", "AgentCreate", "AgentDestroy", "MemoryShare",
              "IntentSend", "LlmCall", "LlmStream", "DatabaseRead",
              "SubprocessSpawn", "Other"},
   permissions: {{"READ"}, {"READ", "DELEGATE", "UNKNOWN"}}]
MCWireAgents ==
  [capabilities: {{}} \cup {{c} : c \in MCWireGrants},
   max_tool_calls: {Missing, 3}]
MCWireTasks ==
  [type: TaskTypes \cup {"Other"},
   state: TaskStates \cup {"AwaitingLlm", "Other"},
   urgency: {Missing, 80, 255, 300}]

Filters(c, h, p) == [cap_type |-> c, hint |-> h, pattern |-> p]
MCWireIntents ==
  [type: {"Query", "Command", "Notification", "Request", "Response", "Error",
          "Other"},
   target: [type: {"Broadcast", "Unicast", "Multicast", "ByCapability",
                   "PublishSubscribe", "Other"},
            ids: {<<>>, <<g1>>, <<BadId, g1>>},
            filters: {NoFilters, Filters("LLMCall", "h", Missing),
                      Filters("MemoryRead", Missing, "p")}]]
MCWireChunks ==
  [tier: {"Working", "Short", "Long", "Archival", "Other"},
   metadata: {Missing} \cup
     [source: {"Reasoning", "Observation", "ToolOutput", "Other"},
      factuality: {"Fact", "Belief", "Hearsay", "Other"}]]

-----------------------------------------------------------------------------

Services == {"memory", "budget", "speculative", "llm", "gateway"}

ServicesInit ==
  /\ focus \in Services
  /\ MemoryInit
  /\ Init /\ (focus # "budget" => ~api_calls)
  /\ SpeculativeInit
  /\ LlmInit
  /\ focus # "llm" => request = [mode |-> "Pipeline", drivers |-> <<>>,
                                 task |-> CHOOSE task \in MCLlmTasks : TRUE]
  /\ GatewayInit
  /\ focus # "gateway" => kind = "Agent"

ServicesNext ==
  \/ /\ focus = "memory" /\ MemoryNext
     /\ UNCHANGED <<focus, vars, speculative_vars, llm_vars, gateway_vars>>
  \/ /\ focus = "budget" /\ Next
     /\ UNCHANGED <<focus, memory_vars, speculative_vars, llm_vars, gateway_vars>>
  \/ /\ focus = "speculative" /\ SpeculativeNext
     /\ UNCHANGED <<focus, memory_vars, vars, llm_vars, gateway_vars>>
  \/ /\ focus = "llm" /\ LlmNext
     /\ UNCHANGED <<focus, memory_vars, vars, speculative_vars, gateway_vars>>
  \/ /\ focus = "gateway" /\ GatewayNext
     /\ UNCHANGED <<focus, memory_vars, vars, speculative_vars, llm_vars>>

ServicesSpec ==
  ServicesInit /\ [][ServicesNext]_<<focus, memory_vars, vars, speculative_vars,
                                     llm_vars, gateway_vars>>
=============================================================================
