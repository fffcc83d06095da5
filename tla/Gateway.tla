------------------------------ MODULE Gateway ------------------------------
(***************************************************************************)
(* The gRPC front of the kernel, lakd's server.rs: requests are converted  *)
(* from the wire and refused or handed to the kernel, and what the kernel  *)
(* holds is converted back for the answers. Followed here is one record of *)
(* one kind that clients submit, read, and submit again as they read it, a *)
(* client's copy and the kernel's drifting apart if the conversions do not *)
(* agree. What the kernel does with a record is in the other modules; here *)
(* it keeps the record or answers with an error.                           *)
(*                                                                         *)
(* A number of an enumeration is written as the name it has in the         *)
(* protocol, "Other" being one that has none or is not handled. Texts,     *)
(* times and the lists of references are copied and left out.              *)
(***************************************************************************)
EXTENDS Integers

CONSTANTS
  WireAgents,      \* [capabilities, max_tool_calls], possibly Missing
  WireTasks,       \* [type, state, urgency], urgency possibly Missing
  WireIntents,     \* [type, target]
  WireChunks,      \* [tier, metadata], metadata possibly Missing
  WireGrants,      \* [cap_type, permissions]
  KernelErrors,    \* errors the kernel answers with
  SystemId,        \* AgentId::SYSTEM
  Missing,         \* an optional field left out
  BadId            \* an id that is no UUID

VARIABLES
  kind,            \* the kind of record
  kept,            \* what the kernel holds, or Missing
  seen,            \* what a client has read, or Missing
  status,          \* the code of the last answer
  origin,          \* history: what the kernel got of the first request
  relayed          \* history: a client has submitted what it read

gateway_vars == <<kind, kept, seen, status, origin, relayed>>

Kinds == {"Agent", "Task", "Intent", "Chunk", "Grant"}

-----------------------------------------------------------------------------
(* Enumerations *)

\* f where it is defined, and otherwise the default.
Default(f, x, default) == IF x \in DOMAIN f THEN f[x] ELSE default

Same(S) == [x \in S |-> x]

TaskTypes == {"Reasoning", "ToolExecution", "MemoryRetrieval",
              "IntentProcessing", "IdleReflection", "SystemTask"}
TaskTypeFromPb(t) == Default(Same(TaskTypes), t, "Reasoning")

\* The states that have one name on both sides. The reason of a block and the
\* error of a failure are not read.
TaskStates == {"Pending", "Ready", "Running", "Blocked", "AwaitingTool",
               "AwaitingIntent", "Suspended", "Completed", "Failed", "Cancelled"}
TaskStateFromPb(s) ==
  IF s = "AwaitingLlm" THEN "AwaitingLLM" ELSE Default(Same(TaskStates), s, "Pending")
TaskStateToPb(s) == IF s = "AwaitingLLM" THEN "AwaitingLlm" ELSE s

IntentTypeFromPb(t) ==
  Default([Query |-> "Query", Command |-> "Delegate",
           Notification |-> "Inform", Request |-> "RequestApproval",
           Response |-> "Respond", Error |-> "Negotiate"], t, "Inform")

IntentTypeToPb(t) ==
  [Query |-> "Query", Delegate |-> "Command", Inform |-> "Notification",
   RequestApproval |-> "Request", Respond |-> "Response",
   Negotiate |-> "Request", Monitor |-> "Query"][t]

MemoryTierFromPb(t) ==
  Default([Working |-> "Working", Short |-> "ShortTerm", Long |-> "LongTerm",
           Archival |-> "Archival"], t, "ShortTerm")

MemoryTierToPb(t) ==
  [Working |-> "Working", ShortTerm |-> "Short", LongTerm |-> "Long",
   Archival |-> "Archival"][t]

\* The confidence of a belief is not read.
FactualityFromPb(f) == Default(Same({"Fact", "Hearsay"}), f, "Belief")

MemorySourceFromPb(s) ==
  Default([Reasoning |-> "AgentReasoning", Observation |-> "UserInput",
           ToolOutput |-> "ToolOutput"], s, "ExternalSource")

MemorySourceToPb(s) ==
  [UserInput |-> "Observation", AgentReasoning |-> "Reasoning",
   ToolOutput |-> "ToolOutput", OtherAgent |-> "Observation",
   ExternalSource |-> "Observation"][s]

CapTypeFromPb(t) ==
  Default([FileRead |-> "FileRead", FileWrite |-> "FileWrite",
           FileDelete |-> "FileDelete", ShellExec |-> "ProcessExecute",
           NetworkHttp |-> "NetworkHttp", NetworkRaw |-> "NetworkTcp",
           AgentCreate |-> "AgentCreate", AgentDestroy |-> "AgentDestroy",
           MemoryShare |-> "MemoryShare", IntentSend |-> "IntentSend",
           LlmCall |-> "LLMCall", LlmStream |-> "LLMCall"], t, "ToolExecute")

\* Only types that CapTypeFromPb yields are held by agents made over the wire.
CapTypeToPb(t) ==
  [FileRead |-> "FileRead", FileWrite |-> "FileWrite",
   FileDelete |-> "FileDelete", ProcessExecute |-> "ShellExec",
   NetworkHttp |-> "NetworkHttp", NetworkTcp |-> "NetworkRaw",
   AgentCreate |-> "AgentCreate", AgentDestroy |-> "AgentDestroy",
   MemoryShare |-> "MemoryShare", IntentSend |-> "IntentSend",
   LLMCall |-> "LlmCall", ToolExecute |-> "SubprocessSpawn"][t]

\* Names of capability types that a filter may hold.
CapTypes == {"FileRead", "FileWrite", "FileDelete", "NetworkHttp", "NetworkTcp",
             "ProcessExecute", "AgentCreate", "AgentDestroy", "MemoryShare",
             "IntentSend", "LLMCall", "ToolExecute"}
CapTypeFromName(name) == Default(Same(CapTypes), name, "ToolExecute")

Permissions8 == {"READ", "WRITE", "EXECUTE", "DELETE", "CREATE", "DELEGATE",
                 "ATTENUATE", "ADMIN"}

-----------------------------------------------------------------------------
(* Targets of an intent: [type, ids, filters] on the wire *)

Broadcast == [type |-> "Broadcast"]

\* A single target without an agent is the system; the filters of another
\* type are not looked at. "Other" stands for the types with no case.
IntentTargetFromPb(t) ==
  CASE t.type = "Unicast"   ->
         [type |-> t.type, id |-> IF t.ids = <<>> THEN SystemId ELSE t.ids[1]]
    [] t.type = "Multicast" -> [type |-> t.type, ids |-> t.ids]
    [] t.type = "ByCapability" ->
         [type |-> t.type, hint |-> t.filters.hint,
          cap_type |-> CapTypeFromName(t.filters.cap_type)]
    [] t.type = "PublishSubscribe" ->
         [type |-> t.type, pattern |-> IF t.filters.pattern = Missing THEN ""
                                       ELSE t.filters.pattern]
    [] t.type \in {"Broadcast", "Other"} -> Broadcast

NoFilters == [cap_type |-> Missing, hint |-> Missing, pattern |-> Missing]

\* Mutant: the hint is not written.
IntentTargetToPb_NoHint(t) ==
  CASE t.type = "Broadcast" -> [type |-> t.type, ids |-> <<>>, filters |-> NoFilters]
    [] t.type = "Unicast"   ->
         [type |-> t.type, ids |-> <<t.id>>, filters |-> NoFilters]
    [] t.type = "Multicast" -> [type |-> t.type, ids |-> t.ids, filters |-> NoFilters]
    [] t.type = "ByCapability" ->
         [type |-> t.type, ids |-> <<>>,
          filters |-> [NoFilters EXCEPT !.cap_type = t.cap_type]]
    [] t.type = "PublishSubscribe" ->
         [type |-> t.type, ids |-> <<>>,
          filters |-> [NoFilters EXCEPT !.pattern = t.pattern]]

IntentTargetToPb(t) ==
  CASE t.type = "Broadcast" -> [type |-> t.type, ids |-> <<>>, filters |-> NoFilters]
    [] t.type = "Unicast"   ->
         [type |-> t.type, ids |-> <<t.id>>, filters |-> NoFilters]
    [] t.type = "Multicast" -> [type |-> t.type, ids |-> t.ids, filters |-> NoFilters]
    [] t.type = "ByCapability" ->
         [type |-> t.type, ids |-> <<>>,
          filters |-> [NoFilters EXCEPT !.cap_type = t.cap_type, !.hint = t.hint]]
    [] t.type = "PublishSubscribe" ->
         [type |-> t.type, ids |-> <<>>,
          filters |-> [NoFilters EXCEPT !.pattern = t.pattern]]

\* Only the ids a target uses are parsed.
TargetRefused(t) ==
  \/ t.type = "Unicast" /\ t.ids # <<>> /\ t.ids[1] = BadId
  \/ t.type = "Multicast" /\ \E i \in DOMAIN t.ids : t.ids[i] = BadId

-----------------------------------------------------------------------------
(* Records *)

CapabilityFromPb(c) ==
  [cap_type |-> CapTypeFromPb(c.cap_type),
   permissions |-> c.permissions \cap Permissions8]
CapabilityToPb(c) ==
  [cap_type |-> CapTypeToPb(c.cap_type), permissions |-> c.permissions]

\* A spec without a configuration gets the default one.
AgentSpecFromPb(spec) ==
  [capabilities |-> {CapabilityFromPb(c) : c \in spec.capabilities},
   max_tool_calls |-> IF spec.max_tool_calls = Missing THEN 20
                      ELSE spec.max_tool_calls]

\* An agent is shown without its capabilities.
AgentToPb(agent) == [agent EXCEPT !.capabilities = {}]

\* A priority is cut to a byte.
CognitiveTaskFromPb(w) ==
  [type |-> TaskTypeFromPb(w.type), state |-> TaskStateFromPb(w.state),
   urgency |-> IF w.urgency = Missing THEN 40 ELSE w.urgency % 256]
CognitiveTaskToPb(task) == [task EXCEPT !.state = TaskStateToPb(@)]

IntentMessageFromPb(w) ==
  [type |-> IntentTypeFromPb(w.type), target |-> IntentTargetFromPb(w.target)]
IntentMessageToPb(m) ==
  [type |-> IntentTypeToPb(m.type), target |-> IntentTargetToPb(m.target)]

MemoryChunkFromPb(w) ==
  [tier |-> MemoryTierFromPb(w.tier),
   source |-> IF w.metadata = Missing THEN "ExternalSource"
              ELSE MemorySourceFromPb(w.metadata.source),
   factuality |-> IF w.metadata = Missing THEN "Belief"
                  ELSE FactualityFromPb(w.metadata.factuality)]
MemoryChunkToPb(chunk) ==
  [tier |-> MemoryTierToPb(chunk.tier),
   metadata |-> [source |-> MemorySourceToPb(chunk.source),
                 factuality |-> chunk.factuality]]

\* What requests may leave in the kernel, and metadata on the wire.
IntentTypes == {"Query", "Delegate", "Inform", "RequestApproval", "Respond", "Negotiate"}
TierNames == {"Working", "ShortTerm", "LongTerm", "Archival"}
SourceNames == {"AgentReasoning", "UserInput", "ToolOutput", "ExternalSource"}
FactualityNames == {"Fact", "Hearsay", "Belief"}

Grants == [cap_type: CapTypes, permissions: SUBSET Permissions8]
AgentSpecs == [capabilities: SUBSET Grants, max_tool_calls: Nat]
CognitiveTasks ==
  [type: TaskTypes, state: TaskStates \cup {"AwaitingLLM"}, urgency: 0..255]
IntentMessages ==
  [type: IntentTypes, target: {IntentTargetFromPb(w.target) : w \in WireIntents}]
MemoryChunks == [tier: TierNames, source: SourceNames, factuality: FactualityNames]
Metadata == [source: {"Observation", "Reasoning", "ToolOutput"}, factuality: FactualityNames]

\* A field left out is told from every value it may have, and no record at all
\* from every record.
ASSUME GatewayAssumption ==
  /\ Missing \notin Nat \cup {""} \cup Metadata
  /\ Missing \notin AgentSpecs \cup CognitiveTasks \cup IntentMessages \cup MemoryChunks \cup Grants
  /\ \A w \in WireAgents : w.max_tool_calls \in Nat \cup {Missing}
  /\ \A w \in WireTasks : w.urgency \in Nat \cup {Missing}
  /\ \A w \in WireIntents :
       w.target.type \in {"Broadcast", "Unicast", "Multicast", "ByCapability",
                         "PublishSubscribe", "Other"}

Code(error) ==
  CASE error \in {"AgentNotFound", "TaskNotFound", "IntentNotFound",
                  "MemoryNotFound"} -> "not_found"
    [] error \in {"PromptInjection", "DelegationError",
                  "InsufficientCapability"} -> "permission_denied"
    [] error \in {"ContextOverflow", "ResourceExhausted", "TokenBudgetExceeded",
                  "AgentLimitReached"} -> "resource_exhausted"
    [] error = "Timeout" -> "deadline_exceeded"
    [] error = "NotImplemented" -> "unimplemented"
    [] OTHER -> "internal"

-----------------------------------------------------------------------------
(* Handlers *)

GatewayInit ==
  /\ kind \in Kinds
  /\ kept = Missing
  /\ seen = Missing
  /\ status = "ok"
  /\ origin = Missing
  /\ relayed = FALSE

\* The kernel takes the record and keeps it.
Accepted(record) ==
  /\ kept' = record
  /\ status' = "ok"
  /\ origin' = IF origin = Missing THEN record ELSE origin

\* A request without its record or with an id that is no UUID.
Refused ==
  /\ status' = "invalid_argument"
  /\ UNCHANGED <<kept, origin>>

KernelFails ==
  /\ \E error \in KernelErrors : status' = Code(error)
  /\ UNCHANGED <<kept, origin>>

\* The records a request of a kind may hold, Missing if the client sends
\* none: a new one at first, and later the one it has read.
Wires(k, new) ==
  CASE kind # k -> {}
    [] kind = k /\ kept = Missing -> new \cup {Missing}
    [] kind = k /\ kept # Missing /\ seen # Missing -> {seen}
    [] OTHER -> {}

Sent == relayed' = (relayed \/ kept # Missing) /\ UNCHANGED <<kind, seen>>

CreateAgentRequest(wire) ==
  /\ Sent
  /\ \/ wire = Missing /\ Refused
     \/ wire # Missing /\ (Accepted(AgentSpecFromPb(wire)) \/ KernelFails)

SubmitTaskRequest(wire, id) ==
  /\ Sent
  /\ \/ (wire = Missing \/ id = BadId) /\ Refused
     \/ /\ wire # Missing /\ id # BadId
        /\ Accepted(CognitiveTaskFromPb(wire)) \/ KernelFails

\* An intent may come without its target.
SendIntentRequest(wire, has_target) ==
  /\ Sent
  /\ \/ /\ wire = Missing \/ ~has_target \/ (wire # Missing /\ TargetRefused(wire.target))
        /\ Refused
     \/ /\ wire # Missing /\ has_target /\ ~TargetRefused(wire.target)
        /\ Accepted(IntentMessageFromPb(wire)) \/ KernelFails

StoreMemoryRequest(wire, id) ==
  /\ Sent
  /\ \/ (wire = Missing \/ id = BadId) /\ Refused
     \/ /\ wire # Missing /\ id # BadId
        /\ Accepted(MemoryChunkFromPb(wire)) \/ KernelFails

GrantCapabilityRequest(wire, id) ==
  /\ Sent
  /\ \/ (wire = Missing \/ id = BadId) /\ Refused
     \/ /\ wire # Missing /\ id # BadId
        /\ Accepted(CapabilityFromPb(wire)) \/ KernelFails

\* The read requests of the five kinds, each through its conversion.  That a
\* memory query also promotes chunks and rewrites the scores it answers with is
\* Memory's.
Holds(k) == kind = k /\ kept # Missing

Shown(record) ==
  /\ seen' = record
  /\ status' = "ok"
  /\ UNCHANGED <<kind, kept, origin, relayed>>

GetAgentRequest        == Holds("Agent") /\ Shown(AgentToPb(kept))
GetTaskRequest         == Holds("Task") /\ Shown(CognitiveTaskToPb(kept))
AwaitIntentRequest     == Holds("Intent") /\ Shown(IntentMessageToPb(kept))
QueryMemoryRequest     == Holds("Chunk") /\ Shown(MemoryChunkToPb(kept))
GetCapabilitiesRequest == Holds("Grant") /\ Shown(CapabilityToPb(kept))

Ids == {SystemId, BadId}

GatewayNext ==
  \/ \E wire \in Wires("Agent", WireAgents) : CreateAgentRequest(wire)
  \/ \E wire \in Wires("Task", WireTasks), id \in Ids :
       SubmitTaskRequest(wire, id)
  \/ \E wire \in Wires("Intent", WireIntents), has_target \in BOOLEAN :
       SendIntentRequest(wire, has_target)
  \/ \E wire \in Wires("Chunk", WireChunks), id \in Ids :
       StoreMemoryRequest(wire, id)
  \/ \E wire \in Wires("Grant", WireGrants), id \in Ids :
       GrantCapabilityRequest(wire, id)
  \/ GetAgentRequest
  \/ GetTaskRequest
  \/ AwaitIntentRequest
  \/ QueryMemoryRequest
  \/ GetCapabilitiesRequest

GatewaySpec == GatewayInit /\ [][GatewayNext]_gateway_vars

-----------------------------------------------------------------------------
(* Properties *)

\* What becomes of a record that a client reads and submits again: an agent
\* loses its capabilities, a negotiation turns into a request for approval,
\* and a chunk of an external source into one of the user's.
Drifted(record) ==
  CASE kind = "Agent"  -> [record EXCEPT !.capabilities = {}]
    [] kind = "Intent" -> IF record.type = "Negotiate"
                          THEN [record EXCEPT !.type = "RequestApproval"]
                          ELSE record
    [] kind = "Chunk"  -> IF record.source = "ExternalSource"
                          THEN [record EXCEPT !.source = "UserInput"] ELSE record
    [] OTHER           -> record

\* The two directions of every conversion agree: a record that is read and
\* submitted any number of times stays what the first request made of it, but
\* for the three kinds of drift above, which happen once; a request that is
\* refused or fails leaves the record alone.
RelayStable ==
  /\ status # "ok" /\ origin = Missing => kept = Missing /\ seen = Missing
  /\ kept # Missing => kept = origin \/ (relayed /\ kept = Drifted(origin))

=============================================================================
