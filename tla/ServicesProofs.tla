---------------------------- MODULE ServicesProofs ----------------------------
(***************************************************************************)
(* Theorems about services around the kernel: what the gRPC front makes of *)
(* a record that is read and submitted again, what the token budget        *)
(* grants and denies, what the speculative engine does with the tokens and *)
(* the results of its branches, and the index and the limits of the tiers  *)
(* of the memory; for any values of their constants and any number of      *)
(* calls.                                                                  *)
(***************************************************************************)
EXTENDS Gateway, Memory, TokenBudget, Speculative, Induction, SequenceTheorems

-----------------------------------------------------------------------------
(* The conversions of server.rs *)

\* No value of an optional field, and no record, is taken for its absence.
LEMMA LeftOut ==
  /\ \A n \in Nat : n # Missing
  /\ "" # Missing
  /\ \A d \in Metadata : d # Missing
  /\ \A r \in AgentSpecs : r # Missing
  /\ \A r \in CognitiveTasks : r # Missing
  /\ \A r \in IntentMessages : r # Missing
  /\ \A r \in MemoryChunks : r # Missing
  /\ \A r \in Grants : r # Missing
  BY GatewayAssumption, Zenon

LEMMA SameKeeps ==
  \A S, x, default : Default(Same(S), x, default) = IF x \in S THEN x ELSE default
  BY Zenon DEF Default, Same

LEMMA TypesReturn ==
  /\ \A t : TaskTypeFromPb(t) \in TaskTypes
  /\ \A t \in TaskTypes : TaskTypeFromPb(t) = t
  <1>1. "Reasoning" \in TaskTypes
    BY DEF TaskTypes
  <1>2. \A t : TaskTypeFromPb(t) = IF t \in TaskTypes THEN t ELSE "Reasoning"
    BY SameKeeps, Zenon DEF TaskTypeFromPb
  <1>3. QED
    BY <1>1, <1>2

LEMMA StatesReturn ==
  /\ \A s : TaskStateFromPb(s) \in TaskStates \cup {"AwaitingLLM"}
  /\ \A s \in TaskStates \cup {"AwaitingLLM"} : TaskStateFromPb(TaskStateToPb(s)) = s
  <1>1. "Pending" \in TaskStates /\ "AwaitingLlm" \notin TaskStates /\ "AwaitingLLM" \notin TaskStates
    BY DEF TaskStates
  <1>2. \A s : TaskStateFromPb(s) = IF s = "AwaitingLlm" THEN "AwaitingLLM"
                                   ELSE IF s \in TaskStates THEN s ELSE "Pending"
    BY SameKeeps, Zenon DEF TaskStateFromPb
  <1>3. \A s : TaskStateToPb(s) = IF s = "AwaitingLLM" THEN "AwaitingLlm" ELSE s
    BY DEF TaskStateToPb
  <1>4. QED
    BY <1>1, <1>2, <1>3

LEMMA IntentTypesReturn ==
  /\ \A t : IntentTypeFromPb(t) \in IntentTypes
  /\ \A t \in IntentTypes : IntentTypeFromPb(IntentTypeToPb(t)) =
       IF t = "Negotiate" THEN "RequestApproval" ELSE t
  BY DEF IntentTypeFromPb, IntentTypeToPb, Default, IntentTypes

LEMMA TiersReturn ==
  /\ \A t : MemoryTierFromPb(t) \in TierNames
  /\ \A t \in TierNames : MemoryTierFromPb(MemoryTierToPb(t)) = t
  BY DEF MemoryTierFromPb, MemoryTierToPb, Default, TierNames

LEMMA SourcesReturn ==
  /\ \A s : MemorySourceFromPb(s) \in SourceNames
  /\ \A s \in SourceNames :
       /\ MemorySourceToPb(s) \in {"Observation", "Reasoning", "ToolOutput"}
       /\ MemorySourceFromPb(MemorySourceToPb(s)) =
            IF s = "ExternalSource" THEN "UserInput" ELSE s
  BY DEF MemorySourceFromPb, MemorySourceToPb, Default, SourceNames

LEMMA FactualityReturns ==
  /\ \A f : FactualityFromPb(f) \in FactualityNames
  /\ \A f \in FactualityNames : FactualityFromPb(f) = f
  <1>1. \A f : FactualityFromPb(f) = IF f \in {"Fact", "Hearsay"} THEN f ELSE "Belief"
    BY SameKeeps, Zenon DEF FactualityFromPb
  <1>2. QED
    BY <1>1 DEF FactualityNames

LEMMA CapTypesReturn ==
  /\ \A t : CapTypeFromPb(t) \in CapTypes
  /\ \A t \in CapTypes : CapTypeFromPb(CapTypeToPb(t)) = t
  BY DEF CapTypeFromPb, CapTypeToPb, Default, CapTypes

LEMMA CapNamesReturn ==
  \A t : CapTypeFromName(CapTypeFromName(t)) = CapTypeFromName(t)
  <1>1. \A t : CapTypeFromName(t) = IF t \in CapTypes THEN t ELSE "ToolExecute"
    BY SameKeeps DEF CapTypeFromName
  <1>2. "ToolExecute" \in CapTypes
    BY DEF CapTypes
  <1>3. QED
    BY <1>1, <1>2, Zenon

\* A target that a client reads is the one it sent.
LEMMA TargetsReturn ==
  ASSUME NEW w \in WireIntents
  PROVE  LET t == IntentTargetFromPb(w.target)
         IN  IntentTargetFromPb(IntentTargetToPb(t)) = t
  <1> DEFINE x == w.target
             t == IntentTargetFromPb(x)
  <1>1. /\ x.type \in {"Broadcast", "Unicast", "Multicast", "ByCapability",
                      "PublishSubscribe", "Other"}
        /\ "" # Missing
    BY LeftOut, GatewayAssumption
  <1> HIDE DEF x
  <1>2. CASE x.type = "Unicast"
    <2> DEFINE i == IF x.ids = <<>> THEN SystemId ELSE x.ids[1]
    <2>1. t = [type |-> "Unicast", id |-> i]
      BY <1>2 DEF IntentTargetFromPb
    <2> HIDE DEF i, t
    <2>2. IntentTargetToPb(t) = [type |-> "Unicast", ids |-> <<i>>, filters |-> NoFilters]
      BY <2>1 DEF IntentTargetToPb
    <2>3. <<i>> # <<>> /\ <<i>>[1] = i
      OBVIOUS
    <2>4. IntentTargetFromPb(IntentTargetToPb(t)) = [type |-> "Unicast", id |-> i]
      BY <2>2, <2>3 DEF IntentTargetFromPb
    <2>5. QED
      BY <2>1, <2>4 DEF t, x
  <1>3. CASE x.type = "Multicast"
    <2>1. t = [type |-> "Multicast", ids |-> x.ids]
      BY <1>3 DEF IntentTargetFromPb
    <2> HIDE DEF t
    <2>2. IntentTargetToPb(t) = [type |-> "Multicast", ids |-> x.ids, filters |-> NoFilters]
      BY <2>1 DEF IntentTargetToPb
    <2>3. IntentTargetFromPb(IntentTargetToPb(t)) = [type |-> "Multicast", ids |-> x.ids]
      BY <2>2 DEF IntentTargetFromPb
    <2>4. QED
      BY <2>1, <2>3 DEF t, x
  <1>4. CASE x.type = "ByCapability"
    <2> DEFINE h == x.filters.hint
               c == CapTypeFromName(x.filters.cap_type)
    <2>1. t = [type |-> "ByCapability", hint |-> h, cap_type |-> c]
      BY <1>4 DEF IntentTargetFromPb
    <2>2. CapTypeFromName(c) = c
      BY CapNamesReturn
    <2> HIDE DEF h, c, t
    <2>3. IntentTargetToPb(t) = [type |-> "ByCapability", ids |-> <<>>,
                                filters |-> [cap_type |-> c, hint |-> h, pattern |-> Missing]]
      BY <2>1 DEF IntentTargetToPb, NoFilters
    <2>4. IntentTargetFromPb(IntentTargetToPb(t)) =
            [type |-> "ByCapability", hint |-> h, cap_type |-> CapTypeFromName(c)]
      BY <2>3 DEF IntentTargetFromPb
    <2>5. QED
      BY <2>1, <2>2, <2>4 DEF t, x
  <1>5. CASE x.type = "PublishSubscribe"
    <2> DEFINE p == IF x.filters.pattern = Missing THEN "" ELSE x.filters.pattern
    <2>1. t = [type |-> "PublishSubscribe", pattern |-> p]
      BY <1>5 DEF IntentTargetFromPb
    <2>2. p # Missing
      BY <1>1
    <2> HIDE DEF p, t
    <2>3. IntentTargetToPb(t) = [type |-> "PublishSubscribe", ids |-> <<>>,
                                filters |-> [cap_type |-> Missing, hint |-> Missing, pattern |-> p]]
      BY <2>1 DEF IntentTargetToPb, NoFilters
    <2> DEFINE y == IntentTargetToPb(t)
    <2>4. IntentTargetFromPb(y) = [type |-> "PublishSubscribe", pattern |-> p]
      <3>1. y.type = "PublishSubscribe" /\ y.filters.pattern = p
        BY <2>3
      <3> HIDE DEF y
      <3>2. QED
        BY <2>2, <3>1 DEF IntentTargetFromPb
    <2>5. QED
      BY <2>1, <2>4 DEF t, x
  <1>6. CASE x.type \in {"Broadcast", "Other"}
    <2>1. t = [type |-> "Broadcast"]
      BY <1>6 DEF IntentTargetFromPb, Broadcast
    <2> HIDE DEF t
    <2>2. IntentTargetToPb(t) = [type |-> "Broadcast", ids |-> <<>>, filters |-> NoFilters]
      BY <2>1 DEF IntentTargetToPb
    <2>3. IntentTargetFromPb(IntentTargetToPb(t)) = [type |-> "Broadcast"]
      BY <2>2 DEF IntentTargetFromPb, Broadcast
    <2>4. QED
      BY <2>1, <2>3 DEF t, x
  <1>7. QED
    BY <1>1, <1>2, <1>3, <1>4, <1>5, <1>6 DEF x

-----------------------------------------------------------------------------
(* Records read and submitted again *)

\* A record, its drift, and what a client reads of it, by kind.
Drift(k, record) ==
  CASE k = "Agent"  -> [record EXCEPT !.capabilities = {}]
    [] k = "Intent" -> IF record.type = "Negotiate"
                       THEN [record EXCEPT !.type = "RequestApproval"] ELSE record
    [] k = "Chunk"  -> IF record.source = "ExternalSource"
                       THEN [record EXCEPT !.source = "UserInput"] ELSE record
    [] OTHER        -> record

FromPb(k, wire) ==
  CASE k = "Agent"  -> AgentSpecFromPb(wire)
    [] k = "Task"   -> CognitiveTaskFromPb(wire)
    [] k = "Intent" -> IntentMessageFromPb(wire)
    [] k = "Chunk"  -> MemoryChunkFromPb(wire)
    [] k = "Grant"  -> CapabilityFromPb(wire)

ToPb(k, record) ==
  CASE k = "Agent"  -> AgentToPb(record)
    [] k = "Task"   -> CognitiveTaskToPb(record)
    [] k = "Intent" -> IntentMessageToPb(record)
    [] k = "Chunk"  -> MemoryChunkToPb(record)
    [] k = "Grant"  -> CapabilityToPb(record)

Records(k) ==
  CASE k = "Agent"  -> AgentSpecs
    [] k = "Task"   -> CognitiveTasks
    [] k = "Intent" -> IntentMessages
    [] k = "Chunk"  -> MemoryChunks
    [] k = "Grant"  -> Grants

New(k) ==
  CASE k = "Agent"  -> WireAgents
    [] k = "Task"   -> WireTasks
    [] k = "Intent" -> WireIntents
    [] k = "Chunk"  -> WireChunks
    [] k = "Grant"  -> WireGrants

LEMMA GrantsReturn ==
  /\ \A c : CapabilityFromPb(c) \in Grants
  /\ \A c \in Grants : CapabilityFromPb(CapabilityToPb(c)) = c
  <1>1. ASSUME NEW c
        PROVE  CapabilityFromPb(c) \in Grants
    <2> DEFINE x == CapTypeFromPb(c.cap_type)
               p == c.permissions \cap Permissions8
    <2>1. x \in CapTypes /\ p \in SUBSET Permissions8
      BY CapTypesReturn
    <2> HIDE DEF x, p
    <2>2. [cap_type |-> x, permissions |-> p] \in Grants
      BY <2>1 DEF Grants
    <2>3. QED
      BY <2>2 DEF CapabilityFromPb, x, p
  <1>2. ASSUME NEW c \in Grants
        PROVE  CapabilityFromPb(CapabilityToPb(c)) = c
    <2> DEFINE y == CapabilityToPb(c)
    <2>1. /\ c = [cap_type |-> c.cap_type, permissions |-> c.permissions]
          /\ c.cap_type \in CapTypes /\ c.permissions \in SUBSET Permissions8
      BY DEF Grants
    <2>2. y.cap_type = CapTypeToPb(c.cap_type) /\ y.permissions = c.permissions
      BY DEF CapabilityToPb
    <2> HIDE DEF y
    <2>3. CapTypeFromPb(y.cap_type) = c.cap_type /\ y.permissions \cap Permissions8 = c.permissions
      BY <2>1, <2>2, CapTypesReturn
    <2>4. CapabilityFromPb(y) = [cap_type |-> c.cap_type, permissions |-> c.permissions]
      BY <2>3, Zenon DEF CapabilityFromPb
    <2>5. QED
      BY <2>1, <2>4 DEF y
  <1>3. QED
    BY <1>1, <1>2

LEMMA AgentsReturn ==
  /\ \A w \in WireAgents : AgentSpecFromPb(w) \in AgentSpecs
  /\ \A r \in AgentSpecs :
       /\ Drift("Agent", r) \in AgentSpecs
       /\ AgentSpecFromPb(AgentToPb(r)) = Drift("Agent", r)
       /\ Drift("Agent", Drift("Agent", r)) = Drift("Agent", r)
  <1>1. ASSUME NEW w \in WireAgents
        PROVE  AgentSpecFromPb(w) \in AgentSpecs
    <2> DEFINE C == {CapabilityFromPb(c) : c \in w.capabilities}
               n == IF w.max_tool_calls = Missing THEN 20 ELSE w.max_tool_calls
    <2>1. C \in SUBSET Grants
      BY GrantsReturn
    <2>2. n \in Nat
      BY GatewayAssumption
    <2> HIDE DEF C, n
    <2>3. [capabilities |-> C, max_tool_calls |-> n] \in AgentSpecs
      BY <2>1, <2>2 DEF AgentSpecs
    <2>4. QED
      BY <2>3 DEF AgentSpecFromPb, C, n
  <1>2. ASSUME NEW r \in AgentSpecs
        PROVE  /\ Drift("Agent", r) \in AgentSpecs
               /\ AgentSpecFromPb(AgentToPb(r)) = Drift("Agent", r)
               /\ Drift("Agent", Drift("Agent", r)) = Drift("Agent", r)
    <2> DEFINE n == r.max_tool_calls
               d == [capabilities |-> {}, max_tool_calls |-> n]
    <2>1. n \in Nat /\ n # Missing
      BY GatewayAssumption DEF AgentSpecs
    <2>2. [r EXCEPT !.capabilities = {}] = d
      BY DEF AgentSpecs
    <2>3. Drift("Agent", r) = d /\ AgentToPb(r) = d
      BY <2>2 DEF Drift, AgentToPb
    <2> HIDE DEF n
    <2>4. d \in AgentSpecs /\ [d EXCEPT !.capabilities = {}] = d
          /\ d.max_tool_calls = n /\ d.capabilities = {}
      BY <2>1 DEF AgentSpecs
    <2> HIDE DEF d
    <2>5. Drift("Agent", d) = d
      BY <2>4 DEF Drift
    <2>6. AgentSpecFromPb(d) = d
      <3>1. {CapabilityFromPb(c) : c \in d.capabilities} = {}
        BY <2>4
      <3>2. (IF d.max_tool_calls = Missing THEN 20 ELSE d.max_tool_calls) = n
        BY <2>1, <2>4
      <3>3. AgentSpecFromPb(d) = [capabilities |-> {}, max_tool_calls |-> n]
        BY <3>1, <3>2, Zenon DEF AgentSpecFromPb
      <3>4. QED
        BY <3>3 DEF d
    <2>7. QED
      BY <2>3, <2>4, <2>5, <2>6
  <1>3. QED
    BY <1>1, <1>2

LEMMA TasksReturn ==
  /\ \A w \in WireTasks : CognitiveTaskFromPb(w) \in CognitiveTasks
  /\ \A r \in CognitiveTasks : CognitiveTaskFromPb(CognitiveTaskToPb(r)) = r
  <1>1. ASSUME NEW w \in WireTasks
        PROVE  CognitiveTaskFromPb(w) \in CognitiveTasks
    <2> DEFINE n == IF w.urgency = Missing THEN 40 ELSE w.urgency % 256
    <2>1. n \in 0..255
      <3>1. w.urgency \in Nat \cup {Missing}
        BY GatewayAssumption
      <3>2. \A u \in Nat : u % 256 \in 0..255
        OBVIOUS
      <3>3. QED
        BY <3>1, <3>2
    <2> HIDE DEF n
    <2>2. TaskTypeFromPb(w.type) \in TaskTypes
          /\ TaskStateFromPb(w.state) \in TaskStates \cup {"AwaitingLLM"}
      BY TypesReturn, StatesReturn
    <2>3. [type |-> TaskTypeFromPb(w.type), state |-> TaskStateFromPb(w.state),
           urgency |-> n] \in CognitiveTasks
      BY <2>1, <2>2 DEF CognitiveTasks
    <2>4. QED
      BY <2>3 DEF CognitiveTaskFromPb, n
  <1>2. ASSUME NEW r \in CognitiveTasks
        PROVE  CognitiveTaskFromPb(CognitiveTaskToPb(r)) = r
    <2> DEFINE y == CognitiveTaskToPb(r)
    <2>1. /\ r = [type |-> r.type, state |-> r.state, urgency |-> r.urgency]
          /\ r.type \in TaskTypes /\ r.state \in TaskStates \cup {"AwaitingLLM"}
          /\ r.urgency \in 0..255
      BY DEF CognitiveTasks
    <2>2. y.type = r.type /\ y.state = TaskStateToPb(r.state) /\ y.urgency = r.urgency
      BY DEF CognitiveTaskToPb, CognitiveTasks
    <2> HIDE DEF y
    <2>3. TaskTypeFromPb(y.type) = r.type /\ TaskStateFromPb(y.state) = r.state
      BY <2>1, <2>2, TypesReturn, StatesReturn
    <2>4. (IF y.urgency = Missing THEN 40 ELSE y.urgency % 256) = r.urgency
      <3>1. r.urgency # Missing
        <4>1. r.urgency \in Nat
          BY <2>1
        <4>2. QED
          BY <4>1, LeftOut
      <3>2. r.urgency % 256 = r.urgency
        BY <2>1
      <3>3. QED
        BY <2>2, <3>1, <3>2
    <2>5. CognitiveTaskFromPb(y) = [type |-> r.type, state |-> r.state, urgency |-> r.urgency]
      BY <2>3, <2>4, Zenon DEF CognitiveTaskFromPb
    <2>6. QED
      BY <2>1, <2>5 DEF y
  <1>3. QED
    BY <1>1, <1>2

LEMMA IntentsReturn ==
  /\ \A w \in WireIntents : IntentMessageFromPb(w) \in IntentMessages
  /\ \A r \in IntentMessages :
       /\ Drift("Intent", r) \in IntentMessages
       /\ IntentMessageFromPb(IntentMessageToPb(r)) = Drift("Intent", r)
       /\ Drift("Intent", Drift("Intent", r)) = Drift("Intent", r)
  <1> DEFINE T == {IntentTargetFromPb(w.target) : w \in WireIntents}
  <1>1. \A t \in T : IntentTargetFromPb(IntentTargetToPb(t)) = t
    BY TargetsReturn
  <1>2. \A w \in WireIntents : IntentTargetFromPb(w.target) \in T
    OBVIOUS
  <1>3. IntentMessages = [type: IntentTypes, target: T]
    BY DEF IntentMessages
  <1> HIDE DEF T
  <1>4. ASSUME NEW w \in WireIntents
        PROVE  IntentMessageFromPb(w) \in IntentMessages
    <2> DEFINE x == IntentTypeFromPb(w.type)
               t == IntentTargetFromPb(w.target)
    <2>1. x \in IntentTypes /\ t \in T
      BY <1>2, IntentTypesReturn
    <2> HIDE DEF x, t
    <2>2. [type |-> x, target |-> t] \in IntentMessages
      BY <1>3, <2>1
    <2>3. QED
      BY <2>2 DEF IntentMessageFromPb, x, t
  <1>5. ASSUME NEW r \in IntentMessages
        PROVE  /\ Drift("Intent", r) \in IntentMessages
               /\ IntentMessageFromPb(IntentMessageToPb(r)) = Drift("Intent", r)
               /\ Drift("Intent", Drift("Intent", r)) = Drift("Intent", r)
    <2> DEFINE x == r.type
               t == r.target
               y == IntentMessageToPb(r)
               z == IF x = "Negotiate" THEN "RequestApproval" ELSE x
               d == [type |-> z, target |-> t]
    <2>1. x \in IntentTypes /\ t \in T /\ r = [type |-> x, target |-> t]
      BY <1>3
    <2>2. Drift("Intent", r) = d
      <3> HIDE DEF T
      <3>1. CASE x = "Negotiate"
        <4>1. Drift("Intent", r) = [r EXCEPT !.type = "RequestApproval"]
          BY <3>1 DEF Drift
        <4>2. [r EXCEPT !.type = "RequestApproval"] = [type |-> "RequestApproval", target |-> t]
          BY <1>3
        <4>3. QED
          BY <3>1, <4>1, <4>2
      <3>2. CASE x # "Negotiate"
        <4>1. Drift("Intent", r) = r
          BY <3>2 DEF Drift
        <4>2. QED
          BY <2>1, <3>2, <4>1
      <3>3. QED
        BY <3>1, <3>2
    <2>3. y.type = IntentTypeToPb(x) /\ y.target = IntentTargetToPb(t)
      BY DEF IntentMessageToPb
    <2>4. z \in IntentTypes /\ z # "Negotiate"
      BY <2>1 DEF IntentTypes
    <2> HIDE DEF y
    <2>5. IntentTypeFromPb(y.type) = z /\ IntentTargetFromPb(y.target) = t
      BY <1>1, <2>1, <2>3, IntentTypesReturn
    <2>6. IntentMessageFromPb(y) = d
      BY <2>5, Zenon DEF IntentMessageFromPb
    <2> HIDE DEF x, t, z
    <2>7. d \in IntentMessages /\ d.type = z
      BY <1>3, <2>1, <2>4
    <2> HIDE DEF d
    <2>8. Drift("Intent", d) = d
      BY <2>4, <2>7 DEF Drift
    <2>9. QED
      BY <2>2, <2>6, <2>7, <2>8 DEF y
  <1>6. QED
    BY <1>4, <1>5

LEMMA ChunksReturn ==
  /\ \A w \in WireChunks : MemoryChunkFromPb(w) \in MemoryChunks
  /\ \A r \in MemoryChunks :
       /\ Drift("Chunk", r) \in MemoryChunks
       /\ MemoryChunkFromPb(MemoryChunkToPb(r)) = Drift("Chunk", r)
       /\ Drift("Chunk", Drift("Chunk", r)) = Drift("Chunk", r)
  <1>1. ASSUME NEW w \in WireChunks
        PROVE  MemoryChunkFromPb(w) \in MemoryChunks
    <2> DEFINE x == MemoryTierFromPb(w.tier)
               s == IF w.metadata = Missing THEN "ExternalSource"
                    ELSE MemorySourceFromPb(w.metadata.source)
               f == IF w.metadata = Missing THEN "Belief"
                    ELSE FactualityFromPb(w.metadata.factuality)
    <2>1. x \in TierNames
      BY TiersReturn
    <2>2. s \in SourceNames
      <3>1. "ExternalSource" \in SourceNames
        BY DEF SourceNames
      <3>2. QED
        BY <3>1, SourcesReturn
    <2>3. f \in FactualityNames
      <3>1. "Belief" \in FactualityNames
        BY DEF FactualityNames
      <3>2. QED
        BY <3>1, FactualityReturns
    <2>4. MemoryChunkFromPb(w) = [tier |-> x, source |-> s, factuality |-> f]
      BY DEF MemoryChunkFromPb
    <2> HIDE DEF x, s, f
    <2>5. QED
      BY <2>1, <2>2, <2>3, <2>4 DEF MemoryChunks
  <1>2. ASSUME NEW r \in MemoryChunks
        PROVE  /\ Drift("Chunk", r) \in MemoryChunks
               /\ MemoryChunkFromPb(MemoryChunkToPb(r)) = Drift("Chunk", r)
               /\ Drift("Chunk", Drift("Chunk", r)) = Drift("Chunk", r)
    <2> DEFINE x == r.tier
               s == r.source
               f == r.factuality
               y == MemoryChunkToPb(r)
               z == IF s = "ExternalSource" THEN "UserInput" ELSE s
               d == [tier |-> x, source |-> z, factuality |-> f]
    <2>1. /\ x \in TierNames /\ s \in SourceNames /\ f \in FactualityNames
          /\ r = [tier |-> x, source |-> s, factuality |-> f]
      BY DEF MemoryChunks
    <2>2. Drift("Chunk", r) = d
      <3>1. CASE s = "ExternalSource"
        <4>1. Drift("Chunk", r) = [r EXCEPT !.source = "UserInput"]
          BY <3>1 DEF Drift
        <4>2. [r EXCEPT !.source = "UserInput"] = [tier |-> x, source |-> "UserInput", factuality |-> f]
          BY DEF MemoryChunks
        <4>3. QED
          BY <3>1, <4>1, <4>2
      <3>2. CASE s # "ExternalSource"
        <4>1. Drift("Chunk", r) = r
          BY <3>2 DEF Drift
        <4>2. QED
          BY <2>1, <3>2, <4>1
      <3>3. QED
        BY <3>1, <3>2
    <2>3. /\ y.tier = MemoryTierToPb(x) /\ y.metadata.source = MemorySourceToPb(s)
          /\ y.metadata.factuality = f
          /\ y.metadata = [source |-> MemorySourceToPb(s), factuality |-> f]
      BY DEF MemoryChunkToPb
    <2>4. y.metadata # Missing
      <3>1. y.metadata \in Metadata
        BY <2>1, <2>3, SourcesReturn DEF Metadata
      <3>2. QED
        BY <3>1, LeftOut
    <2>5. z \in SourceNames /\ z # "ExternalSource"
      BY <2>1 DEF SourceNames
    <2> HIDE DEF y
    <2>6. /\ MemoryTierFromPb(y.tier) = x
          /\ MemorySourceFromPb(y.metadata.source) = z
          /\ FactualityFromPb(y.metadata.factuality) = f
      BY <2>1, <2>3, TiersReturn, SourcesReturn, FactualityReturns
    <2>7. MemoryChunkFromPb(y) = d
      BY <2>4, <2>6, Zenon DEF MemoryChunkFromPb
    <2> HIDE DEF x, s, f, z
    <2>8. d \in MemoryChunks /\ d.source = z
      BY <2>1, <2>5 DEF MemoryChunks
    <2> HIDE DEF d
    <2>9. Drift("Chunk", d) = d
      BY <2>5, <2>8 DEF Drift
    <2>10. QED
      BY <2>2, <2>7, <2>8, <2>9 DEF y
  <1>3. QED
    BY <1>1, <1>2

\* The two directions agree, but for a drift that happens once.
LEMMA ConversionsAgree ==
  ASSUME NEW k \in Kinds
  PROVE  /\ \A r \in Records(k) : r # Missing
         /\ \A w \in New(k) : FromPb(k, w) \in Records(k)
         /\ \A r \in Records(k) :
              /\ Drift(k, r) \in Records(k)
              /\ FromPb(k, ToPb(k, r)) = Drift(k, r)
              /\ Drift(k, Drift(k, r)) = Drift(k, r)
  <1>1. CASE k = "Agent"
    BY <1>1, AgentsReturn, LeftOut DEF Records, New, FromPb, ToPb
  <1>2. CASE k = "Task"
    BY <1>2, TasksReturn, LeftOut DEF Records, New, FromPb, ToPb, Drift
  <1>3. CASE k = "Intent"
    BY <1>3, IntentsReturn, LeftOut DEF Records, New, FromPb, ToPb
  <1>4. CASE k = "Chunk"
    BY <1>4, ChunksReturn, LeftOut DEF Records, New, FromPb, ToPb
  <1>5. CASE k = "Grant"
    BY <1>5, GrantsReturn, LeftOut DEF Records, New, FromPb, ToPb, Drift
  <1>6. QED
    BY <1>1, <1>2, <1>3, <1>4, <1>5 DEF Kinds

-----------------------------------------------------------------------------
(* The front *)

\* What a client has read is the record that was made first or its drift.
GInv ==
  /\ kind \in Kinds
  /\ kept = Missing => seen = Missing /\ origin = Missing
  /\ kept # Missing => /\ origin \in Records(kind)
                       /\ kept = origin \/ (relayed /\ kept = Drift(kind, origin))
  /\ seen # Missing => seen \in {ToPb(kind, origin), ToPb(kind, Drift(kind, origin))}

LEMMA GInvInit == GatewayInit => GInv
  BY DEF GatewayInit, GInv

\* Every request is refused, fails, or leaves what its conversion makes of a
\* new record or of what the client has read.
LEMMA RequestParts ==
  ASSUME NEW k, NEW wire \in Wires(k, New(k))
  PROVE  /\ kind = k
         /\ \/ kept = Missing /\ (wire = Missing \/ wire \in New(k))
            \/ kept # Missing /\ wire = seen /\ seen # Missing
  BY DEF Wires

Requested(k, wire) ==
  /\ Sent
  /\ \/ Refused
     \/ wire # Missing /\ Accepted(FromPb(k, wire))
     \/ KernelFails

LEMMA StepParts ==
  ASSUME GatewayNext
  PROVE  \/ \E k \in Kinds : \E wire \in Wires(k, New(k)) : Requested(k, wire)
         \/ kept # Missing /\ Shown(ToPb(kind, kept))
  <1>1. ASSUME NEW wire \in Wires("Agent", WireAgents), CreateAgentRequest(wire)
        PROVE  "Agent" \in Kinds /\ wire \in Wires("Agent", New("Agent")) /\ Requested("Agent", wire)
    BY <1>1, Zenon DEF Kinds, New, CreateAgentRequest, Requested, FromPb
  <1>2. ASSUME NEW wire \in Wires("Task", WireTasks), NEW id, SubmitTaskRequest(wire, id)
        PROVE  "Task" \in Kinds /\ wire \in Wires("Task", New("Task")) /\ Requested("Task", wire)
    BY <1>2 DEF Kinds, New, SubmitTaskRequest, Requested, FromPb
  <1>3. ASSUME NEW wire \in Wires("Intent", WireIntents), NEW has_target \in BOOLEAN,
               SendIntentRequest(wire, has_target)
        PROVE  "Intent" \in Kinds /\ wire \in Wires("Intent", New("Intent")) /\ Requested("Intent", wire)
    BY <1>3 DEF Kinds, New, SendIntentRequest, Requested, FromPb
  <1>4. ASSUME NEW wire \in Wires("Chunk", WireChunks), NEW id, StoreMemoryRequest(wire, id)
        PROVE  "Chunk" \in Kinds /\ wire \in Wires("Chunk", New("Chunk")) /\ Requested("Chunk", wire)
    BY <1>4 DEF Kinds, New, StoreMemoryRequest, Requested, FromPb
  <1>5. ASSUME NEW wire \in Wires("Grant", WireGrants), NEW id, GrantCapabilityRequest(wire, id)
        PROVE  "Grant" \in Kinds /\ wire \in Wires("Grant", New("Grant")) /\ Requested("Grant", wire)
    BY <1>5 DEF Kinds, New, GrantCapabilityRequest, Requested, FromPb
  <1>6. GetAgentRequest \/ GetTaskRequest \/ AwaitIntentRequest \/ QueryMemoryRequest
        \/ GetCapabilitiesRequest => kept # Missing /\ Shown(ToPb(kind, kept))
    BY DEF GetAgentRequest, GetTaskRequest, AwaitIntentRequest, QueryMemoryRequest,
           GetCapabilitiesRequest, Holds, ToPb
  <1>7. QED
    BY <1>1, <1>2, <1>3, <1>4, <1>5, <1>6, Zenon DEF GatewayNext

LEMMA GInvNext == GInv /\ [GatewayNext]_gateway_vars => GInv'
  <1> SUFFICES ASSUME GInv, [GatewayNext]_gateway_vars PROVE GInv'
    OBVIOUS
  <1>1. CASE UNCHANGED gateway_vars
    BY <1>1 DEF GInv, gateway_vars
  <1>2. ASSUME kept # Missing, Shown(ToPb(kind, kept))
        PROVE  GInv'
    <2>1. UNCHANGED <<kind, kept, origin, relayed>> /\ seen' = ToPb(kind, kept)
      BY <1>2 DEF Shown
    <2>2. seen' \in {ToPb(kind, origin), ToPb(kind, Drift(kind, origin))}
      BY <1>2, <2>1 DEF GInv
    <2>3. QED
      BY <1>2, <2>1, <2>2, Zenon DEF GInv
  <1>3. ASSUME NEW k \in Kinds, NEW wire \in Wires(k, New(k)), Requested(k, wire)
        PROVE  GInv'
    <2>1. /\ kind = k /\ kind' = kind /\ seen' = seen
          /\ relayed' = (relayed \/ kept # Missing)
      BY <1>3, RequestParts DEF Requested, Sent
    <2>2. CASE UNCHANGED <<kept, origin>>
      <3>1. kept # Missing /\ kept # origin => relayed' = TRUE
        BY <2>1
      <3>2. QED
        BY <2>1, <2>2, <3>1, Zenon DEF GInv
    <2>3. CASE wire # Missing /\ Accepted(FromPb(k, wire))
      <3> DEFINE r == FromPb(k, wire)
      <3>1. kept' = r /\ origin' = IF origin = Missing THEN r ELSE origin
        BY <2>3 DEF Accepted
      <3> HIDE DEF r
      <3>2. CASE kept = Missing
        <4>1. wire \in New(k)
          BY <2>3, <3>2, RequestParts
        <4>2. r \in Records(k) /\ r # Missing
          BY <4>1, ConversionsAgree DEF r
        <4>3. seen = Missing /\ origin = Missing
          BY <3>2 DEF GInv
        <4>4. kept' = r /\ origin' = r
          BY <3>1, <4>3
        <4>5. QED
          BY <2>1, <4>2, <4>3, <4>4, Zenon DEF GInv
      <3>3. CASE kept # Missing
        <4> DEFINE o == origin
                   d == Drift(k, origin)
        <4>1. o \in Records(k) /\ o # Missing
          <5>1. o \in Records(k)
            BY <2>1, <3>3 DEF GInv
          <5>2. \A x \in Records(k) : x # Missing
            BY ConversionsAgree
          <5>3. QED
            BY <5>1, <5>2
        <4>2. /\ FromPb(k, ToPb(k, o)) = d /\ d \in Records(k) /\ d # Missing
              /\ FromPb(k, ToPb(k, d)) = Drift(k, d) /\ Drift(k, d) = d
          BY <4>1, ConversionsAgree
        <4>3. wire = seen /\ seen # Missing
          BY <3>3, RequestParts
        <4>4. wire \in {ToPb(k, o), ToPb(k, d)}
          BY <2>1, <4>3 DEF GInv
        <4>5. r = d
          BY <4>2, <4>4 DEF r
        <4>6. kept' = d /\ origin' = origin /\ relayed' = TRUE
          BY <2>1, <3>1, <3>3, <4>1, <4>5
        <4> HIDE DEF d, o
        <4>7. QED
          BY <2>1, <3>3, <4>1, <4>2, <4>6, Zenon DEF GInv, d, o
      <3>4. QED
        BY <3>2, <3>3
    <2>4. QED
      BY <1>3, <2>2, <2>3 DEF Requested, Refused, KernelFails
  <1>4. QED
    BY <1>1, <1>2, <1>3, StepParts

\* A record that clients read and submit again, any number of times, keeps what
\* the first request made of it, but for one drift by kind: every conversion of
\* server.rs and its inverse agree on all that the kernel may hold.
THEOREM RelayedRecordsStayStable == GatewaySpec => []RelayStable
  <1>1. GInv => RelayStable
    <2> SUFFICES ASSUME GInv PROVE RelayStable
      OBVIOUS
    <2>1. Drifted(origin) = Drift(kind, origin)
      BY DEF Drifted, Drift
    <2>2. kept # Missing => origin # Missing
      <3> SUFFICES ASSUME kept # Missing PROVE origin # Missing
        OBVIOUS
      <3>1. origin \in Records(kind) /\ kind \in Kinds
        BY DEF GInv
      <3>2. \A r \in Records(kind) : r # Missing
        BY <3>1, ConversionsAgree
      <3>3. QED
        BY <3>1, <3>2
    <2>3. QED
      BY <2>1, <2>2, Zenon DEF GInv, RelayStable
  <1>2. GInv /\ [GatewayNext]_gateway_vars => GInv'
    BY GInvNext
  <1>3. QED
    BY GInvInit, <1>1, <1>2, PTL DEF GatewaySpec

-----------------------------------------------------------------------------
(* The token budget: lists of window entries *)

Windows == Seq(Entries)
LengthOf == [w \in Windows |-> Len(w)]

LEMMA EmptyWindow == <<>> \in Windows /\ Len(<<>>) = 0
  BY EmptySeq DEF Windows

\* A list is empty or its front with its last entry behind.
LEMMA WindowParts ==
  ASSUME NEW w \in Windows, w # <<>>
  PROVE  /\ Front(w) \in Windows /\ Last(w) \in Entries
         /\ LengthOf[Front(w)] < LengthOf[w]
         /\ w = Append(Front(w), Last(w))
  <1> DEFINE n == Len(w)
             v == SubSeq(w, 1, n - 1)
  <1>1. w \in Seq(Entries) /\ n \in Nat \ {0} /\ n \in 1..n
    BY EmptySeq DEF Windows
  <1>2. w[n] \in Entries /\ \A i \in 1..n : w[i] \in Entries
    BY <1>1, ElementOfSeq
  <1>3. v \in Seq(Entries) /\ Len(v) = n - 1 /\ \A i \in 1..n - 1 : v[i] = w[i]
    <2> DEFINE m == n - 1
    <2>1. m \in Nat /\ \A i \in 1..m : w[i] \in Entries
      BY <1>1, <1>2
    <2> HIDE DEF m
    <2>2. /\ SubSeq(w, 1, m) \in Seq(Entries)
          /\ Len(SubSeq(w, 1, m)) = IF 1 <= m THEN m - 1 + 1 ELSE 0
          /\ \A i \in 1..m - 1 + 1 : SubSeq(w, 1, m)[i] = w[1 + i - 1]
      BY <2>1, SubSeqProperties
    <2>3. Len(SubSeq(w, 1, m)) = m
      BY <2>1, <2>2
    <2>4. \A i \in 1..m : i \in 1..m - 1 + 1 /\ 1 + i - 1 = i
      BY <2>1
    <2>5. \A i \in 1..m : SubSeq(w, 1, m)[i] = w[i]
      BY <2>2, <2>4
    <2>6. QED
      BY <2>2, <2>3, <2>5 DEF m
  <1>4. Front(w) = v /\ Last(w) = w[n]
    BY DEF Front, Last
  <1> HIDE DEF v
  <1> DEFINE u == Append(v, w[n])
  <1>5. u \in Seq(Entries) /\ Len(u) = n /\ \A i \in 1..n : u[i] = w[i]
    <2>1. /\ u \in Seq(Entries) /\ Len(u) = Len(v) + 1 /\ u[Len(v) + 1] = w[n]
          /\ \A i \in 1..Len(v) : u[i] = v[i]
      BY <1>2, <1>3, AppendProperties
    <2> HIDE DEF u
    <2>2. QED
      BY <1>1, <1>3, <2>1
  <1> HIDE DEF u
  <1>6. u = w
    BY <1>1, <1>5, SeqEqual
  <1>7. LengthOf[v] < LengthOf[w]
    BY <1>1, <1>3 DEF LengthOf, Windows
  <1>8. QED
    BY <1>2, <1>3, <1>4, <1>6, <1>7 DEF u, Windows

LEMMA WindowGrows ==
  ASSUME NEW w \in Windows, NEW e \in Entries
  PROVE  /\ Append(w, e) \in Windows /\ Append(w, e) # <<>>
         /\ Front(Append(w, e)) = w /\ Last(Append(w, e)) = e
         /\ Len(w) \in Nat /\ Len(Append(w, e)) = Len(w) + 1
         /\ \A i \in 1..Len(w) : Append(w, e)[i] = w[i]
         /\ Append(w, e)[Len(w) + 1] = e
  <1> DEFINE u == Append(w, e)
             n == Len(w)
  <1>1. w \in Seq(Entries) /\ n \in Nat
    BY LenProperties DEF Windows
  <1>2. /\ u \in Seq(Entries) /\ u # <<>> /\ Len(u) = n + 1 /\ u[n + 1] = e
        /\ \A i \in 1..n : u[i] = w[i]
    BY <1>1, AppendProperties
  <1> HIDE DEF u
  <1> DEFINE v == SubSeq(u, 1, n)
  <1>3. Front(u) = v /\ Last(u) = e
    BY <1>1, <1>2 DEF Front, Last
  <1>4. \A i \in 1..n : u[i] \in Entries
    BY <1>1, <1>2, ElementOfSeq
  <1>5. v \in Seq(Entries) /\ Len(v) = n /\ \A i \in 1..n : v[i] = u[i]
    BY <1>1, <1>2, <1>4, SubSeqProperties
  <1> HIDE DEF v
  <1>6. v = w
    <2>1. \A i \in 1..n : v[i] = w[i]
      BY <1>2, <1>5
    <2>2. QED
      BY <1>1, <1>5, <2>1, SeqEqual
  <1>7. QED
    BY <1>1, <1>2, <1>3, <1>6 DEF u, Windows

\* What holds of the empty list and goes on holding when an entry is added
\* holds of every list of entries.
LEMMA ByEntries ==
  ASSUME NEW P \in SUBSET Windows, <<>> \in P,
         \A w \in P, e \in Entries : Append(w, e) \in P
  PROVE  P = Windows
  <1>1. ASSUME NEW w \in Windows, \A v \in Windows : LengthOf[v] < LengthOf[w] => v \in P
        PROVE  w \in P
    <2>1. CASE w = <<>>
      BY <2>1
    <2>2. CASE w # <<>>
      <3>1. /\ Front(w) \in Windows /\ Last(w) \in Entries
            /\ LengthOf[Front(w)] < LengthOf[w]
            /\ w = Append(Front(w), Last(w))
        BY <2>2, WindowParts
      <3>2. Front(w) \in P
        BY <1>1, <3>1
      <3>3. QED
        BY <3>1, <3>2, Zenon
    <2>3. QED
      BY <2>1, <2>2
  <1>2. LengthOf \in [Windows -> Nat]
    BY LenProperties DEF LengthOf, Windows
  <1>3. QED
    BY <1>1, <1>2, ByMeasure

-----------------------------------------------------------------------------
(* The token budget: the entries that are kept *)

RetainFrom(f, w) ==
  IF w = <<>> THEN <<>>
  ELSE IF Last(w).age < window_duration THEN Append(f[Front(w)], Last(w))
       ELSE f[Front(w)]

LEMMA RetainSolves == Retained = [w \in Windows |-> RetainFrom(Retained, w)]
  <1> DEFINE Q == Windows
             D == [w \in Windows |-> [f \in [Windows -> Q] |-> RetainFrom(f, w)]]
  <1>1. ASSUME NEW w \in Windows, NEW f \in [Windows -> Q]
        PROVE  RetainFrom(f, w) \in Q
    <2>1. CASE w = <<>>
      BY <2>1, EmptyWindow DEF RetainFrom
    <2>2. CASE w # <<>>
      <3> DEFINE v == f[Front(w)]
      <3>1. v \in Windows /\ Last(w) \in Entries
        BY <2>2, WindowParts
      <3>2. RetainFrom(f, w) \in {v, Append(v, Last(w))}
        BY <2>2, Zenon DEF RetainFrom
      <3> HIDE DEF v
      <3>3. Append(v, Last(w)) \in Windows
        BY <3>1, WindowGrows
      <3>4. QED
        BY <3>1, <3>2, <3>3
    <2>3. QED
      BY <2>1, <2>2
  <1>2. ASSUME NEW w \in Windows, NEW f \in [Windows -> Q], NEW g \in [Windows -> Q],
               \A v \in Windows : LengthOf[v] < LengthOf[w] => f[v] = g[v]
        PROVE  RetainFrom(f, w) = RetainFrom(g, w)
    <2>1. w # <<>> => f[Front(w)] = g[Front(w)]
      BY <1>2, WindowParts
    <2>2. QED
      BY <2>1, Zenon DEF RetainFrom
  <1> HIDE DEF Q
  <1>3. D \in [Windows -> [[Windows -> Q] -> Q]]
    BY <1>1
  <1>4. \A w \in Windows : \A f \in [Windows -> Q] : D[w][f] = RetainFrom(f, w)
    OBVIOUS
  <1> HIDE DEF D
  <1>5. Determined(D, Windows, Q, LengthOf)
    <2>1. \A w \in Windows : \A f, g \in [Windows -> Q] :
            (\A v \in Windows : LengthOf[v] < LengthOf[w] => f[v] = g[v]) => D[w][f] = D[w][g]
      BY <1>2, <1>4
    <2>2. LengthOf \in [Windows -> Nat]
      BY LenProperties DEF LengthOf, Windows
    <2>3. QED
      BY <1>3, <2>1, <2>2, Zenon DEF Determined
  <1>6. Q # {}
    BY EmptyWindow DEF Q
  <1>7. PICK f \in [Windows -> Q] : \A w \in Windows : f[w] = D[w][f]
    BY <1>5, <1>6, SolutionExists
  <1>8. f = [w \in Windows |-> RetainFrom(f, w)]
    <2>1. \A w \in Windows : f[w] = RetainFrom(f, w)
      BY <1>4, <1>7
    <2>2. QED
      BY <2>1, Zenon
  <1>9. Retained = CHOOSE g : g = [w \in Windows |-> RetainFrom(g, w)]
    BY DEF Retained, RetainFrom, Windows
  <1>10. QED
    BY <1>8, <1>9, Zenon

LEMMA UnexpiredOfNone == Unexpired(<<>>) = <<>>
  <1>1. Retained[<<>>] = RetainFrom(Retained, <<>>)
    BY RetainSolves, EmptyWindow, Zenon
  <1>2. QED
    BY <1>1 DEF Unexpired, RetainFrom

LEMMA UnexpiredGrows ==
  ASSUME NEW w \in Windows, NEW e \in Entries
  PROVE  Unexpired(Append(w, e)) =
           IF e.age < window_duration THEN Append(Unexpired(w), e) ELSE Unexpired(w)
  <1> DEFINE u == Append(w, e)
  <1>1. u \in Windows /\ u # <<>> /\ Front(u) = w /\ Last(u) = e
    BY WindowGrows
  <1> HIDE DEF u
  <1>2. Retained[u] = RetainFrom(Retained, u)
    BY <1>1, RetainSolves, Zenon
  <1>3. RetainFrom(Retained, u) = IF e.age < window_duration THEN Append(Retained[w], e)
                                  ELSE Retained[w]
    BY <1>1, Zenon DEF RetainFrom
  <1>4. QED
    BY <1>2, <1>3 DEF Unexpired, u

Fresh(w) == \A i \in 1..Len(w) : w[i].age < window_duration
Stale(w) == \A i \in 1..Len(w) : ~(w[i].age < window_duration)

\* What is kept is unexpired, and no expired entry can be: a fresh list stays
\* as it is, of a stale one nothing stays.
LEMMA UnexpiredParts ==
  \A w \in Windows : /\ Unexpired(w) \in Windows
                     /\ Fresh(Unexpired(w))
                     /\ Fresh(w) => Unexpired(w) = w
                     /\ Stale(w) => Unexpired(w) = <<>>
  <1> DEFINE P == {w \in Windows : /\ Unexpired(w) \in Windows
                                   /\ Fresh(Unexpired(w))
                                   /\ Fresh(w) => Unexpired(w) = w
                                   /\ Stale(w) => Unexpired(w) = <<>>}
  <1>1. <<>> \in P
    BY UnexpiredOfNone, EmptyWindow DEF Fresh
  <1>2. ASSUME NEW w \in P, NEW e \in Entries
        PROVE  Append(w, e) \in P
    <2> DEFINE u == Append(w, e)
               n == Len(w)
               v == Unexpired(w)
               x == Append(v, e)
    <2>1. w \in Windows /\ v \in Windows /\ Fresh(v)
          /\ (Fresh(w) => v = w) /\ (Stale(w) => v = <<>>)
      OBVIOUS
    <2>2. u \in Windows /\ n \in Nat /\ Len(u) = n + 1 /\ u[n + 1] = e
          /\ \A i \in 1..n : u[i] = w[i]
      BY <2>1, WindowGrows
    <2>3. x \in Windows /\ Len(v) \in Nat /\ Len(x) = Len(v) + 1 /\ x[Len(v) + 1] = e
          /\ \A i \in 1..Len(v) : x[i] = v[i]
      BY <2>1, WindowGrows
    <2>4. Unexpired(u) = IF e.age < window_duration THEN x ELSE v
      BY <2>1, UnexpiredGrows
    <2>5. (v = w => x = u)
      BY Zenon
    <2> HIDE DEF u, v, x
    <2>6. n + 1 \in 1..Len(u) /\ \A i \in 1..n : i \in 1..Len(u)
      BY <2>2
    <2>7. CASE e.age < window_duration
      <3>1. Unexpired(u) = x
        BY <2>4, <2>7
      <3>2. Fresh(x)
        BY <2>1, <2>3, <2>7 DEF Fresh
      <3>3. Fresh(u) => Fresh(w)
        BY <2>2, <2>6 DEF Fresh
      <3>4. ~Stale(u)
        BY <2>2, <2>6, <2>7 DEF Stale
      <3>5. u \in P
        BY <2>1, <2>2, <2>3, <2>5, <3>1, <3>2, <3>3, <3>4
      <3>6. QED
        BY <3>5 DEF u
    <2>8. CASE ~(e.age < window_duration)
      <3>1. Unexpired(u) = v
        BY <2>4, <2>8
      <3>2. ~Fresh(u)
        BY <2>2, <2>6, <2>8 DEF Fresh
      <3>3. Stale(u) => Stale(w)
        BY <2>2, <2>6 DEF Stale
      <3>4. u \in P
        BY <2>1, <2>2, <3>1, <3>2, <3>3
      <3>5. QED
        BY <3>4 DEF u
    <2>9. QED
      BY <2>7, <2>8
  <1>3. P \in SUBSET Windows
    OBVIOUS
  <1>4. P = Windows
    <2> HIDE DEF P
    <2>1. QED
      BY <1>1, <1>2, <1>3, ByEntries
  <1>5. QED
    BY <1>4

-----------------------------------------------------------------------------
(* The token budget: sums of tokens *)

TokensOf(w) == [i \in 1..Len(w) |-> w[i].tokens]

LEMMA TokensAreTotal ==
  ASSUME NEW w \in Windows
  PROVE  /\ Len(w) \in Nat /\ DOMAIN w = 1..Len(w) /\ IsFiniteSet(1..Len(w))
         /\ \A i \in 1..Len(w) : TokensOf(w)[i] \in Nat
         /\ Tokens(w) = Total(TokensOf(w), 1..Len(w))
  <1> DEFINE D == DOMAIN w
             f == [i \in D |-> w[i].tokens]
  <1>1. /\ w \in Seq(Entries) /\ Len(w) \in Nat /\ D = 1..Len(w)
        /\ \A i \in 1..Len(w) : w[i] \in Entries
    BY LenProperties, ElementOfSeq DEF Windows
  <1>2. Tokens(w) = Total(f, D)
    BY DEF Tokens, FoldSeq, FoldFunction, FoldFunctionOnSet, MapThenFoldSet, Total, Sums, SumFrom
  <1>3. IsFiniteSet(1..Len(w))
    BY <1>1, FS_Interval
  <1>4. \A i \in 1..Len(w) : TokensOf(w)[i] \in Nat
    BY <1>1 DEF TokensOf, Entries
  <1> HIDE DEF D
  <1>5. f = TokensOf(w)
    BY <1>1 DEF TokensOf
  <1>6. QED
    BY <1>1, <1>2, <1>3, <1>4, <1>5 DEF D

LEMMA TokensOfNone == Tokens(<<>>) = 0
  <1>1. 1..Len(<<>>) = {}
    BY EmptyWindow
  <1>2. QED
    BY <1>1, EmptyWindow, TokensAreTotal, TotalOfNone

LEMMA TokensGrow ==
  ASSUME NEW w \in Windows, NEW e \in Entries
  PROVE  Tokens(Append(w, e)) = Tokens(w) + e.tokens /\ Tokens(w) \in Nat
  <1> DEFINE u == Append(w, e)
             n == Len(w)
             f == TokensOf(u)
             g == TokensOf(w)
             S == 1..n + 1
  <1>1. /\ u \in Windows /\ n \in Nat /\ Len(u) = n + 1 /\ u[n + 1] = e
        /\ \A i \in 1..n : u[i] = w[i]
    BY WindowGrows
  <1> HIDE DEF u
  <1>2. /\ IsFiniteSet(S) /\ \A i \in S : f[i] \in Nat
        /\ Tokens(u) = Total(f, S)
    BY <1>1, TokensAreTotal
  <1>3. /\ IsFiniteSet(1..n) /\ \A i \in 1..n : g[i] \in Nat
        /\ Tokens(w) = Total(g, 1..n)
    BY TokensAreTotal
  <1>4. n + 1 \in S /\ S \ {n + 1} = 1..n /\ \A i \in 1..n : i \in S
    BY <1>1
  <1>5. f[n + 1] = e.tokens /\ \A i \in 1..n : f[i] = g[i]
    BY <1>1, <1>4 DEF TokensOf
  <1> HIDE DEF f, g, S
  <1>6. Total(f, S) = f[n + 1] + Total(f, S \ {n + 1})
    BY <1>2, <1>4, TotalWithout
  <1>7. Total(f, 1..n) = Total(g, 1..n) /\ Total(g, 1..n) \in Nat
    BY <1>3, <1>5, TotalsAgree, TotalIsNat
  <1>8. e.tokens \in Nat
    BY <1>2, <1>4, <1>5
  <1>9. Total(f, S) = e.tokens + Total(g, 1..n)
    BY <1>4, <1>5, <1>6, <1>7
  <1> DEFINE b == Total(g, 1..n)
  <1>10. Tokens(u) = e.tokens + b /\ Tokens(w) = b /\ b \in Nat
    BY <1>2, <1>3, <1>7, <1>9
  <1> HIDE DEF b
  <1>11. QED
    BY <1>8, <1>10 DEF u

\* Expiry only takes tokens from the window.
LEMMA UnexpiredTokens ==
  \A w \in Windows : Tokens(Unexpired(w)) \in Nat /\ Tokens(w) \in Nat
                     /\ Tokens(Unexpired(w)) <= Tokens(w)
  <1> DEFINE P == {w \in Windows : Tokens(Unexpired(w)) \in Nat /\ Tokens(w) \in Nat
                                   /\ Tokens(Unexpired(w)) <= Tokens(w)}
  <1>1. <<>> \in P
    BY UnexpiredOfNone, EmptyWindow, TokensOfNone
  <1>2. ASSUME NEW w \in P, NEW e \in Entries
        PROVE  Append(w, e) \in P
    <2> DEFINE u == Append(w, e)
               v == Unexpired(w)
               m == Tokens(w)
               k == Tokens(v)
    <2>1. w \in Windows /\ v \in Windows /\ m \in Nat /\ k \in Nat /\ k <= m
      BY UnexpiredParts
    <2>2. u \in Windows /\ e.tokens \in Nat
      BY <2>1, WindowGrows DEF Entries
    <2>3. Tokens(u) = m + e.tokens /\ Tokens(Append(v, e)) = k + e.tokens
      BY <2>1, TokensGrow
    <2>4. Unexpired(u) = IF e.age < window_duration THEN Append(v, e) ELSE v
      BY <2>1, UnexpiredGrows
    <2>5. Tokens(Unexpired(u)) \in {k, k + e.tokens}
      BY <2>3, <2>4, Zenon
    <2> HIDE DEF u, m, k, v
    <2>6. u \in P
      BY <2>1, <2>2, <2>3, <2>5
    <2>7. QED
      BY <2>6 DEF u
  <1>3. P \in SUBSET Windows
    OBVIOUS
  <1>4. P = Windows
    <2> HIDE DEF P
    <2>1. QED
      BY <1>1, <1>2, <1>3, ByEntries
  <1>5. QED
    BY <1>4

\* Aging leaves the tokens of the window alone.
LEMMA TokensAge ==
  ASSUME NEW w \in Windows
  PROVE  LET u == [i \in DOMAIN w |-> [w[i] EXCEPT !.age = Min({@ + 1, window_duration})]]
         IN  u \in Windows /\ Tokens(u) = Tokens(w)
  <1> DEFINE n == Len(w)
             u == [i \in DOMAIN w |-> [w[i] EXCEPT !.age = Min({@ + 1, window_duration})]]
  <1>1. n \in Nat /\ DOMAIN w = 1..n /\ IsFiniteSet(1..n) /\ w \in Seq(Entries)
        /\ \A i \in 1..n : w[i] \in Entries
    BY TokensAreTotal, ElementOfSeq DEF Windows
  <1>2. ASSUME NEW i \in 1..n
        PROVE  u[i] \in Entries /\ u[i].tokens = w[i].tokens
    <2> DEFINE e == w[i]
               a == e.age
               m == Min({a + 1, window_duration})
    <2>1. e \in Entries
      BY <1>1
    <2>2. u[i] = [e EXCEPT !.age = m]
      BY <1>1
    <2> HIDE DEF e
    <2>3. a \in 0..window_duration /\ window_duration \in Nat
      BY <2>1, BudgetAssumption DEF Entries
    <2>4. m \in 0..window_duration
      <3>1. m = IF a + 1 <= window_duration THEN a + 1 ELSE window_duration
        BY <2>3 DEF Min
      <3>2. QED
        BY <2>3, <3>1
    <2> HIDE DEF m
    <2>5. QED
      BY <2>1, <2>2, <2>4 DEF Entries, e
  <1>3. DOMAIN u = 1..n
    BY <1>1
  <1>4. u \in Seq(Entries)
    <2>1. u = [i \in 1..n |-> u[i]]
      BY <1>1
    <2> HIDE DEF u
    <2>2. [i \in 1..n |-> u[i]] \in Seq(Entries)
      BY <1>1, <1>2, IsASeq
    <2>3. QED
      BY <2>1, <2>2
  <1> HIDE DEF u
  <1>5. Len(u) = n
    BY <1>1, <1>3, <1>4, LenProperties
  <1> DEFINE f == TokensOf(u)
             g == TokensOf(w)
  <1>6. \A i \in 1..n : f[i] = g[i] /\ g[i] \in Nat
    BY <1>2, <1>5, TokensAreTotal DEF TokensOf
  <1>7. Tokens(u) = Total(f, 1..n) /\ Tokens(w) = Total(g, 1..n)
    BY <1>4, <1>5, TokensAreTotal DEF Windows
  <1> HIDE DEF f, g
  <1>8. Total(f, 1..n) = Total(g, 1..n)
    BY <1>1, <1>6, TotalsAgree
  <1>9. QED
    BY <1>4, <1>7, <1>8 DEF u, Windows

-----------------------------------------------------------------------------
(* The token budget: what it grants *)

Capped(m, n) == IF m <= n THEN m ELSE n

LEMMA LeastOfTwo == \A m, n \in Nat : Min({m, n}) = Capped(m, n)
  BY DEF Min, Capped

LEMMA LeastOfThree == \A m, n, k \in Nat : Min({m, n, k}) = Capped(m, Capped(n, k))
  BY DEF Min, Capped

Available == Monus(max_per_window, Tokens(Unexpired(window)))

LEMMA GrantParts ==
  ASSUME TypeOK, NEW n \in Requests, NEW p \in BOOLEAN
  PROVE  /\ n \in Nat /\ Available \in Nat /\ EffectiveRemaining(p) \in Nat
         /\ Unexpired(window) \in Windows /\ window \in Windows
         /\ Grant(n, p) = Capped(n, Capped(Available, EffectiveRemaining(p)))
  <1>1. window \in Windows /\ consumed \in Nat /\ n \in Nat
    BY BudgetAssumption DEF TypeOK, Windows
  <1>2. Unexpired(window) \in Windows /\ Tokens(Unexpired(window)) \in Nat
    BY <1>1, UnexpiredParts, UnexpiredTokens
  <1>3. Available \in Nat
    BY <1>2, BudgetAssumption DEF Available, Monus, max_per_window
  <1>4. EffectiveRemaining(p) \in Nat
    BY <1>1, BudgetAssumption DEF EffectiveRemaining, Monus
  <1>5. Grant(n, p) = Min({n, Available, EffectiveRemaining(p)})
    BY DEF Grant, Available
  <1>6. QED
    BY <1>1, <1>2, <1>3, <1>4, <1>5, LeastOfThree

-----------------------------------------------------------------------------
(* The token budget: invariant *)

\* As the kernel uses the budget, the window counts nothing that was not
\* consumed.
BInv == TypeOK /\ (~api_calls => Tokens(window) <= consumed)

LEMMA BInvInit == Init => BInv
  <1> SUFFICES ASSUME Init PROVE BInv
    OBVIOUS
  <1>1. window \in Seq(Entries) /\ Tokens(window) = 0 /\ consumed = 0 /\ api_calls \in BOOLEAN
    BY EmptyWindow, TokensOfNone DEF Init, Windows
  <1>2. QED
    BY <1>1 DEF BInv, TypeOK

LEMMA EntryOf == \A n \in Nat : [age |-> 0, tokens |-> n] \in Entries
  BY BudgetAssumption DEF Entries

LEMMA AllocationKeeps ==
  ASSUME BInv, NEW n \in Requests, NEW p \in BOOLEAN, CheckAllocation(n, p),
         UNCHANGED api_calls
  PROVE  BInv'
  <1> DEFINE g == Grant(n, p)
             w == Unexpired(window)
             e == [age |-> 0, tokens |-> g]
  <1>1. w \in Windows /\ window \in Windows /\ g \in Nat
    BY GrantParts DEF BInv, Capped
  <1>2. consumed' = consumed + g /\ window' = IF g = 0 THEN w ELSE Append(w, e)
    BY DEF CheckAllocation
  <1>3. Tokens(w) \in Nat /\ Tokens(window) \in Nat /\ Tokens(w) <= Tokens(window)
    BY <1>1, UnexpiredTokens
  <1>4. e \in Entries /\ e.tokens = g
    BY <1>1, EntryOf
  <1> HIDE DEF g, w, e
  <1>5. Append(w, e) \in Windows /\ Tokens(Append(w, e)) = Tokens(w) + g
    BY <1>1, <1>4, TokensGrow, WindowGrows
  <1> DEFINE v == Append(w, e)
             k == Tokens(w)
  <1>6. window' \in Windows /\ Tokens(window') = k + g
    <2>1. CASE g = 0
      BY <1>1, <1>2, <1>3, <2>1
    <2>2. CASE g # 0
      BY <1>2, <1>5, <2>2
    <2>3. QED
      BY <2>1, <2>2
  <1>7. k + g \in Nat /\ k <= Tokens(window)
    BY <1>1, <1>3
  <1>8. k \in Nat
    BY <1>3
  <1> HIDE DEF v, k
  <1>9. consumed \in Nat /\ consumed' \in Nat /\ api_calls' = api_calls /\ api_calls \in BOOLEAN
    BY <1>1, <1>2 DEF BInv, TypeOK
  <1>10. ASSUME ~api_calls
         PROVE  Tokens(window)' <= consumed'
    <2>1. Tokens(window) <= consumed
      BY <1>10 DEF BInv
    <2>2. k + g <= consumed + g
      BY <1>1, <1>3, <1>7, <1>8, <1>9, <2>1
    <2>3. QED
      BY <1>2, <1>6, <2>2
  <1>11. QED
    BY <1>6, <1>9, <1>10 DEF BInv, TypeOK, Windows

LEMMA OtherCallKeeps ==
  ASSUME BInv, OtherCall, api_calls, UNCHANGED api_calls
  PROVE  BInv'
  <1>1. window \in Windows /\ consumed \in Nat /\ api_calls' = TRUE
    BY DEF BInv, TypeOK, Windows
  <1>2. ASSUME NEW n \in Requests, RecordConsumption(n)
        PROVE  BInv'
    <2> DEFINE e == [age |-> 0, tokens |-> n]
    <2>1. n \in Nat /\ e \in Entries
      BY BudgetAssumption, EntryOf
    <2>2. consumed' = consumed + n /\ window' = Append(window, e)
      BY <1>2 DEF RecordConsumption
    <2> HIDE DEF e
    <2>3. Append(window, e) \in Windows
      BY <1>1, <2>1, WindowGrows
    <2>4. QED
      BY <1>1, <2>1, <2>2, <2>3 DEF BInv, TypeOK, Windows
  <1>3. ASSUME NEW n \in Requests, Refund(n)
        PROVE  BInv'
    <2>1. n \in Nat
      BY BudgetAssumption
    <2>2. QED
      BY <1>1, <1>3, <2>1 DEF BInv, TypeOK, Windows, Refund, Monus
  <1>4. CASE Reset
    BY <1>1, <1>4, EmptyWindow DEF BInv, TypeOK, Windows, Reset
  <1>5. QED
    BY <1>2, <1>3, <1>4 DEF OtherCall

LEMMA BInvNext == BInv /\ [Next]_vars => BInv'
  <1> SUFFICES ASSUME BInv, [Next]_vars PROVE BInv'
    OBVIOUS
  <1>1. CASE UNCHANGED vars
    BY <1>1 DEF BInv, TypeOK, vars
  <1>2. ASSUME Next, NEW n \in Requests, NEW p \in BOOLEAN, CheckAllocation(n, p)
        PROVE  BInv'
    BY <1>2, AllocationKeeps DEF Next
  <1>3. CASE Next /\ api_calls /\ OtherCall
    BY <1>3, OtherCallKeeps DEF Next
  <1>4. CASE Next /\ Tick
    <2>1. window \in Windows /\ consumed' = consumed /\ api_calls' = api_calls
      BY <1>4 DEF BInv, TypeOK, Windows, Next, Tick
    <2>2. window' \in Windows /\ Tokens(window') = Tokens(window)
      BY <1>4, <2>1, TokensAge DEF Tick
    <2>3. QED
      BY <2>1, <2>2 DEF BInv, TypeOK, Windows
  <1>5. QED
    BY <1>1, <1>2, <1>3, <1>4 DEF Next

\* The window keeps its type, and within the kernel's use it counts nothing
\* that was not consumed (check_allocation, record_consumption, reset).
THEOREM BudgetInvariant == Spec => []BInv
  <1>1. QED
    BY BInvInit, BInvNext, PTL DEF Spec

\* No grant overdraws the budget, nor the priority reserve for an ordinary
\* request.
THEOREM GrantsStayInBudget == Spec => GrantsWithinBudget
  <1> DEFINE Kept == \A n \in Requests, p \in BOOLEAN :
               CheckAllocation(n, p) /\ consumed' > consumed =>
                 consumed' <= IF p THEN hard_limit ELSE Monus(hard_limit, priority_reserve)
  <1>1. BInv => Kept
    <2> SUFFICES ASSUME BInv, NEW n \in Requests, NEW p \in BOOLEAN,
                        CheckAllocation(n, p), consumed' > consumed
                 PROVE  consumed' <= IF p THEN hard_limit
                                     ELSE Monus(hard_limit, priority_reserve)
      OBVIOUS
    <2> DEFINE g == Grant(n, p)
    <2>1. /\ n \in Nat /\ Available \in Nat /\ EffectiveRemaining(p) \in Nat
          /\ g = Capped(n, Capped(Available, EffectiveRemaining(p)))
      BY GrantParts DEF BInv
    <2>2. consumed' = consumed + g /\ consumed \in Nat
      BY DEF CheckAllocation, BInv, TypeOK
    <2>3. g \in Nat /\ g <= EffectiveRemaining(p)
      BY <2>1 DEF Capped
    <2> HIDE DEF g
    <2>4. g > 0
      BY <2>2, <2>3
    <2>5. QED
      BY <2>2, <2>3, <2>4, BudgetAssumption DEF EffectiveRemaining, Monus
  <1>2. QED
    BY <1>1, BudgetInvariant, PTL DEF GrantsWithinBudget

\* A grant leaves the window within the rate limit: what it adds fits into
\* what the unexpired entries leave.
THEOREM GrantsStayInRate == Spec => RateLimited
  <1> DEFINE Kept == \A n \in Requests, p \in BOOLEAN :
               CheckAllocation(n, p) /\ consumed' > consumed =>
                 Tokens(Unexpired(window')) <= max_per_window
  <1>1. BInv => Kept
    <2> SUFFICES ASSUME BInv, NEW n \in Requests, NEW p \in BOOLEAN,
                        CheckAllocation(n, p), consumed' > consumed
                 PROVE  Tokens(Unexpired(window')) <= max_per_window
      OBVIOUS
    <2> DEFINE g == Grant(n, p)
               w == Unexpired(window)
               e == [age |-> 0, tokens |-> g]
    <2>1. /\ n \in Nat /\ Available \in Nat /\ EffectiveRemaining(p) \in Nat
          /\ w \in Windows /\ window \in Windows
          /\ g = Capped(n, Capped(Available, EffectiveRemaining(p)))
      BY GrantParts DEF BInv
    <2>2. consumed' = consumed + g /\ consumed \in Nat
          /\ window' = IF g = 0 THEN w ELSE Append(w, e)
      BY DEF CheckAllocation, BInv, TypeOK
    <2>3. g \in Nat /\ g <= Available
      BY <2>1 DEF Capped
    <2>4. e \in Entries /\ e.tokens = g /\ e.age < window_duration
      BY <2>3, EntryOf, BudgetAssumption
    <2>5. Available = Monus(max_per_window, Tokens(w)) /\ Tokens(w) \in Nat
          /\ max_per_window \in Nat
      BY <2>1, UnexpiredTokens, BudgetAssumption DEF Available, max_per_window
    <2>6. Unexpired(w) = w
      BY <2>1, UnexpiredParts
    <2> HIDE DEF g, e, w
    <2>7. window' = Append(w, e)
      BY <2>2, <2>3
    <2>8. Unexpired(window') = Append(w, e) /\ Tokens(Append(w, e)) = Tokens(w) + g
      BY <2>1, <2>4, <2>6, <2>7, UnexpiredGrows, TokensGrow
    <2>9. g > 0
      BY <2>2, <2>3
    <2>10. Tokens(w) + g <= max_per_window
      BY <2>3, <2>5, <2>9 DEF Monus
    <2>11. QED
      BY <2>8, <2>10
  <1>2. QED
    BY <1>1, BudgetInvariant, PTL DEF RateLimited

\* As the kernel uses the budget, its window never holds more than was
\* consumed, so that the hard limit binds first.
THEOREM WindowsStayLoose == Spec => WindowNeverBinds
  <1> DEFINE Kept == \A n \in Requests, p \in BOOLEAN :
               CheckAllocation(n, p) /\ ~api_calls =>
                 consumed' - consumed = Min({n, EffectiveRemaining(p)})
  <1>1. BInv => Kept
    <2> SUFFICES ASSUME BInv, NEW n \in Requests, NEW p \in BOOLEAN,
                        CheckAllocation(n, p), ~api_calls
                 PROVE  consumed' - consumed = Min({n, EffectiveRemaining(p)})
      OBVIOUS
    <2> DEFINE g == Grant(n, p)
               w == Unexpired(window)
    <2>1. /\ n \in Nat /\ Available \in Nat /\ EffectiveRemaining(p) \in Nat
          /\ w \in Windows /\ window \in Windows
          /\ g = Capped(n, Capped(Available, EffectiveRemaining(p)))
      BY GrantParts DEF BInv
    <2>2. consumed' = consumed + g /\ consumed \in Nat
      BY DEF CheckAllocation, BInv, TypeOK
    <2>3. Tokens(w) \in Nat /\ Tokens(w) <= consumed
      <3>1. Tokens(w) \in Nat /\ Tokens(window) \in Nat /\ Tokens(w) <= Tokens(window)
        BY <2>1, UnexpiredTokens
      <3>2. Tokens(window) <= consumed
        BY DEF BInv
      <3>3. QED
        BY <2>2, <3>1, <3>2
    <2>4. EffectiveRemaining(p) <= Available
      BY <2>2, <2>3, BudgetAssumption
         DEF EffectiveRemaining, Available, Monus, max_per_window
    <2>5. g = Capped(n, EffectiveRemaining(p))
      BY <2>1, <2>4 DEF Capped
    <2>6. Min({n, EffectiveRemaining(p)}) = Capped(n, EffectiveRemaining(p))
      BY <2>1, LeastOfTwo
    <2>7. g \in Nat
      BY <2>1, <2>5 DEF Capped
    <2> HIDE DEF g
    <2>8. QED
      BY <2>2, <2>5, <2>6, <2>7
  <1>2. QED
    BY <1>1, BudgetInvariant, PTL DEF WindowNeverBinds

-----------------------------------------------------------------------------
(* Speculation: the candidates of a fork, one by one *)

FoldFrom(f, base, seq, s) ==
  IF s = {} THEN base ELSE LET x == Max(s) IN Spawned(f[s \ {x}], seq[x])
Folds(base, seq) == CHOOSE g : g = [s \in SUBSET DOMAIN seq |-> FoldFrom(g, base, seq, s)]

LEMMA FoldIsLast ==
  ASSUME NEW base, NEW seq
  PROVE  FoldLeft(Spawned, base, seq) = Folds(base, seq)[DOMAIN seq]
  BY DEF FoldLeft, MapThenFoldSet, Folds, FoldFrom

LEMMA MaxIsMember ==
  ASSUME NEW n \in Nat, NEW s \in SUBSET (1..n), s # {}
  PROVE  Max(s) \in s
  <1>1. s \in SUBSET (0..n)
    OBVIOUS
  <1>2. PICK x \in s : \A y \in s : y <= x
    BY <1>1, GreatestNatural
  <1>3. \A y \in s : x >= y
    BY <1>2
  <1>4. QED
    BY <1>3, Zenon DEF Max

\* What no candidate breaks, none of the candidates of a fork breaks.
LEMMA SpawnedStays ==
  ASSUME NEW P, NEW C, NEW n \in Nat, NEW seq \in [1..n -> C], NEW base \in P,
         \A a \in P, c \in C : Spawned(a, c) \in P
  PROVE  FoldLeft(Spawned, base, seq) \in P
  <1> DEFINE E == 1..n
             A == SUBSET E
             m == SizeOf(E)
             D == [s \in A |-> [f \in [A -> P] |-> FoldFrom(f, base, seq, s)]]
  <1>1. IsFiniteSet(E) /\ DOMAIN seq = E
    BY FS_Interval
  <1>2. m \in [A -> Nat] /\ \A s \in A : \A x \in s : m[s \ {x}] < m[s]
    BY <1>1, SizesShrink
  <1>3. \A s \in A : s # {} => Max(s) \in s /\ seq[Max(s)] \in C /\ s \ {Max(s)} \in A
    <2> SUFFICES ASSUME NEW s \in A, s # {}
                 PROVE  Max(s) \in s /\ seq[Max(s)] \in C /\ s \ {Max(s)} \in A
      OBVIOUS
    <2>1. Max(s) \in s
      BY MaxIsMember
    <2>2. QED
      BY <2>1
  <1>4. E \in A
    OBVIOUS
  <1> HIDE DEF E, A, m
  <1>5. ASSUME NEW s \in A, NEW f \in [A -> P]
        PROVE  FoldFrom(f, base, seq, s) \in P
    <2>1. CASE s = {}
      BY <2>1 DEF FoldFrom
    <2>2. CASE s # {}
      <3> DEFINE x == Max(s)
      <3>1. FoldFrom(f, base, seq, s) = Spawned(f[s \ {x}], seq[x])
        BY <2>2 DEF FoldFrom
      <3>2. f[s \ {x}] \in P /\ seq[x] \in C
        BY <1>3, <2>2
      <3> HIDE DEF x
      <3>3. QED
        BY <3>1, <3>2
    <2>3. QED
      BY <2>1, <2>2
  <1>6. ASSUME NEW s \in A, NEW f \in [A -> P], NEW g \in [A -> P],
               \A t \in A : m[t] < m[s] => f[t] = g[t]
        PROVE  FoldFrom(f, base, seq, s) = FoldFrom(g, base, seq, s)
    <2>1. s # {} => f[s \ {Max(s)}] = g[s \ {Max(s)}]
      BY <1>2, <1>3, <1>6
    <2>2. QED
      BY <2>1, Zenon DEF FoldFrom
  <1>7. D \in [A -> [[A -> P] -> P]]
    BY <1>5
  <1>8. \A s \in A : \A f \in [A -> P] : D[s][f] = FoldFrom(f, base, seq, s)
    OBVIOUS
  <1> HIDE DEF D
  <1>9. Determined(D, A, P, m)
    <2>1. \A s \in A : \A f, g \in [A -> P] :
            (\A t \in A : m[t] < m[s] => f[t] = g[t]) => D[s][f] = D[s][g]
      BY <1>6, <1>8
    <2>2. QED
      BY <1>2, <1>7, <2>1, Zenon DEF Determined
  <1>10. P # {}
    OBVIOUS
  <1>11. PICK g \in [A -> P] : \A s \in A : g[s] = D[s][g]
    BY <1>9, <1>10, SolutionExists
  <1>12. g = [s \in A |-> FoldFrom(g, base, seq, s)]
    <2>1. \A s \in A : g[s] = FoldFrom(g, base, seq, s)
      BY <1>8, <1>11
    <2>2. QED
      BY <2>1, Zenon
  <1> DEFINE F == Folds(base, seq)
  <1>13. F = CHOOSE h : h = [s \in A |-> FoldFrom(h, base, seq, s)]
    BY <1>1, Zenon DEF Folds, A
  <1> HIDE DEF F
  <1>14. F = [s \in A |-> FoldFrom(F, base, seq, s)]
    BY <1>12, <1>13, Zenon
  <1>15. \A s \in A : F[s] = FoldFrom(F, base, seq, s)
    BY <1>14, Zenon
  <1> DEFINE Q == {s \in A : F[s] \in P}
  <1>16. \A s \in A : (\A x \in s : s \ {x} \in Q) => s \in Q
    <2> SUFFICES ASSUME NEW s \in A, \A x \in s : s \ {x} \in Q
                 PROVE  F[s] \in P
      OBVIOUS
    <2>1. CASE s = {}
      BY <1>15, <2>1 DEF FoldFrom
    <2>2. CASE s # {}
      <3> DEFINE x == Max(s)
      <3>1. F[s] = Spawned(F[s \ {x}], seq[x])
        BY <1>15, <2>2 DEF FoldFrom
      <3>2. s \ {x} \in Q /\ seq[x] \in C
        BY <1>3, <2>2
      <3> HIDE DEF x
      <3>3. QED
        BY <3>1, <3>2
    <2>3. QED
      BY <2>1, <2>2
  <1>17. Q \in SUBSET A
    OBVIOUS
  <1> HIDE DEF Q
  <1>18. Q = A
    BY <1>1, <1>16, <1>17, ByRemoval DEF A
  <1>19. F[E] \in P
    BY <1>4, <1>18 DEF Q
  <1>20. QED
    BY <1>1, <1>19, FoldIsLast, Zenon DEF F

-----------------------------------------------------------------------------
(* Speculation: branches and what they hold *)

BranchRecords == [estimated: Nat, state: BranchStates]
Branchings == Seq(BranchRecords)

In(br, S) == {b \in 1..Len(br) : br[b].state \in S}
HeldBy(br) ==
  [b \in 1..Len(br) |-> IF br[b].state \in ActiveStates THEN br[b].estimated ELSE 0]
Held(br) == Total(HeldBy(br), 1..Len(br))

LEMMA BranchParts ==
  ASSUME NEW br \in Branchings
  PROVE  /\ Len(br) \in Nat /\ DOMAIN br = 1..Len(br) /\ IsFiniteSet(1..Len(br))
         /\ \A b \in 1..Len(br) : br[b] \in BranchRecords /\ HeldBy(br)[b] \in Nat
         /\ Held(br) \in Nat
         /\ \A S : IsFiniteSet(In(br, S)) /\ Cardinality(In(br, S)) \in Nat
  <1>1. /\ Len(br) \in Nat /\ DOMAIN br = 1..Len(br)
        /\ \A b \in 1..Len(br) : br[b] \in BranchRecords
    BY LenProperties, ElementOfSeq DEF Branchings
  <1>2. IsFiniteSet(1..Len(br))
    BY <1>1, FS_Interval
  <1>3. \A b \in 1..Len(br) : HeldBy(br)[b] \in Nat
    BY <1>1 DEF HeldBy, BranchRecords
  <1>4. Held(br) \in Nat
    BY <1>2, <1>3, TotalIsNat DEF Held
  <1>5. ASSUME NEW S
        PROVE  IsFiniteSet(In(br, S)) /\ Cardinality(In(br, S)) \in Nat
    <2>1. In(br, S) \in SUBSET (1..Len(br))
      BY DEF In
    <2>2. IsFiniteSet(In(br, S))
      BY <1>2, <2>1, FS_Subset
    <2>3. QED
      BY <2>2, FS_CardinalityType
  <1>6. QED
    BY <1>1, <1>2, <1>3, <1>4, <1>5

LEMMA StatesAreIn ==
  ASSUME branches \in Branchings
  PROVE  /\ BranchIds = 1..Len(branches)
         /\ \A S : InState(S) = In(branches, S)
         /\ Active = In(branches, ActiveStates)
  BY BranchParts DEF BranchIds, InState, Active, In

\* What the active branches have reserved, and what the completed were charged.
LEMMA ReservedIsHeld ==
  ASSUME branches \in Branchings
  PROVE  Reserved(Active) = Held(branches)
  <1> DEFINE n == Len(branches)
             f == HeldBy(branches)
             A == In(branches, ActiveStates)
             g == [b \in A |-> branches[b].estimated]
  <1>1. \A S : MapThenSumSet(LAMBDA b : branches[b].estimated, S)
               = Total([b \in S |-> branches[b].estimated], S)
    BY DEF MapThenSumSet, MapThenFoldSet, Total, Sums, SumFrom
  <1>2. Reserved(Active) = Total(g, A)
    BY <1>1, StatesAreIn DEF Reserved
  <1>3. /\ IsFiniteSet(1..n) /\ \A b \in 1..n : f[b] \in Nat
        /\ A \in SUBSET (1..n) /\ IsFiniteSet(A)
    BY BranchParts DEF In
  <1>4. /\ \A b \in (1..n) \ A : f[b] = 0
        /\ \A b \in A : g[b] = f[b] /\ f[b] \in Nat
    BY <1>3 DEF In, HeldBy
  <1> HIDE DEF f, g, A
  <1>5. Total(g, A) = Total(f, A)
    BY <1>3, <1>4, TotalsAgree
  <1>6. Total(f, 1..n) = Total(f, A)
    BY <1>3, <1>4, TotalOfPart
  <1>7. QED
    BY <1>2, <1>5, <1>6 DEF Held, f

LEMMA ChargedIsTotal ==
  ASSUME NEW S
  PROVE  MapThenSumSet(LAMBDA b : charged[b], S) = Total(charged, S)
  BY DEF MapThenSumSet, MapThenFoldSet, Total, Sums, SumFrom

\* Where two lists of branches differ at one only, so does what they hold.
LEMMA HeldMoves ==
  ASSUME NEW br \in Branchings, NEW u \in Branchings, Len(u) = Len(br),
         NEW b \in 1..Len(br),
         \A c \in (1..Len(br)) \ {b} : HeldBy(u)[c] = HeldBy(br)[c]
  PROVE  Held(u) - HeldBy(u)[b] = Held(br) - HeldBy(br)[b]
  <1> DEFINE S == 1..Len(br)
             f == HeldBy(br)
             g == HeldBy(u)
  <1>1. IsFiniteSet(S) /\ \A c \in S : f[c] \in Nat
    BY BranchParts
  <1>2. \A c \in S : g[c] \in Nat
    BY BranchParts
  <1>3. b \in S /\ \A c \in S \ {b} : g[c] = f[c]
    OBVIOUS
  <1>4. Held(br) = Total(f, S) /\ Held(u) = Total(g, S)
    BY DEF Held
  <1> DEFINE U == S \ {b}
  <1>5. IsFiniteSet(U) /\ \A c \in U : f[c] \in Nat /\ g[c] = f[c]
    BY <1>1, <1>3, FS_Subset
  <1> HIDE DEF S, f, g
  <1>6. Total(f, S) = f[b] + Total(f, U)
    BY <1>1, <1>3, TotalWithout
  <1>7. Total(g, S) = g[b] + Total(g, U)
    BY <1>1, <1>2, <1>3, TotalWithout
  <1> HIDE DEF U
  <1>8. Total(g, U) = Total(f, U) /\ Total(f, U) \in Nat
    BY <1>5, TotalsAgree, TotalIsNat
  <1>9. f[b] \in Nat /\ g[b] \in Nat
    BY <1>1, <1>2, <1>3
  <1> DEFINE z == Total(f, U)
  <1>10. Held(br) = f[b] + z /\ Held(u) = g[b] + z /\ z \in Nat
    BY <1>4, <1>6, <1>7, <1>8
  <1> HIDE DEF z
  <1>11. Held(u) - g[b] = Held(br) - f[b]
    BY <1>9, <1>10
  <1>12. QED
    BY <1>11 DEF f, g

\* One branch takes another state.
Moved(br, b, s) == [br EXCEPT ![b].state = s]

LEMMA BranchMoves ==
  ASSUME NEW br \in Branchings, NEW b \in 1..Len(br), NEW s \in BranchStates,
         NEW u, u = Moved(br, b, s)
  PROVE  /\ u \in Branchings /\ Len(u) = Len(br)
         /\ br[b].estimated \in Nat
         /\ Held(u) = (Held(br) - (IF br[b].state \in ActiveStates THEN br[b].estimated ELSE 0))
                      + (IF s \in ActiveStates THEN br[b].estimated ELSE 0)
         /\ \A S : In(u, S) = IF s \in S THEN In(br, S) \cup {b} ELSE In(br, S) \ {b}
  <1> DEFINE n == Len(br)
             e == [br[b] EXCEPT !.state = s]
             f == HeldBy(br)
             g == HeldBy(u)
  <1>1. /\ br \in Seq(BranchRecords) /\ n \in Nat /\ DOMAIN br = 1..n
        /\ br[b] \in BranchRecords /\ IsFiniteSet(1..n)
        /\ \A c \in 1..n : f[c] \in Nat
    BY BranchParts DEF Branchings
  <1>2. e \in BranchRecords /\ e.estimated = br[b].estimated /\ e.state = s
        /\ br[b].estimated \in Nat
    BY <1>1 DEF BranchRecords
  <1>3. u = [br EXCEPT ![b] = e]
    BY DEF Moved
  <1> HIDE DEF e
  <1>4. /\ u \in Seq(BranchRecords) /\ Len(u) = n /\ u[b] = e
        /\ \A c \in 1..n : u[c] = IF c = b THEN e ELSE br[c]
    BY <1>1, <1>2, <1>3, ExceptSeq
  <1>5. /\ g[b] = IF s \in ActiveStates THEN br[b].estimated ELSE 0
        /\ f[b] = IF br[b].state \in ActiveStates THEN br[b].estimated ELSE 0
        /\ \A c \in (1..n) \ {b} : g[c] = f[c]
    BY <1>2, <1>4 DEF HeldBy
  <1>6. g[b] \in Nat /\ f[b] \in Nat
    BY <1>1, <1>2, <1>5
  <1> HIDE DEF f, g
  <1>7. b \in 1..n
    OBVIOUS
  <1>8. Held(u) - g[b] = Held(br) - f[b]
    BY <1>4, <1>5, HeldMoves DEF f, g, Branchings
  <1>9. Held(u) \in Nat /\ Held(br) \in Nat
    BY <1>4, BranchParts DEF Branchings
  <1>10. Held(u) = (Held(br) - f[b]) + g[b]
    BY <1>6, <1>8, <1>9
  <1>11. ASSUME NEW S
         PROVE  In(u, S) = IF s \in S THEN In(br, S) \cup {b} ELSE In(br, S) \ {b}
    BY <1>2, <1>4 DEF In
  <1>12. QED
    BY <1>2, <1>4, <1>5, <1>10, <1>11 DEF Branchings

\* A new branch reserves what it is estimated to need.
Queued(br, k) == Append(br, [estimated |-> k, state |-> "Queued"])

OneMore(br, k, u) ==
  /\ u \in Branchings /\ Len(u) = Len(br) + 1
  /\ Held(u) = Held(br) + k
  /\ \A S : In(u, S) = IF "Queued" \in S THEN In(br, S) \cup {Len(br) + 1} ELSE In(br, S)

LEMMA BranchForked ==
  ASSUME NEW br \in Branchings, NEW k \in Nat
  PROVE  OneMore(br, k, Queued(br, k))
  <1> DEFINE u == Queued(br, k)
  <1> DEFINE n == Len(br)
             e == [estimated |-> k, state |-> "Queued"]
             f == HeldBy(br)
             g == HeldBy(u)
             S == 1..n + 1
  <1>1. /\ br \in Seq(BranchRecords) /\ n \in Nat /\ IsFiniteSet(1..n)
        /\ \A c \in 1..n : f[c] \in Nat
    BY BranchParts DEF Branchings
  <1>2. e \in BranchRecords /\ e.estimated = k /\ e.state = "Queued"
    BY DEF BranchRecords, BranchStates
  <1> HIDE DEF e, u
  <1>3. /\ u \in Seq(BranchRecords) /\ Len(u) = n + 1 /\ u[n + 1] = e
        /\ \A c \in 1..n : u[c] = br[c]
    BY <1>1, <1>2, AppendProperties DEF e, u, Queued
  <1>4. /\ IsFiniteSet(S) /\ Held(u) = Total(g, S) /\ Held(br) = Total(f, 1..n)
        /\ \A c \in S : g[c] \in Nat
    BY <1>3, BranchParts DEF Branchings, Held
  <1>5. n + 1 \in S /\ S \ {n + 1} = 1..n /\ \A c \in 1..n : c \in S
    BY <1>1
  <1>6. g[n + 1] = k /\ \A c \in 1..n : g[c] = f[c]
    BY <1>2, <1>3, <1>5 DEF HeldBy, ActiveStates
  <1>7. \A T : In(u, T) = IF "Queued" \in T THEN In(br, T) \cup {n + 1} ELSE In(br, T)
    <2> SUFFICES ASSUME NEW T
                 PROVE  In(u, T) = IF "Queued" \in T THEN In(br, T) \cup {n + 1} ELSE In(br, T)
      OBVIOUS
    <2>1. In(u, T) = {c \in S : u[c].state \in T}
      BY <1>3 DEF In
    <2>2. \A c \in S : c = n + 1 \/ c \in 1..n
      BY <1>1
    <2>3. n + 1 \notin 1..n
      BY <1>1
    <2>4. QED
      BY <1>2, <1>3, <1>5, <2>1, <2>2, <2>3 DEF In
  <1> HIDE DEF f, g, S
  <1>8. Total(g, S) = g[n + 1] + Total(g, S \ {n + 1})
    BY <1>4, <1>5, TotalWithout
  <1>9. Total(g, 1..n) = Total(f, 1..n)
    BY <1>1, <1>6, TotalsAgree
  <1>10. Held(br) \in Nat
    BY BranchParts
  <1>11. Held(u) = k + Held(br)
    BY <1>4, <1>5, <1>6, <1>8, <1>9
  <1>12. Held(u) = Held(br) + k
    BY <1>10, <1>11
  <1>13. QED
    BY <1>3, <1>7, <1>12, Zenon DEF Branchings, OneMore, u

-----------------------------------------------------------------------------
(* Speculation: invariant *)

SpeculationTypes ==
  /\ branches \in Branchings
  /\ charged \in Seq(Nat) /\ Len(charged) = Len(branches)
  /\ token_budget \in Nat /\ given \in Nat /\ late \in Nat
  /\ total_merged \in Nat /\ total_pruned \in Nat
  /\ DOMAIN results \in SUBSET (1..Len(branches))

Paid == Total(charged, 1..Len(charged))

\* Tokens are in the budget, reserved or paid.
TokensBalance ==
  /\ token_budget + Held(branches) + Paid >= given
  /\ late = 0 => token_budget + Held(branches) + Paid = given

\* Results belong to the completed branches, each output has one novel result,
\* and the counters count.
ResultsExact ==
  /\ DOMAIN results = In(branches, {"Completed"})
  /\ \A b \in DOMAIN results : results[b].novel \in BOOLEAN
  /\ \A b \in DOMAIN results :
       \E c \in DOMAIN results : results[c].novel = TRUE /\ results[c].output = results[b].output
  /\ \A b, c \in DOMAIN results :
       /\ results[b].novel = TRUE /\ results[c].novel = TRUE
       /\ results[b].output = results[c].output
       => b = c

CountsExact ==
  /\ Cardinality(In(branches, ActiveStates)) <= MaxConcurrent
  /\ total_merged = Cardinality(In(branches, {"Merged"}))
  /\ total_pruned = Cardinality(In(branches, {"Pruned"}))

SpeculationInv == SpeculationTypes /\ TokensBalance /\ (late = 0 => ResultsExact /\ CountsExact)

LEMMA PaidIsNat ==
  ASSUME SpeculationTypes
  PROVE  /\ Paid \in Nat /\ Held(branches) \in Nat
         /\ IsFiniteSet(1..Len(charged)) /\ DOMAIN charged = 1..Len(branches)
         /\ \A b \in 1..Len(charged) : charged[b] \in Nat
  <1>1. charged \in Seq(Nat) /\ Len(charged) \in Nat /\ Len(charged) = Len(branches)
    BY LenProperties DEF SpeculationTypes
  <1>2. IsFiniteSet(1..Len(charged)) /\ \A b \in 1..Len(charged) : charged[b] \in Nat
    <2> DEFINE n == Len(charged)
    <2>1. n \in Int
      BY <1>1
    <2> HIDE DEF n
    <2>2. IsFiniteSet(1..n)
      BY <2>1, FS_Interval
    <2>3. \A b \in 1..Len(charged) : charged[b] \in Nat
      BY <1>1, ElementOfSeq
    <2>4. QED
      BY <2>2, <2>3 DEF n
  <1>3. Paid \in Nat
    BY <1>2, TotalIsNat DEF Paid
  <1>4. DOMAIN charged = 1..Len(branches)
    BY <1>1, LenProperties
  <1>5. QED
    BY <1>2, <1>3, <1>4, BranchParts DEF SpeculationTypes

LEMMA SpeculationInit == SpeculativeInit => SpeculationInv
  <1> SUFFICES ASSUME SpeculativeInit PROVE SpeculationInv
    OBVIOUS
  <1>1. /\ branches = <<>> /\ charged = <<>> /\ DOMAIN results = {}
        /\ token_budget = InitialBudget /\ given = InitialBudget /\ InitialBudget \in Nat
        /\ late = 0 /\ total_merged = 0 /\ total_pruned = 0
    BY SpeculativeAssumption DEF SpeculativeInit
  <1>2. /\ branches \in Branchings /\ charged \in Seq(Nat)
        /\ Len(branches) = 0 /\ Len(charged) = 0 /\ 1..0 = {}
    BY <1>1, EmptySeq DEF Branchings
  <1>3. Held(branches) = 0 /\ Paid = 0
    BY <1>2, TotalOfNone DEF Held, Paid
  <1>4. \A S : In(branches, S) = {}
    BY <1>2 DEF In
  <1>5. Cardinality({}) = 0
    BY FS_EmptySet
  <1>6. CountsExact
    <2>1. 0 <= MaxConcurrent
      BY SpeculativeAssumption
    <2>2. \A S : Cardinality(In(branches, S)) = 0
      BY <1>4, <1>5
    <2>3. QED
      BY <1>1, <2>1, <2>2 DEF CountsExact
  <1>7. ResultsExact
    BY <1>1, <1>4 DEF ResultsExact
  <1>8. SpeculationTypes /\ TokensBalance
    BY <1>1, <1>2, <1>3 DEF SpeculationTypes, TokensBalance
  <1>9. QED
    BY <1>6, <1>7, <1>8 DEF SpeculationInv

\* A call for one branch moves it; before any late call the branch is active.
LEMMA CallParts ==
  ASSUME SpeculationInv, NEW b \in BranchIds, NEW s \in BranchStates,
         branches' = [branches EXCEPT ![b].state = s], late' = late + Late(b)
  PROVE  /\ b \in 1..Len(branches) /\ branches[b].estimated \in Nat
         /\ branches' \in Branchings /\ Len(branches') = Len(branches)
         /\ late' \in Nat
         /\ late' = 0 => late = 0 /\ branches[b].state \in ActiveStates
         /\ branches[b].state \in ActiveStates =>
              Held(branches') = (Held(branches) - branches[b].estimated)
                                + (IF s \in ActiveStates THEN branches[b].estimated ELSE 0)
         /\ ~(branches[b].state \in ActiveStates) =>
              /\ late' # 0
              /\ Held(branches') = Held(branches)
                                   + (IF s \in ActiveStates THEN branches[b].estimated ELSE 0)
         /\ Held(branches) \in Nat
         /\ \A S : In(branches', S) = IF s \in S THEN In(branches, S) \cup {b}
                                      ELSE In(branches, S) \ {b}
  <1>1. branches \in Branchings /\ b \in 1..Len(branches) /\ late \in Nat
    BY StatesAreIn DEF SpeculationInv, SpeculationTypes
  <1>2. Late(b) = IF branches[b].state \in ActiveStates THEN 0 ELSE 1
    BY <1>1, StatesAreIn DEF Late, In
  <1>3. late' \in Nat /\ (late' = 0 => late = 0 /\ branches[b].state \in ActiveStates)
    BY <1>1, <1>2
  <1>4. Held(branches) \in Nat
    BY <1>1, BranchParts
  <1> DEFINE u == branches'
             h == IF branches[b].state \in ActiveStates THEN branches[b].estimated ELSE 0
             k == IF s \in ActiveStates THEN branches[b].estimated ELSE 0
  <1>5. u = Moved(branches, b, s)
    BY DEF Moved
  <1> HIDE DEF u
  <1>6. /\ u \in Branchings /\ Len(u) = Len(branches)
        /\ branches[b].estimated \in Nat
        /\ Held(u) = (Held(branches) - h) + k
        /\ \A S : In(u, S) = IF s \in S THEN In(branches, S) \cup {b} ELSE In(branches, S) \ {b}
    BY <1>1, <1>5, BranchMoves
  <1>7. /\ branches[b].state \in ActiveStates => h = branches[b].estimated
        /\ ~(branches[b].state \in ActiveStates) => h = 0
    OBVIOUS
  <1>8. k \in Nat
    BY <1>6
  <1> HIDE DEF h
  <1>9. ~(branches[b].state \in ActiveStates) => Held(u) = Held(branches) + k
    BY <1>4, <1>6, <1>7, <1>8
  <1>10. branches[b].state \in ActiveStates => Held(u) = (Held(branches) - branches[b].estimated) + k
    BY <1>6, <1>7
  <1>11. ~(branches[b].state \in ActiveStates) => late' # 0
    BY <1>3
  <1>12. QED
    BY <1>1, <1>3, <1>4, <1>6, <1>9, <1>10, <1>11 DEF u

\* An active branch is in no other state, and leaves or stays.
LEMMA ActiveMoves ==
  ASSUME SpeculationInv, NEW b \in 1..Len(branches), branches[b].state \in ActiveStates
  PROVE  /\ \A s \in {"Completed", "Merged", "Pruned", "Failed"} : b \notin In(branches, {s})
         /\ b \in In(branches, ActiveStates)
         /\ \A S : IsFiniteSet(In(branches, S)) /\ Cardinality(In(branches, S)) \in Nat
         /\ Cardinality(In(branches, ActiveStates) \ {b})
              = Cardinality(In(branches, ActiveStates)) - 1
  <1>1. \A S : IsFiniteSet(In(branches, S)) /\ Cardinality(In(branches, S)) \in Nat
    BY BranchParts DEF SpeculationInv, SpeculationTypes
  <1>2. b \in In(branches, ActiveStates)
    BY DEF In
  <1>3. \A s \in {"Completed", "Merged", "Pruned", "Failed"} : b \notin In(branches, {s})
    BY DEF In, ActiveStates
  <1> DEFINE A == In(branches, ActiveStates)
  <1>4. IsFiniteSet(A) /\ b \in A
    BY <1>1, <1>2
  <1> HIDE DEF A
  <1>5. Cardinality(A \ {b}) = Cardinality(A) - 1
    BY <1>4, FS_RemoveElement
  <1>6. QED
    BY <1>1, <1>2, <1>3, <1>5 DEF A

LEMMA StartKeeps ==
  ASSUME SpeculationInv, NEW b \in BranchIds, StartBranch(b)
  PROVE  SpeculationInv'
  <1> DEFINE e == branches[b].estimated
             h == Held(branches)
  <1>1. /\ branches' = [branches EXCEPT ![b].state = "Running"]
        /\ late' = late + Late(b)
        /\ UNCHANGED <<results, token_budget, total_merged, total_pruned, given, charged>>
        /\ "Running" \in BranchStates /\ "Running" \in ActiveStates
    BY DEF StartBranch, BranchStates, ActiveStates
  <1>2. /\ b \in 1..Len(branches) /\ e \in Nat /\ h \in Nat
        /\ branches' \in Branchings /\ Len(branches') = Len(branches)
        /\ late' \in Nat
        /\ late' = 0 => late = 0 /\ branches[b].state \in ActiveStates
        /\ branches[b].state \in ActiveStates => Held(branches') = (h - e) + e
        /\ ~(branches[b].state \in ActiveStates) => late' # 0 /\ Held(branches') = h + e
        /\ \A S : In(branches', S) = IF "Running" \in S THEN In(branches, S) \cup {b}
                                     ELSE In(branches, S) \ {b}
    BY <1>1, CallParts
  <1>3. SpeculationTypes'
    BY <1>1, <1>2 DEF SpeculationInv, SpeculationTypes
  <1>4. TokensBalance'
    <2>1. Paid \in Nat /\ Paid' = Paid /\ token_budget \in Nat /\ given \in Nat
          /\ token_budget' = token_budget /\ given' = given
      BY <1>1, PaidIsNat DEF SpeculationInv, SpeculationTypes, Paid
    <2>2. /\ token_budget + h + Paid >= given
          /\ late = 0 => token_budget + h + Paid = given
      BY DEF SpeculationInv, TokensBalance
    <2> HIDE DEF h, e
    <2>3. CASE branches[b].state \in ActiveStates
      <3>1. Held(branches') = h
        BY <1>2, <2>3
      <3>2. Held(branches)' = h
        BY <3>1
      <3>3. late' = 0 => late = 0
        BY <1>2
      <3>4. QED
        BY <2>1, <2>2, <3>2, <3>3 DEF TokensBalance
    <2>4. CASE ~(branches[b].state \in ActiveStates)
      <3>1. Held(branches)' = h + e /\ late' # 0
        BY <1>2, <2>4
      <3>2. token_budget + (h + e) + Paid >= given
        BY <1>2, <2>1, <2>2
      <3>3. QED
        BY <2>1, <3>1, <3>2 DEF TokensBalance
    <2>5. QED
      BY <2>3, <2>4
  <1>5. ASSUME late' = 0
        PROVE  ResultsExact' /\ CountsExact'
    <2>1. branches[b].state \in ActiveStates /\ ResultsExact /\ CountsExact
      BY <1>2, <1>5 DEF SpeculationInv
    <2>2. /\ b \notin In(branches, {"Completed"}) /\ b \notin In(branches, {"Merged"})
          /\ b \notin In(branches, {"Pruned"}) /\ b \in In(branches, ActiveStates)
      BY <1>2, <2>1, ActiveMoves
    <2>3. \A s \in {"Completed", "Merged", "Pruned"} : In(branches', {s}) = In(branches, {s}) \ {b}
      BY <1>2
    <2>4. In(branches', ActiveStates) = In(branches, ActiveStates)
      <3>1. In(branches', ActiveStates) = In(branches, ActiveStates) \cup {b}
        BY <1>1, <1>2
      <3>2. QED
        BY <2>2, <3>1
    <2>5. /\ In(branches, {"Completed"})' = In(branches, {"Completed"})
          /\ In(branches, {"Merged"})' = In(branches, {"Merged"})
          /\ In(branches, {"Pruned"})' = In(branches, {"Pruned"})
          /\ In(branches, ActiveStates)' = In(branches, ActiveStates)
      BY <2>2, <2>3, <2>4
    <2>6. QED
      BY <1>1, <2>1, <2>5 DEF ResultsExact, CountsExact
  <1>6. QED
    BY <1>3, <1>4, <1>5 DEF SpeculationInv

LEMMA PaymentAdds ==
  ASSUME SpeculationTypes, NEW b \in 1..Len(branches), NEW k \in Nat,
         charged' = [charged EXCEPT ![b] = @ + k]
  PROVE  /\ charged' \in Seq(Nat) /\ Len(charged') = Len(charged)
         /\ Paid' = Paid + k
  <1> DEFINE S == 1..Len(charged)
             g == charged'
             v == charged[b] + k
  <1>1. charged \in Seq(Nat) /\ Len(charged) = Len(branches) /\ b \in S
    BY DEF SpeculationTypes
  <1>2. IsFiniteSet(S) /\ \A c \in S : charged[c] \in Nat
    BY PaidIsNat
  <1>3. v \in Nat /\ charged[b] \in Nat
    BY <1>1, <1>2
  <1>4. g = [charged EXCEPT ![b] = v]
    OBVIOUS
  <1> HIDE DEF g, v
  <1>5. /\ g \in Seq(Nat) /\ Len(g) = Len(charged) /\ g[b] = v
        /\ \A c \in 1..Len(charged) : g[c] = IF c = b THEN v ELSE charged[c]
    BY <1>1, <1>3, <1>4, ExceptSeq
  <1>6. g[b] = charged[b] + k /\ \A c \in S \ {b} : g[c] = charged[c]
    <2>1. g[b] = charged[b] + k
      BY <1>5 DEF v
    <2>2. \A c \in S \ {b} : g[c] = charged[c]
      BY <1>5
    <2>3. QED
      BY <2>1, <2>2
  <1> HIDE DEF S
  <1>7. Total(g, S) = Total(charged, S) + k
    <2> DEFINE f == charged
    <2>1. Raised(f, g, S, b, k)
      BY <1>1, <1>2, <1>6 DEF Raised
    <2> HIDE DEF f
    <2>2. Total(g, S) = Total(f, S) + k
      BY <2>1, TotalRaised
    <2>3. QED
      BY <2>2 DEF f
  <1>8. Paid' = Total(g, 1..Len(g))
    BY DEF Paid, g
  <1>9. QED
    BY <1>5, <1>7, <1>8 DEF Paid, g, S

\* A completion pays from the reservation; of a branch that is over, it gives
\* the reservation back again.
LEMMA CompletionAccounts ==
  ASSUME NEW t \in Nat, NEW h \in Nat, NEW p \in Nat, NEW g \in Nat,
         NEW e \in Nat, NEW k \in Nat, k <= e, t + h + p >= g
  PROVE  /\ t + e - k \in Nat
         /\ (t + e - k) + h + (p + k) >= g
         /\ (t + e - k) + (h - e) + (p + k) = t + h + p
  OBVIOUS

LEMMA CompleteKeeps ==
  ASSUME SpeculationInv, NEW b \in BranchIds, NEW output \in Outputs, NEW spent \in Spent,
         CompleteBranch(b, output, spent)
  PROVE  SpeculationInv'
  <1> DEFINE e == branches[b].estimated
             h == Held(branches)
             k == Smaller(spent, e)
             D == DOMAIN results
  <1>1. /\ branches' = [branches EXCEPT ![b].state = "Completed"]
        /\ late' = late + Late(b)
        /\ UNCHANGED <<total_merged, total_pruned, given>>
        /\ token_budget' = token_budget + e - k
        /\ charged' = [charged EXCEPT ![b] = @ + k]
        /\ "Completed" \in BranchStates /\ "Completed" \notin ActiveStates
    BY DEF CompleteBranch, BranchStates, ActiveStates
  <1>2. /\ DOMAIN results' = D \cup {b}
        /\ \A c \in D \cup {b} : results'[c] =
             IF c = b THEN [output |-> output, novel |-> ~IsRedundant(output)] ELSE results[c]
    BY DEF CompleteBranch
  <1>3. /\ b \in 1..Len(branches) /\ e \in Nat /\ h \in Nat
        /\ branches' \in Branchings /\ Len(branches') = Len(branches)
        /\ late' \in Nat
        /\ late' = 0 => late = 0 /\ branches[b].state \in ActiveStates
        /\ branches[b].state \in ActiveStates => Held(branches') = (h - e) + 0
        /\ ~(branches[b].state \in ActiveStates) => late' # 0 /\ Held(branches') = h + 0
        /\ \A S : In(branches', S) = IF "Completed" \in S THEN In(branches, S) \cup {b}
                                     ELSE In(branches, S) \ {b}
    BY <1>1, CallParts
  <1>4. k \in Nat /\ k <= e
    <2>1. spent \in Nat
      BY SpeculativeAssumption
    <2>2. QED
      BY <1>3, <2>1 DEF Smaller
  <1> HIDE DEF k, e, h
  <1>5. /\ charged' \in Seq(Nat) /\ Len(charged') = Len(charged) /\ Paid' = Paid + k
    BY <1>1, <1>3, <1>4, PaymentAdds DEF SpeculationInv
  <1>6. /\ token_budget \in Nat /\ given \in Nat /\ Paid \in Nat
        /\ token_budget + h + Paid >= given
        /\ late = 0 => token_budget + h + Paid = given
    BY PaidIsNat DEF SpeculationInv, SpeculationTypes, TokensBalance, h
  <1>7. /\ token_budget' \in Nat
        /\ token_budget' + h + Paid' >= given
        /\ token_budget' + (h - e) + Paid' = token_budget + h + Paid
    <2> DEFINE t == token_budget
               p == Paid
               g == given
    <2>1. t \in Nat /\ p \in Nat /\ g \in Nat /\ t + h + p >= g
      BY <1>6
    <2>2. token_budget' = t + e - k /\ Paid' = p + k
      BY <1>1, <1>5
    <2> HIDE DEF t, p, g
    <2>3. /\ t + e - k \in Nat
          /\ (t + e - k) + h + (p + k) >= g
          /\ (t + e - k) + (h - e) + (p + k) = t + h + p
      BY <1>3, <1>4, <2>1, CompletionAccounts
    <2>4. QED
      BY <2>2, <2>3 DEF t, p, g
  <1>8. SpeculationTypes'
    BY <1>1, <1>2, <1>3, <1>5, <1>7 DEF SpeculationInv, SpeculationTypes
  <1>9. TokensBalance'
    <2>1. CASE branches[b].state \in ActiveStates
      <3>1. Held(branches)' = h - e
        BY <1>3, <2>1
      <3>2. QED
        BY <1>1, <1>3, <1>6, <1>7, <2>1, <3>1 DEF TokensBalance
    <2>2. CASE ~(branches[b].state \in ActiveStates)
      <3>1. Held(branches)' = h /\ late' # 0
        BY <1>3, <2>2
      <3>2. QED
        BY <1>1, <1>7, <3>1 DEF TokensBalance
    <2>3. QED
      BY <2>1, <2>2
  <1>10. ASSUME late' = 0
         PROVE  ResultsExact' /\ CountsExact'
    <2>1. branches[b].state \in ActiveStates /\ ResultsExact /\ CountsExact
      BY <1>3, <1>10 DEF SpeculationInv
    <2>2. /\ b \notin In(branches, {"Completed"}) /\ b \notin In(branches, {"Merged"})
          /\ b \notin In(branches, {"Pruned"})
          /\ Cardinality(In(branches, ActiveStates)) \in Nat
          /\ Cardinality(In(branches, ActiveStates) \ {b})
               = Cardinality(In(branches, ActiveStates)) - 1
      BY <1>3, <2>1, ActiveMoves
    <2>3. /\ In(branches', {"Completed"}) = In(branches, {"Completed"}) \cup {b}
          /\ In(branches', {"Merged"}) = In(branches, {"Merged"}) \ {b}
          /\ In(branches', {"Pruned"}) = In(branches, {"Pruned"}) \ {b}
          /\ In(branches', ActiveStates) = In(branches, ActiveStates) \ {b}
      BY <1>1, <1>3
    <2>4. /\ In(branches, {"Completed"})' = D \cup {b} /\ b \notin D
          /\ In(branches, {"Merged"})' = In(branches, {"Merged"})
          /\ In(branches, {"Pruned"})' = In(branches, {"Pruned"})
          /\ Cardinality(In(branches, ActiveStates))' <= MaxConcurrent
      <3>1. Cardinality(In(branches, ActiveStates)) - 1 <= MaxConcurrent
        BY <2>1, <2>2, SpeculativeAssumption DEF CountsExact
      <3>2. \A X : b \notin X => X \ {b} = X
        OBVIOUS
      <3>3. /\ In(branches', {"Merged"}) = In(branches, {"Merged"})
            /\ In(branches', {"Pruned"}) = In(branches, {"Pruned"})
        BY <2>2, <2>3, <3>2, Zenon
      <3>4. In(branches', {"Completed"}) = D \cup {b} /\ b \notin D
        BY <2>1, <2>2, <2>3, Zenon DEF ResultsExact
      <3>5. Cardinality(In(branches', ActiveStates)) <= MaxConcurrent
        BY <2>2, <2>3, <3>1
      <3>6. QED
        BY <3>3, <3>4, <3>5
    <2>5. CountsExact'
      BY <1>1, <2>1, <2>4 DEF CountsExact
    <2> DEFINE novel == ~IsRedundant(output)
    <2>6. /\ results'[b].output = output /\ results'[b].novel = novel
          /\ novel \in BOOLEAN
          /\ \A c \in D : results'[c] = results[c]
      <3>1. results'[b] = [output |-> output, novel |-> novel]
        BY <1>2, Zenon
      <3>2. \A c \in D : results'[c] = results[c]
        BY <1>2, <2>4
      <3>3. novel \in BOOLEAN
        OBVIOUS
      <3> HIDE DEF novel
      <3>4. QED
        BY <3>1, <3>2, <3>3
    <2>7. ResultsExact'
      <3>1. \A c \in D : /\ results[c].novel \in BOOLEAN
                         /\ \E d \in D : results[d].novel = TRUE
                                         /\ results[d].output = results[c].output
        BY <2>1 DEF ResultsExact
      <3>2. \A c, d \in D : /\ results[c].novel = TRUE /\ results[d].novel = TRUE
                            /\ results[c].output = results[d].output
                            => c = d
        BY <2>1 DEF ResultsExact
      <3>3. novel = FALSE <=> \E c \in D : results[c].output = output
        BY DEF IsRedundant
      <3> HIDE DEF D, novel
      <3>4. \A c \in D \cup {b} : results'[c].novel \in BOOLEAN
        BY <2>6, <3>1
      <3>5. \A c \in D \cup {b} : \E d \in D \cup {b} :
              results'[d].novel = TRUE /\ results'[d].output = results'[c].output
        <4>1. ASSUME NEW c \in D
              PROVE  \E d \in D : results'[d].novel = TRUE
                                  /\ results'[d].output = results[c].output
          BY <2>6, <3>1
        <4>2. \E d \in D \cup {b} :
                results'[d].novel = TRUE /\ results'[d].output = results'[b].output
          <5>1. CASE novel = FALSE
            <6>1. PICK c \in D : results[c].output = output
              BY <3>3, <5>1
            <6>2. PICK d \in D : results'[d].novel = TRUE /\ results'[d].output = results[c].output
              BY <4>1
            <6>3. QED
              BY <2>6, <6>1, <6>2
          <5>2. CASE novel = TRUE
            BY <2>6, <5>2
          <5>3. QED
            BY <2>6, <5>1, <5>2
        <4>3. ASSUME NEW c \in D
              PROVE  \E d \in D \cup {b} :
                       results'[d].novel = TRUE /\ results'[d].output = results'[c].output
          <5>1. results'[c] = results[c]
            BY <2>6
          <5>2. PICK d \in D : results'[d].novel = TRUE /\ results'[d].output = results[c].output
            BY <4>1
          <5>3. QED
            BY <5>1, <5>2
        <4>4. QED
          BY <4>2, <4>3
      <3>6. \A c, d \in D \cup {b} : /\ results'[c].novel = TRUE /\ results'[d].novel = TRUE
                                     /\ results'[c].output = results'[d].output
                                     => c = d
        <4>1. ASSUME NEW c \in D, results'[b].novel = TRUE
              PROVE  results'[c].output # results'[b].output
          <5>1. novel # FALSE
            BY <2>6, <4>1
          <5>2. QED
            BY <2>6, <3>3, <5>1
        <4>2. QED
          BY <2>6, <3>2, <4>1
      <3>7. DOMAIN results' = D \cup {b}
        BY <1>2
      <3>8. QED
        BY <2>4, <3>4, <3>5, <3>6, <3>7 DEF ResultsExact
    <2>8. QED
      BY <2>5, <2>7
  <1>11. QED
    BY <1>8, <1>9, <1>10 DEF SpeculationInv

LEMMA FailKeeps ==
  ASSUME SpeculationInv, NEW b \in BranchIds, FailBranch(b)
  PROVE  SpeculationInv'
  <1> DEFINE e == branches[b].estimated
             h == Held(branches)
  <1>1. /\ branches' = [branches EXCEPT ![b].state = "Failed"]
        /\ late' = late + Late(b)
        /\ UNCHANGED <<results, total_merged, total_pruned, given, charged>>
        /\ token_budget' = token_budget + e
        /\ "Failed" \in BranchStates /\ "Failed" \notin ActiveStates
    BY DEF FailBranch, BranchStates, ActiveStates
  <1>2. /\ b \in 1..Len(branches) /\ e \in Nat /\ h \in Nat
        /\ branches' \in Branchings /\ Len(branches') = Len(branches)
        /\ late' \in Nat
        /\ late' = 0 => late = 0 /\ branches[b].state \in ActiveStates
        /\ branches[b].state \in ActiveStates => Held(branches') = (h - e) + 0
        /\ ~(branches[b].state \in ActiveStates) => late' # 0 /\ Held(branches') = h + 0
        /\ \A S : In(branches', S) = IF "Failed" \in S THEN In(branches, S) \cup {b}
                                     ELSE In(branches, S) \ {b}
    BY <1>1, CallParts
  <1> HIDE DEF e, h
  <1>3. /\ token_budget \in Nat /\ given \in Nat /\ Paid \in Nat /\ Paid' = Paid
        /\ token_budget + h + Paid >= given
        /\ late = 0 => token_budget + h + Paid = given
    <2>1. Paid' = Paid
      BY <1>1 DEF Paid
    <2>2. QED
      BY <2>1, PaidIsNat DEF SpeculationInv, SpeculationTypes, TokensBalance, h
  <1>4. SpeculationTypes'
    <2>1. token_budget' \in Nat
      BY <1>1, <1>2, <1>3
    <2>2. QED
      BY <1>1, <1>2, <2>1 DEF SpeculationInv, SpeculationTypes
  <1>5. TokensBalance'
    <2>1. CASE branches[b].state \in ActiveStates
      <3>1. Held(branches)' = h - e
        BY <1>2, <2>1
      <3>2. QED
        BY <1>1, <1>2, <1>3, <2>1, <3>1 DEF TokensBalance
    <2>2. CASE ~(branches[b].state \in ActiveStates)
      <3>1. Held(branches)' = h /\ late' # 0
        BY <1>2, <2>2
      <3>2. QED
        BY <1>1, <1>2, <1>3, <3>1 DEF TokensBalance
    <2>3. QED
      BY <2>1, <2>2
  <1>6. ASSUME late' = 0
        PROVE  ResultsExact' /\ CountsExact'
    <2>1. branches[b].state \in ActiveStates /\ ResultsExact /\ CountsExact
      BY <1>2, <1>6 DEF SpeculationInv
    <2>2. /\ b \notin In(branches, {"Completed"}) /\ b \notin In(branches, {"Merged"})
          /\ b \notin In(branches, {"Pruned"})
          /\ Cardinality(In(branches, ActiveStates)) \in Nat
          /\ Cardinality(In(branches, ActiveStates) \ {b})
               = Cardinality(In(branches, ActiveStates)) - 1
      BY <1>2, <2>1, ActiveMoves
    <2>3. /\ In(branches', {"Completed"}) = In(branches, {"Completed"}) \ {b}
          /\ In(branches', {"Merged"}) = In(branches, {"Merged"}) \ {b}
          /\ In(branches', {"Pruned"}) = In(branches, {"Pruned"}) \ {b}
          /\ In(branches', ActiveStates) = In(branches, ActiveStates) \ {b}
      BY <1>1, <1>2
    <2>4. \A X : b \notin X => X \ {b} = X
      OBVIOUS
    <2>5. /\ In(branches', {"Completed"}) = In(branches, {"Completed"})
          /\ In(branches', {"Merged"}) = In(branches, {"Merged"})
          /\ In(branches', {"Pruned"}) = In(branches, {"Pruned"})
      BY <2>2, <2>3, <2>4, Zenon
    <2>6. Cardinality(In(branches, ActiveStates)) - 1 <= MaxConcurrent
      BY <2>1, <2>2, SpeculativeAssumption DEF CountsExact
    <2>7. Cardinality(In(branches', ActiveStates)) <= MaxConcurrent
      BY <2>2, <2>3, <2>6
    <2>8. QED
      BY <1>1, <2>1, <2>5, <2>7 DEF ResultsExact, CountsExact
  <1>7. QED
    BY <1>4, <1>5, <1>6 DEF SpeculationInv

LEMMA AddKeeps ==
  ASSUME SpeculationInv, NEW n \in Additions, AddBudget(n)
  PROVE  SpeculationInv'
  <1>1. n \in Nat
    BY SpeculativeAssumption
  <1>2. /\ token_budget' = token_budget + n /\ given' = given + n
        /\ UNCHANGED <<branches, results, total_merged, total_pruned, charged, late>>
    BY DEF AddBudget
  <1>3. /\ token_budget \in Nat /\ given \in Nat /\ Paid \in Nat /\ Held(branches) \in Nat
        /\ Paid' = Paid /\ Held(branches)' = Held(branches)
    BY <1>2, PaidIsNat DEF SpeculationInv, SpeculationTypes, Paid
  <1>4. SpeculationTypes'
    BY <1>1, <1>2, <1>3 DEF SpeculationInv, SpeculationTypes
  <1>5. TokensBalance'
    <2> DEFINE h == Held(branches)
               p == Paid
    <2>1. /\ h \in Nat /\ p \in Nat /\ h' = h /\ p' = p
          /\ token_budget + h + p >= given
          /\ late = 0 => token_budget + h + p = given
      BY <1>3 DEF SpeculationInv, TokensBalance
    <2> HIDE DEF h, p
    <2>2. /\ token_budget' + h' + p' >= given'
          /\ late' = 0 => token_budget' + h' + p' = given'
      BY <1>1, <1>2, <1>3, <2>1
    <2>3. QED
      BY <2>2 DEF TokensBalance, h, p
  <1>6. late' = 0 => ResultsExact' /\ CountsExact'
    BY <1>2 DEF SpeculationInv, ResultsExact, CountsExact
  <1>7. QED
    BY <1>4, <1>5, <1>6 DEF SpeculationInv

\* Branches that are replaced one by one by others.
LEMMA BranchesReplaced ==
  ASSUME NEW br \in Branchings, NEW u \in [1..Len(br) -> BranchRecords]
  PROVE  u \in Branchings /\ Len(u) = Len(br)
  <1>1. Len(br) \in Nat
    BY BranchParts
  <1> DEFINE n == Len(br)
  <1>2. n \in Nat /\ u \in [1..n -> BranchRecords]
    BY <1>1
  <1> HIDE DEF n
  <1>3. u \in Seq(BranchRecords)
    BY <1>2, Zenon, SeqDef
  <1>4. Len(u) = Len(br)
    BY <1>2, <1>3, LenProperties DEF n
  <1>5. QED
    BY <1>3, <1>4 DEF Branchings

\* Two sets of branches without a common one.
LEMMA CountsAdd ==
  ASSUME NEW S, IsFiniteSet(S), NEW T, IsFiniteSet(T), S \cap T = {}
  PROVE  /\ Cardinality(S \cup T) = Cardinality(S) + Cardinality(T)
         /\ Cardinality(S) \in Nat /\ Cardinality(T) \in Nat
  <1>1. Cardinality(S) \in Nat /\ Cardinality(T) \in Nat
    BY FS_CardinalityType
  <1>2. Cardinality(S \cup T) = Cardinality(S) + Cardinality(T) - Cardinality({})
    BY FS_Union
  <1>3. Cardinality({}) = 0
    BY FS_EmptySet
  <1>4. QED
    BY <1>1, <1>2, <1>3

\* The branches in some states are those a set names, one by one.
LEMMA InIs ==
  ASSUME NEW br \in Branchings, NEW n, n = Len(br), NEW S, NEW R \in SUBSET (1..n),
         \A b \in 1..n : b \in R <=> br[b].state \in S
  PROVE  In(br, S) = R
  BY DEF In

LEMMA PruneKeeps == SpeculationInv /\ PruneAllActive => SpeculationInv'
  <1> SUFFICES ASSUME SpeculationInv, PruneAllActive PROVE SpeculationInv'
    OBVIOUS
  <1> DEFINE n == Len(branches)
             A == In(branches, ActiveStates)
             h == Held(branches)
             u == branches'
  <1>1. /\ branches \in Branchings /\ n \in Nat /\ h \in Nat /\ IsFiniteSet(1..n)
        /\ \A b \in 1..n : branches[b] \in BranchRecords
        /\ \A S : IsFiniteSet(In(branches, S)) /\ Cardinality(In(branches, S)) \in Nat
    BY BranchParts DEF SpeculationInv, SpeculationTypes
  <1>2. BranchIds = 1..n /\ Active = A /\ Reserved(Active) = h
    BY <1>1, StatesAreIn, ReservedIsHeld
  <1>3. /\ token_budget' = token_budget + h
        /\ total_pruned' = total_pruned + Cardinality(A)
        /\ UNCHANGED <<results, total_merged, given, charged, late>>
    BY <1>2 DEF PruneAllActive
  <1>4. u = [b \in 1..n |-> IF b \in A THEN [branches[b] EXCEPT !.state = "Pruned"] ELSE branches[b]]
    BY <1>2, Zenon DEF PruneAllActive
  <1> HIDE DEF u
  <1>5. \A b \in 1..n : /\ u[b] \in BranchRecords
                        /\ b \in A => u[b].state = "Pruned"
                        /\ b \notin A => u[b] = branches[b]
    <2> SUFFICES ASSUME NEW b \in 1..n
                 PROVE  /\ u[b] \in BranchRecords
                        /\ b \in A => u[b].state = "Pruned"
                        /\ b \notin A => u[b] = branches[b]
      OBVIOUS
    <2>1. u[b] = IF b \in A THEN [branches[b] EXCEPT !.state = "Pruned"] ELSE branches[b]
      BY <1>4
    <2> HIDE DEF A
    <2>2. QED
      BY <1>1, <2>1 DEF BranchRecords, BranchStates
  <1>6. u \in Branchings /\ Len(u) = n
    <2>1. u \in [1..n -> BranchRecords]
      BY <1>4, <1>5
    <2>2. QED
      BY <1>1, <2>1, BranchesReplaced
  <1>7. \A b \in 1..n : b \in A <=> branches[b].state \in ActiveStates
    BY DEF In
  <1>8. /\ In(u, ActiveStates) = {}
        /\ In(u, {"Completed"}) = In(branches, {"Completed"})
        /\ In(u, {"Merged"}) = In(branches, {"Merged"})
        /\ In(u, {"Pruned"}) = In(branches, {"Pruned"}) \cup A
        /\ In(branches, {"Pruned"}) \cap A = {}
    <2>1. A \in SUBSET (1..n) /\ \A S : In(branches, S) \in SUBSET (1..n)
      BY DEF In
    <2>2. \A S : \A b \in 1..n : b \in In(branches, S) <=> branches[b].state \in S
      BY DEF In
    <2> HIDE DEF A, n
    <2>3. \A b \in 1..n : b \in {} <=> u[b].state \in ActiveStates
      BY <1>5, <1>7 DEF ActiveStates
    <2>4. In(u, ActiveStates) = {}
      <3> DEFINE R == {}
      <3>1. R \in SUBSET (1..n) /\ \A b \in 1..n : b \in R <=> u[b].state \in ActiveStates
        BY <2>3
      <3> HIDE DEF R
      <3>2. In(u, ActiveStates) = R
        BY <1>6, <3>1, InIs
      <3>3. QED
        BY <3>2 DEF R
    <2>5. \A b \in 1..n : b \in In(branches, {"Completed"}) <=> u[b].state \in {"Completed"}
      BY <1>5, <1>7, <2>2 DEF ActiveStates
    <2>6. In(u, {"Completed"}) = In(branches, {"Completed"})
      BY <1>6, <2>1, <2>5, InIs
    <2>7. \A b \in 1..n : b \in In(branches, {"Merged"}) <=> u[b].state \in {"Merged"}
      BY <1>5, <1>7, <2>2 DEF ActiveStates
    <2>8. In(u, {"Merged"}) = In(branches, {"Merged"})
      BY <1>6, <2>1, <2>7, InIs
    <2>9. \A b \in 1..n : b \in In(branches, {"Pruned"}) \cup A <=> u[b].state \in {"Pruned"}
      BY <1>5, <1>7, <2>2 DEF ActiveStates
    <2>10. In(u, {"Pruned"}) = In(branches, {"Pruned"}) \cup A
      <3> DEFINE R == In(branches, {"Pruned"}) \cup A
      <3>1. R \in SUBSET (1..n)
        BY <2>1
      <3> HIDE DEF R
      <3>2. \A b \in 1..n : b \in R <=> u[b].state \in {"Pruned"}
        BY <2>9 DEF R
      <3>3. In(u, {"Pruned"}) = R
        BY <1>6, <3>1, <3>2, InIs
      <3>4. QED
        BY <3>3 DEF R
    <2>11. In(branches, {"Pruned"}) \cap A = {}
      <3>1. \A b \in 1..n : b \in In(branches, {"Pruned"}) => b \notin A
        BY <1>7, <2>2 DEF ActiveStates
      <3>2. QED
        BY <2>1, <3>1
    <2>12. QED
      BY <2>4, <2>6, <2>8, <2>10, <2>11
  <1>9. Held(u) = 0
    <2>1. \A b \in 1..n : ~(u[b].state \in ActiveStates)
      BY <1>6, <1>8 DEF In
    <2>2. \A b \in 1..n : HeldBy(u)[b] = 0
      BY <1>6, <2>1 DEF HeldBy
    <2>3. QED
      BY <1>1, <1>6, <2>2, TotalOfZeros DEF Held
  <1>10. Cardinality(In(u, {"Pruned"})) = Cardinality(In(branches, {"Pruned"})) + Cardinality(A)
    BY <1>1, <1>8, CountsAdd
  <1> HIDE DEF h
  <1>11. SpeculationTypes'
    BY <1>1, <1>3, <1>6 DEF SpeculationInv, SpeculationTypes, u
  <1>12. TokensBalance'
    <2>1. /\ token_budget \in Nat /\ given \in Nat /\ Paid \in Nat /\ Paid' = Paid
          /\ token_budget + h + Paid >= given
          /\ late = 0 => token_budget + h + Paid = given
      BY <1>3, PaidIsNat DEF SpeculationInv, SpeculationTypes, TokensBalance, h, Paid
    <2>2. Held(branches)' = 0
      BY <1>9 DEF u
    <2>3. QED
      BY <1>1, <1>3, <2>1, <2>2 DEF TokensBalance
  <1>13. ASSUME late' = 0
         PROVE  ResultsExact' /\ CountsExact'
    <2>1. ResultsExact /\ CountsExact
      BY <1>3, <1>13 DEF SpeculationInv
    <2>2. Cardinality(In(u, ActiveStates)) = 0 /\ 0 <= MaxConcurrent
      BY <1>8, FS_EmptySet, SpeculativeAssumption
    <2>3. CountsExact'
      BY <1>3, <1>8, <1>10, <2>1, <2>2 DEF CountsExact, u
    <2>4. ResultsExact'
      BY <1>3, <1>8, <2>1 DEF ResultsExact, u
    <2>5. QED
      BY <2>3, <2>4
  <1>14. QED
    BY <1>11, <1>12, <1>13 DEF SpeculationInv

LEMMA MergeKeeps == SpeculationInv /\ Merge => SpeculationInv'
  <1> SUFFICES ASSUME SpeculationInv, Merge PROVE SpeculationInv'
    OBVIOUS
  <1> DEFINE n == Len(branches)
             C == In(branches, {"Completed"})
             K == Mergeable(TRUE)
             D == Mergeable(FALSE)
             u == branches'
  <1>1. /\ branches \in Branchings /\ n \in Nat /\ Held(branches) \in Nat /\ IsFiniteSet(1..n)
        /\ \A b \in 1..n : branches[b] \in BranchRecords /\ HeldBy(branches)[b] \in Nat
        /\ \A S : IsFiniteSet(In(branches, S)) /\ Cardinality(In(branches, S)) \in Nat
    BY BranchParts DEF SpeculationInv, SpeculationTypes
  <1>2. /\ BranchIds = 1..n
        /\ K = {b \in C \cap DOMAIN results : results[b].novel = TRUE}
        /\ D = {b \in C \cap DOMAIN results : results[b].novel = FALSE}
    BY <1>1, StatesAreIn DEF Mergeable
  <1>3. /\ total_merged' = total_merged + Cardinality(K)
        /\ total_pruned' = total_pruned + Cardinality(D)
        /\ UNCHANGED <<token_budget, given, charged, late>>
        /\ DOMAIN results' = DOMAIN results \ (K \cup D)
    BY DEF Merge
  <1>4. u = [b \in 1..n |-> CASE b \in K -> [branches[b] EXCEPT !.state = "Merged"]
                              [] b \in D -> [branches[b] EXCEPT !.state = "Pruned"]
                              [] OTHER   -> branches[b]]
    BY <1>2, Zenon DEF Merge
  <1>5. K \cap D = {} /\ K \in SUBSET C /\ D \in SUBSET C
    BY <1>2
  <1>6. C \in SUBSET (1..n) /\ \A b \in 1..n : b \in C <=> branches[b].state = "Completed"
    BY DEF In
  <1> HIDE DEF u, K, D, C
  <1>7. \A b \in 1..n : /\ u[b] \in BranchRecords
                        /\ b \in K => u[b].state = "Merged"
                        /\ b \in D => u[b].state = "Pruned"
                        /\ b \notin K /\ b \notin D => u[b] = branches[b]
    <2> SUFFICES ASSUME NEW b \in 1..n
                 PROVE  /\ u[b] \in BranchRecords
                        /\ b \in K => u[b].state = "Merged"
                        /\ b \in D => u[b].state = "Pruned"
                        /\ b \notin K /\ b \notin D => u[b] = branches[b]
      OBVIOUS
    <2>1. u[b] = CASE b \in K -> [branches[b] EXCEPT !.state = "Merged"]
                   [] b \in D -> [branches[b] EXCEPT !.state = "Pruned"]
                   [] OTHER   -> branches[b]
      BY <1>4, Zenon
    <2>2. branches[b] \in BranchRecords
      BY <1>1
    <2>3. CASE b \in K
      <3>1. u[b] = [branches[b] EXCEPT !.state = "Merged"] /\ b \notin D
        BY <1>5, <2>1, <2>3
      <3>2. QED
        BY <2>2, <2>3, <3>1 DEF BranchRecords, BranchStates
    <2>4. CASE b \in D
      <3>1. u[b] = [branches[b] EXCEPT !.state = "Pruned"] /\ b \notin K
        BY <1>5, <2>1, <2>4
      <3>2. QED
        BY <2>2, <2>4, <3>1 DEF BranchRecords, BranchStates
    <2>5. CASE b \notin K /\ b \notin D
      <3>1. u[b] = branches[b]
        BY <2>1, <2>5
      <3>2. QED
        BY <2>2, <2>5, <3>1
    <2>6. QED
      BY <2>3, <2>4, <2>5
  <1>8. u \in Branchings /\ Len(u) = n
    <2>1. u \in [1..n -> BranchRecords]
      BY <1>4, <1>7
    <2>2. QED
      BY <1>1, <2>1, BranchesReplaced
  <1>9. \A b \in 1..n : HeldBy(u)[b] = HeldBy(branches)[b]
    <2>1. ASSUME NEW b \in 1..n
          PROVE  /\ u[b] = branches[b] \/ (~(u[b].state \in ActiveStates)
                                           /\ ~(branches[b].state \in ActiveStates))
      BY <1>5, <1>6, <1>7 DEF ActiveStates
    <2>2. QED
      BY <1>8, <2>1 DEF HeldBy
  <1>10. Held(u) = Held(branches)
    BY <1>1, <1>8, <1>9, TotalsAgree DEF Held
  <1>11. /\ In(u, ActiveStates) = In(branches, ActiveStates)
         /\ In(u, {"Completed"}) = C \ (K \cup D)
         /\ In(u, {"Merged"}) = In(branches, {"Merged"}) \cup K
         /\ In(u, {"Pruned"}) = In(branches, {"Pruned"}) \cup D
         /\ In(branches, {"Merged"}) \cap K = {}
         /\ In(branches, {"Pruned"}) \cap D = {}
    <2>1. K \in SUBSET (1..n) /\ D \in SUBSET (1..n) /\ \A S : In(branches, S) \in SUBSET (1..n)
      BY <1>5, <1>6 DEF In
    <2>2. \A S : \A b \in 1..n : b \in In(branches, S) <=> branches[b].state \in S
      BY DEF In
    <2>3. \A b \in 1..n : /\ b \in C <=> branches[b].state = "Completed"
                          /\ b \in K => b \in C /\ b \notin D
                          /\ b \in D => b \in C /\ b \notin K
      BY <1>5, <1>6
    <2> HIDE DEF n
    <2>4. \A b \in 1..n : b \in In(branches, ActiveStates) <=> u[b].state \in ActiveStates
      BY <1>7, <2>2, <2>3 DEF ActiveStates
    <2>5. In(u, ActiveStates) = In(branches, ActiveStates)
      <3> DEFINE R == In(branches, ActiveStates)
      <3>1. R \in SUBSET (1..n)
        BY <1>6, <2>1
      <3> HIDE DEF R
      <3>2. \A b \in 1..n : b \in R <=> u[b].state \in ActiveStates
        BY <2>4 DEF R
      <3>3. In(u, ActiveStates) = R
        BY <1>8, <3>1, <3>2, InIs
      <3>4. QED
        BY <3>3 DEF R
    <2>6. \A b \in 1..n : b \in (C \ (K \cup D)) <=> u[b].state \in {"Completed"}
      BY <1>7, <2>2, <2>3 DEF ActiveStates
    <2>7. In(u, {"Completed"}) = (C \ (K \cup D))
      <3> DEFINE R == (C \ (K \cup D))
      <3>1. R \in SUBSET (1..n)
        BY <1>6, <2>1
      <3> HIDE DEF R
      <3>2. \A b \in 1..n : b \in R <=> u[b].state \in {"Completed"}
        BY <2>6 DEF R
      <3>3. In(u, {"Completed"}) = R
        BY <1>8, <3>1, <3>2, InIs
      <3>4. QED
        BY <3>3 DEF R
    <2>8. \A b \in 1..n : b \in (In(branches, {"Merged"}) \cup K) <=> u[b].state \in {"Merged"}
      BY <1>7, <2>2, <2>3 DEF ActiveStates
    <2>9. In(u, {"Merged"}) = (In(branches, {"Merged"}) \cup K)
      <3> DEFINE R == (In(branches, {"Merged"}) \cup K)
      <3>1. R \in SUBSET (1..n)
        BY <1>6, <2>1
      <3> HIDE DEF R
      <3>2. \A b \in 1..n : b \in R <=> u[b].state \in {"Merged"}
        BY <2>8 DEF R
      <3>3. In(u, {"Merged"}) = R
        BY <1>8, <3>1, <3>2, InIs
      <3>4. QED
        BY <3>3 DEF R
    <2>10. \A b \in 1..n : b \in (In(branches, {"Pruned"}) \cup D) <=> u[b].state \in {"Pruned"}
      BY <1>7, <2>2, <2>3 DEF ActiveStates
    <2>11. In(u, {"Pruned"}) = (In(branches, {"Pruned"}) \cup D)
      <3> DEFINE R == (In(branches, {"Pruned"}) \cup D)
      <3>1. R \in SUBSET (1..n)
        BY <1>6, <2>1
      <3> HIDE DEF R
      <3>2. \A b \in 1..n : b \in R <=> u[b].state \in {"Pruned"}
        BY <2>10 DEF R
      <3>3. In(u, {"Pruned"}) = R
        BY <1>8, <3>1, <3>2, InIs
      <3>4. QED
        BY <3>3 DEF R
    <2>12. In(branches, {"Merged"}) \cap K = {} /\ In(branches, {"Pruned"}) \cap D = {}
      <3>1. \A b \in 1..n : /\ b \in In(branches, {"Merged"}) => b \notin K
                            /\ b \in In(branches, {"Pruned"}) => b \notin D
        BY <2>2, <2>3
      <3>2. QED
        BY <2>1, <3>1
    <2>13. QED
      BY <2>5, <2>7, <2>9, <2>11, <2>12
  <1>12. IsFiniteSet(K) /\ IsFiniteSet(D)
    BY <1>1, <1>5, <1>6, FS_Subset
  <1>13. /\ Cardinality(In(u, {"Merged"})) = Cardinality(In(branches, {"Merged"})) + Cardinality(K)
         /\ Cardinality(In(u, {"Pruned"})) = Cardinality(In(branches, {"Pruned"})) + Cardinality(D)
         /\ Cardinality(K) \in Nat /\ Cardinality(D) \in Nat
    BY <1>1, <1>11, <1>12, CountsAdd
  <1>14. SpeculationTypes'
    BY <1>3, <1>8, <1>13 DEF SpeculationInv, SpeculationTypes, u
  <1>15. TokensBalance'
    <2>1. Held(branches)' = Held(branches) /\ Paid' = Paid
      BY <1>3, <1>10 DEF u, Paid
    <2>2. QED
      BY <1>3, <2>1 DEF SpeculationInv, TokensBalance
  <1>16. ASSUME late' = 0
         PROVE  ResultsExact' /\ CountsExact'
    <2>1. ResultsExact /\ CountsExact
      BY <1>3, <1>16 DEF SpeculationInv
    <2>2. C = DOMAIN results /\ C \ (K \cup D) = {}
      BY <1>2, <2>1 DEF ResultsExact, C
    <2>3. DOMAIN results' = {} /\ In(branches, {"Completed"})' = {}
      BY <1>3, <1>11, <2>2 DEF u
    <2>4. ResultsExact'
      BY <2>3 DEF ResultsExact
    <2>5. CountsExact'
      BY <1>3, <1>11, <1>13, <2>1 DEF CountsExact, u
    <2>6. QED
      BY <2>4, <2>5
  <1>17. QED
    BY <1>14, <1>15, <1>16 DEF SpeculationInv

\* What is there after some candidates of a fork: more branches, queued, whose
\* reservations left the budget.
ForkStates ==
  {a \in [branches: Branchings, budget: Nat, active: Nat] :
     /\ Len(a.branches) >= Len(branches)
     /\ a.budget + Held(a.branches) = token_budget + Held(branches)
     /\ a.active = Cardinality(In(a.branches, ActiveStates))
     /\ Cardinality(In(branches, ActiveStates)) <= MaxConcurrent => a.active <= MaxConcurrent
     /\ In(a.branches, {"Completed"}) = In(branches, {"Completed"})
     /\ In(a.branches, {"Merged"}) = In(branches, {"Merged"})
     /\ In(a.branches, {"Pruned"}) = In(branches, {"Pruned"})}

Candidates == [confidence: Nat, estimated: Nat]

LEMMA ForkSteps ==
  ASSUME NEW a \in ForkStates, NEW c \in Candidates
  PROVE  Spawned(a, c) \in ForkStates
  <1> DEFINE br == a.branches
             u == Append(br, [estimated |-> c.estimated, state |-> "Queued"])
             k == c.estimated
             after == [branches |-> u, budget |-> a.budget - k, active |-> a.active + 1]
  <1>1. CASE Spawned(a, c) = a
    BY <1>1
  <1>2. CASE Spawned(a, c) # a
    <2>1. k <= a.budget /\ a.active < MaxConcurrent /\ Spawned(a, c) = after
      BY <1>2 DEF Spawned
    <2>2. /\ br \in Branchings /\ a.budget \in Nat /\ a.active \in Nat /\ k \in Nat
          /\ Len(br) >= Len(branches)
          /\ a.budget + Held(br) = token_budget + Held(branches)
          /\ a.active = Cardinality(In(br, ActiveStates))
          /\ In(br, {"Completed"}) = In(branches, {"Completed"})
          /\ In(br, {"Merged"}) = In(branches, {"Merged"})
          /\ In(br, {"Pruned"}) = In(branches, {"Pruned"})
      BY DEF ForkStates, Candidates
    <2>3. u = Queued(br, k)
      BY DEF Queued
    <2> HIDE DEF br, u, k
    <2>4. /\ u \in Branchings /\ Len(u) = Len(br) + 1
          /\ Held(u) = Held(br) + k
          /\ \A S : In(u, S) = IF "Queued" \in S THEN In(br, S) \cup {Len(br) + 1} ELSE In(br, S)
      <3>1. br \in Branchings /\ k \in Nat
        BY <2>2
      <3>2. OneMore(br, k, Queued(br, k))
        BY <3>1, BranchForked, Zenon
      <3>3. QED
        BY <2>3, <3>2 DEF OneMore
    <2>5. /\ Len(br) \in Nat /\ Held(br) \in Nat
          /\ \A S : IsFiniteSet(In(br, S)) /\ Cardinality(In(br, S)) \in Nat
      BY <2>2, BranchParts
    <2>6. Cardinality(In(u, ActiveStates)) = a.active + 1
      <3>1. In(u, ActiveStates) = In(br, ActiveStates) \cup {Len(br) + 1}
        BY <2>4 DEF ActiveStates
      <3>2. Len(br) + 1 \notin In(br, ActiveStates)
        BY <2>5 DEF In
      <3> DEFINE B == In(br, ActiveStates)
                 x == Len(br) + 1
      <3>3. IsFiniteSet(B) /\ x \notin B
        BY <2>5, <3>2
      <3> HIDE DEF B, x
      <3>4. Cardinality(B \cup {x}) = Cardinality(B) + 1
        BY <3>3, FS_AddElement
      <3>5. QED
        BY <2>2, <3>1, <3>4 DEF B, x
    <2>7. /\ In(u, {"Completed"}) = In(branches, {"Completed"})
          /\ In(u, {"Merged"}) = In(branches, {"Merged"})
          /\ In(u, {"Pruned"}) = In(branches, {"Pruned"})
      BY <2>2, <2>4
    <2>8. /\ a.budget - k \in Nat /\ a.active + 1 \in Nat
      BY <2>1, <2>2
    <2>9. (a.budget - k) + Held(u) = token_budget + Held(branches)
      <3> DEFINE h == Held(br)
                 g == Held(u)
                 s == token_budget + Held(branches)
      <3>1. h \in Nat /\ g = h + k /\ a.budget + h = s
        BY <2>2, <2>4, <2>5
      <3> HIDE DEF h, g, s
      <3>2. (a.budget - k) + g = s
        BY <2>2, <3>1
      <3>3. QED
        BY <3>2 DEF g, s
    <2>10. a.active + 1 <= MaxConcurrent /\ Len(u) >= Len(branches)
      <3>1. Len(br) + 1 >= Len(branches)
        <4>1. Len(branches) <= Len(br)
          BY <2>2
        <4>2. QED
          BY <2>2, <2>5
      <3>2. QED
        BY <2>1, <2>2, <2>4, <3>1, SpeculativeAssumption
    <2>11. after \in [branches: Branchings, budget: Nat, active: Nat]
      BY <2>4, <2>8
    <2>12. after.branches = u /\ after.budget = a.budget - k /\ after.active = a.active + 1
      OBVIOUS
    <2> HIDE DEF after
    <2>13. after \in ForkStates
      BY <2>6, <2>7, <2>9, <2>10, <2>11, <2>12 DEF ForkStates
    <2>14. QED
      BY <2>1, <2>13
  <1>3. QED
    BY <1>1, <1>2

\* Branches that completed for nothing add nothing to what was paid.
LEMMA PaidStays ==
  ASSUME SpeculationTypes, NEW m \in Nat, charged' = charged \o [i \in 1..m |-> 0]
  PROVE  charged' \in Seq(Nat) /\ Len(charged') = Len(charged) + m /\ Paid' = Paid
  <1> DEFINE z == [i \in 1..m |-> 0]
             n == Len(charged)
             c == charged
             d == charged'
             U == 1..n
             S == 1..(n + m)
  <1>1. c \in Seq(Nat) /\ n \in Nat /\ (\A b \in U : c[b] \in Nat) /\ IsFiniteSet(U)
    BY PaidIsNat, LenProperties DEF SpeculationTypes
  <1>2. z \in Seq(Nat) /\ Len(z) = m /\ \A i \in 1..m : z[i] = 0
    <2>1. z \in [1..m -> Nat] /\ \A i \in 1..m : z[i] = 0
      OBVIOUS
    <2> HIDE DEF z
    <2>2. z \in Seq(Nat)
      BY <2>1, Zenon, SeqDef
    <2>3. QED
      BY <2>1, <2>2, LenProperties
  <1>3. d = c \o z
    OBVIOUS
  <1> HIDE DEF z, c, d
  <1>4. /\ d \in Seq(Nat) /\ Len(d) = n + m
        /\ \A i \in 1..(n + m) : d[i] = IF i <= n THEN c[i] ELSE z[i - n]
    <2>1. Len(c) = n
      BY DEF c
    <2>2. c \in Seq(Nat) /\ z \in Seq(Nat)
      BY <1>1, <1>2
    <2>3. /\ c \o z \in Seq(Nat) /\ Len(c \o z) = Len(c) + Len(z)
          /\ \A i \in 1..Len(c) + Len(z) : (c \o z)[i] = IF i <= Len(c) THEN c[i] ELSE z[i - Len(c)]
      BY <2>2, ConcatProperties, Zenon
    <2>4. QED
      BY <1>2, <1>3, <2>1, <2>3, Zenon
  <1>5. /\ U \in SUBSET S /\ IsFiniteSet(S)
        /\ \A b \in U : d[b] = c[b]
        /\ \A b \in S \ U : d[b] = 0
        /\ \A b \in S : d[b] \in Nat
    <2>1. \A b \in S : b \in Nat /\ b >= 1 /\ b <= n + m
      BY <1>1
    <2>2. U \in SUBSET S
      BY <1>1
    <2>3. \A b \in U : b <= n
      BY <1>1
    <2>4. \A b \in S \ U : ~(b <= n) /\ b - n \in 1..m
      BY <1>1, <2>1
    <2>5. n + m \in Int
      BY <1>1
    <2>6. IsFiniteSet(S)
      <3> DEFINE k == n + m
      <3>1. k \in Int
        BY <2>5
      <3> HIDE DEF k
      <3>2. IsFiniteSet(1..k)
        BY <3>1, FS_Interval
      <3>3. QED
        BY <3>2 DEF k
    <2>7. \A b \in U : d[b] = c[b]
      BY <1>4, <2>2, <2>3
    <2>8. \A b \in S \ U : d[b] = 0
      BY <1>2, <1>4, <2>4
    <2>9. \A b \in S : d[b] \in Nat
      BY <1>1, <2>7, <2>8
    <2>10. QED
      BY <2>2, <2>6, <2>7, <2>8, <2>9
  <1> HIDE DEF S, U
  <1>6. Total(d, S) = Total(d, U)
    BY <1>5, TotalOfPart
  <1>7. Total(d, U) = Total(c, U)
    BY <1>1, <1>5, TotalsAgree
  <1>8. Paid = Total(c, U)
    BY DEF Paid, c, U
  <1>9. Paid' = Total(d, S)
    BY <1>4 DEF Paid, d, S
  <1>10. QED
    BY <1>4, <1>6, <1>7, <1>8, <1>9, Zenon DEF d

LEMMA ForkKeeps ==
  ASSUME SpeculationInv, NEW candidates \in CandidateLists, Fork(candidates)
  PROVE  SpeculationInv'
  <1>1. PICK r \in Ranks(candidates) :
          LET sorted == [i \in DOMAIN candidates |-> candidates[r[i]]]
              after == FoldLeft(Spawned,
                                [branches |-> branches, budget |-> token_budget,
                                 active |-> Cardinality(Active)], sorted)
          IN  /\ branches' = after.branches
              /\ token_budget' = after.budget
              /\ charged' = charged \o
                   [i \in 1 .. Len(after.branches) - Len(branches) |-> 0]
              /\ UNCHANGED <<results, total_merged, total_pruned, given, late>>
    BY Zenon DEF Fork
  <1> DEFINE sorted == [i \in DOMAIN candidates |-> candidates[r[i]]]
             base == [branches |-> branches, budget |-> token_budget,
                      active |-> Cardinality(Active)]
             after == FoldLeft(Spawned, base, sorted)
             n == Len(candidates)
             A == In(branches, ActiveStates)
  <1>2. /\ branches' = after.branches /\ token_budget' = after.budget
        /\ charged' = charged \o [i \in 1 .. Len(after.branches) - Len(branches) |-> 0]
        /\ UNCHANGED <<results, total_merged, total_pruned, given, late>>
    BY <1>1, Zenon
  <1>3. /\ candidates \in Seq(Candidates) /\ n \in Nat /\ DOMAIN candidates = 1..n
        /\ \A i \in 1..n : candidates[i] \in Candidates
    <2>1. candidates \in Seq(Candidates)
      BY SpeculativeAssumption DEF Candidates
    <2>2. QED
      BY <2>1, LenProperties, ElementOfSeq
  <1>4. r \in [1..n -> 1..n]
    BY <1>3, Zenon DEF Ranks, Bijection, Injection
  <1>5. sorted \in [1..n -> Candidates]
    BY <1>3, <1>4
  <1>6. /\ branches \in Branchings /\ Len(branches) \in Nat /\ token_budget \in Nat
        /\ Held(branches) \in Nat /\ Cardinality(A) \in Nat
    BY BranchParts DEF SpeculationInv, SpeculationTypes
  <1>7. base \in ForkStates
    <2>1. base.branches = branches /\ base.budget = token_budget /\ base.active = Cardinality(A)
      BY <1>6, StatesAreIn
    <2>2. base \in [branches: Branchings, budget: Nat, active: Nat]
      BY <1>6, StatesAreIn
    <2> HIDE DEF base
    <2>3. QED
      BY <1>6, <2>1, <2>2 DEF ForkStates
  <1>8. \A a \in ForkStates, c \in Candidates : Spawned(a, c) \in ForkStates
    BY ForkSteps
  <1> HIDE DEF base, sorted, n
  <1>9. after \in ForkStates
    <2> DEFINE P == ForkStates
    <2>1. base \in P /\ \A a \in P, c \in Candidates : Spawned(a, c) \in P
      BY <1>7, <1>8
    <2> HIDE DEF P
    <2>2. n \in Nat
      BY <1>3
    <2>3. after \in P
      BY <1>5, <2>1, <2>2, SpawnedStays
    <2>4. QED
      BY <2>3 DEF P
  <1> HIDE DEF after
  <1>10. /\ branches' \in Branchings /\ Len(branches') >= Len(branches) /\ token_budget' \in Nat
         /\ token_budget' + Held(branches') = token_budget + Held(branches)
         /\ Cardinality(In(branches, ActiveStates)) <= MaxConcurrent
              => Cardinality(In(branches', ActiveStates)) <= MaxConcurrent
         /\ In(branches', {"Completed"}) = In(branches, {"Completed"})
         /\ In(branches', {"Merged"}) = In(branches, {"Merged"})
         /\ In(branches', {"Pruned"}) = In(branches, {"Pruned"})
    BY <1>2, <1>9 DEF ForkStates
  <1> DEFINE m == Len(branches') - Len(branches)
  <1>11. Len(branches') \in Nat /\ Held(branches') \in Nat
    <2> DEFINE u == branches'
    <2>1. u \in Branchings
      BY <1>10
    <2> HIDE DEF u
    <2>2. Len(u) \in Nat /\ Held(u) \in Nat
      BY <2>1, BranchParts
    <2>3. QED
      BY <2>2 DEF u
  <1>12. m \in Nat /\ charged' = charged \o [i \in 1..m |-> 0]
    BY <1>2, <1>6, <1>10, <1>11
  <1>13. /\ charged' \in Seq(Nat) /\ Len(charged') = Len(charged) + m /\ Paid' = Paid
    <2> HIDE DEF m
    <2>1. SpeculationTypes
      BY DEF SpeculationInv
    <2>2. QED
      BY <1>12, <2>1, PaidStays, Zenon
  <1>14. SpeculationTypes'
    <2>1. Len(charged') = Len(branches')
      <3>1. Len(charged') = Len(branches) + m
        BY <1>13 DEF SpeculationInv, SpeculationTypes
      <3> DEFINE x == Len(branches)
                 y == Len(branches')
      <3>2. x \in Nat /\ y \in Nat /\ Len(charged') = x + (y - x)
        BY <1>6, <1>11, <3>1
      <3> HIDE DEF x, y
      <3>3. Len(charged') = y
        BY <3>2
      <3>4. QED
        BY <3>3 DEF y
    <2>2. DOMAIN results' \in SUBSET (1..Len(branches'))
      <3>1. DOMAIN results' \in SUBSET (1..Len(branches))
        BY <1>2 DEF SpeculationInv, SpeculationTypes
      <3>2. 1..Len(branches) \in SUBSET (1..Len(branches'))
        BY <1>6, <1>10, <1>11
      <3>3. QED
        BY <3>1, <3>2
    <2>3. QED
      BY <1>2, <1>10, <1>13, <2>1, <2>2 DEF SpeculationInv, SpeculationTypes
  <1>15. TokensBalance'
    <2> DEFINE h == Held(branches)
               k == Held(branches')
               p == Paid
    <2>1. /\ h \in Nat /\ k \in Nat /\ p \in Nat /\ token_budget' + k = token_budget + h
          /\ Paid' = p /\ given' = given /\ late' = late /\ Held(branches)' = k
          /\ token_budget + h + p >= given
          /\ late = 0 => token_budget + h + p = given
          /\ token_budget \in Nat /\ token_budget' \in Nat /\ given \in Nat
      BY <1>2, <1>6, <1>10, <1>11, <1>13, PaidIsNat DEF SpeculationInv, TokensBalance, SpeculationTypes
    <2> HIDE DEF h, k, p
    <2>2. /\ token_budget' + k + p >= given'
          /\ late' = 0 => token_budget' + k + p = given'
      BY <2>1
    <2>3. QED
      BY <2>1, <2>2 DEF TokensBalance
  <1>16. late' = 0 => ResultsExact' /\ CountsExact'
    BY <1>2, <1>10 DEF SpeculationInv, ResultsExact, CountsExact
  <1>17. QED
    BY <1>14, <1>15, <1>16 DEF SpeculationInv

LEMMA SpeculationNext == SpeculationInv /\ [SpeculativeNext]_speculative_vars => SpeculationInv'
  <1> SUFFICES ASSUME SpeculationInv, [SpeculativeNext]_speculative_vars PROVE SpeculationInv'
    OBVIOUS
  <1>1. ASSUME NEW n \in Additions, AddBudget(n) PROVE SpeculationInv'
    BY <1>1, AddKeeps
  <1>2. ASSUME NEW list \in CandidateLists, Fork(list) PROVE SpeculationInv'
    BY <1>2, ForkKeeps
  <1>3. ASSUME NEW b \in BranchIds, StartBranch(b) PROVE SpeculationInv'
    BY <1>3, StartKeeps
  <1>4. ASSUME NEW b \in BranchIds, NEW output \in Outputs, NEW spent \in Spent,
               CompleteBranch(b, output, spent)
        PROVE  SpeculationInv'
    BY <1>4, CompleteKeeps
  <1>5. CASE Merge
    BY <1>5, MergeKeeps
  <1>6. CASE PruneAllActive
    BY <1>6, PruneKeeps
  <1>7. ASSUME NEW b \in BranchIds, FailBranch(b) PROVE SpeculationInv'
    BY <1>7, FailKeeps
  <1>8. CASE UNCHANGED speculative_vars
    <2>1. UNCHANGED <<branches, results, token_budget, total_merged, total_pruned, given,
                      charged, late>>
      BY <1>8 DEF speculative_vars
    <2>2. SpeculationTypes' /\ TokensBalance'
      BY <2>1 DEF SpeculationInv, SpeculationTypes, TokensBalance, Paid
    <2>3. late' = 0 => ResultsExact' /\ CountsExact'
      BY <2>1 DEF SpeculationInv, ResultsExact, CountsExact
    <2>4. QED
      BY <2>2, <2>3 DEF SpeculationInv
  <1>9. QED
    BY <1>1, <1>2, <1>3, <1>4, <1>5, <1>6, <1>7, <1>8, Zenon DEF SpeculativeNext

\* Budget, reservations and payments balance, and until a call is late the
\* results and the counters say what became of each branch: the methods of
\* SpeculativeEngine keep this together.
THEOREM SpeculationInvariant == SpeculativeSpec => []SpeculationInv
  BY SpeculationInit, SpeculationNext, PTL DEF SpeculativeSpec

\* The engine neither loses nor mints tokens: budget, active reservations and
\* what completed branches kept add up to what it was given.
THEOREM TokensStayConserved == SpeculativeSpec => []TokensConserved
  <1>1. SpeculationInv => TokensConserved
    <2> SUFFICES ASSUME SpeculationInv PROVE TokensConserved
      OBVIOUS
    <2> DEFINE h == Held(branches)
               p == Paid
    <2>1. /\ SpeculationTypes /\ h \in Nat /\ p \in Nat /\ token_budget \in Nat /\ given \in Nat
          /\ token_budget + h + p >= given
          /\ late = 0 => token_budget + h + p = given
      BY PaidIsNat DEF SpeculationInv, TokensBalance, SpeculationTypes
    <2>2. /\ BranchIds = 1..Len(branches) /\ Active = In(branches, ActiveStates)
          /\ Reserved(Active) = h /\ Len(charged) = Len(branches)
      BY <2>1, StatesAreIn, ReservedIsHeld DEF SpeculationTypes
    <2>3. MapThenSumSet(LAMBDA b : charged[b], BranchIds) = p
      <3>1. \A S : MapThenSumSet(LAMBDA b : charged[b], S) = Total(charged, S)
        BY ChargedIsTotal
      <3>2. QED
        BY <2>2, <3>1 DEF Paid
    <2>4. SpeculativeTypeOK
      BY <2>1, <2>2, BranchParts DEF SpeculationTypes, SpeculativeTypeOK, BranchRecords
    <2>5. late = 0 => Cardinality(Active) <= MaxConcurrent
      BY <2>2 DEF SpeculationInv, CountsExact
    <2> HIDE DEF h, p
    <2>6. QED
      BY <2>1, <2>2, <2>3, <2>4, <2>5 DEF TokensConserved
  <1>2. QED
    BY <1>1, SpeculationInvariant, PTL

\* Merging takes every result once and its counters are exact, as long as no
\* call reaches a branch that is over.
THEOREM MergesStayExact == SpeculativeSpec => []MergeExact
  <1>1. SpeculationInv => MergeExact
    <2> SUFFICES ASSUME SpeculationInv, late = 0 
                 PROVE  /\ DOMAIN results = InState({"Completed"})
                        /\ \A b \in DOMAIN results :
                             Cardinality({c \in Mergeable(TRUE) :
                                            results[c].output = results[b].output}) = 1
                        /\ total_merged = Cardinality(InState({"Merged"}))
                        /\ total_pruned = Cardinality(InState({"Pruned"}))
      BY DEF MergeExact
    <2>1. ResultsExact /\ CountsExact /\ \A S : InState(S) = In(branches, S)
      BY StatesAreIn DEF SpeculationInv, SpeculationTypes
    <2>2. ASSUME NEW b \in DOMAIN results
          PROVE  Cardinality({c \in Mergeable(TRUE) :
                                results[c].output = results[b].output}) = 1
      <3> DEFINE M == {c \in Mergeable(TRUE) : results[c].output = results[b].output}
      <3>1. Mergeable(TRUE) = {c \in DOMAIN results : results[c].novel = TRUE}
        BY <2>1 DEF Mergeable, ResultsExact
      <3>2. PICK c \in DOMAIN results : /\ results[c].novel = TRUE
                                        /\ results[c].output = results[b].output
        BY <2>1, <2>2 DEF ResultsExact
      <3>3. \A d \in M : d = c
        BY <2>1, <3>1, <3>2 DEF ResultsExact
      <3>4. M = {c}
        BY <3>1, <3>2, <3>3
      <3>5. Cardinality({c}) = 1
        BY FS_Singleton
      <3>6. QED
        BY <3>4, <3>5
    <2>3. QED
      BY <2>1, <2>2 DEF ResultsExact, CountsExact
  <1>2. QED
    BY <1>1, SpeculationInvariant, PTL

-----------------------------------------------------------------------------
(* The index of the memory and the limits of its tiers *)

\* The chunks of f that hold a term.
Holding(f, t) == {id \in DOMAIN f : t \in f[id].terms}

\* IndexExact bounds a frequency by the count of documents, which a removal
\* lowers even when the removed text lacks the term: what is inductive is
\* that the frequency is ahead of the chunks that hold the term by at most one
\* for every chunk stored over another.
FrequenciesAhead ==
  \A t \in Terms : doc_freq[t] \in WithTerm(t) .. WithTerm(t) + restores

\* The index and the chunks it is of.
IndexInv ==
  /\ MemoryTypeOK
  /\ IsFiniteSet(Stored)
  /\ restores \in Nat
  /\ DOMAIN term_vectors = Stored
  /\ \A id \in Stored : term_vectors[id] = chunks[id].terms
  /\ doc_count = Cardinality(Stored) + restores
  /\ FrequenciesAhead

TiersInv ==
  /\ thresholds \in TierThresholds
  /\ enforced \in [LimitedTiers -> Nat]
  /\ promoted \in [LimitedTiers -> Nat]
  /\ TiersBounded

MInv == IndexInv /\ TiersInv

\* 1 when x is in S.
Counted(x, S) == IF x \in S THEN 1 ELSE 0

-----------------------------------------------------------------------------
(* Lemmas about finite sets and the helpers *)

\* Counting the chunks that hold a term.
LEMMA HoldingCount ==
  ASSUME NEW f, IsFiniteSet(DOMAIN f), NEW t
  PROVE  /\ IsFiniteSet(Holding(f, t))
         /\ Cardinality(Holding(f, t)) \in Nat
         /\ Cardinality(Holding(f, t)) <= Cardinality(DOMAIN f)
         /\ Cardinality(DOMAIN f) \in Nat
  <1>1. Holding(f, t) \in SUBSET DOMAIN f
    BY DEF Holding
  <1>2. QED
    BY <1>1, FS_Subset, FS_CardinalityType

LEMMA WithTermCount ==
  ASSUME NEW t
  PROVE  WithTerm(t) = Cardinality(Holding(chunks, t))
  BY DEF WithTerm, Holding, Stored

\* Counting the chunks of a tier.
LEMMA InTierCount ==
  ASSUME NEW f, IsFiniteSet(DOMAIN f), NEW tier
  PROVE  /\ IsFiniteSet(InTier(f, tier))
         /\ Cardinality(InTier(f, tier)) \in Nat
  <1>1. InTier(f, tier) \in SUBSET DOMAIN f
    BY DEF InTier
  <1>2. QED
    BY <1>1, FS_Subset, FS_CardinalityType

\* A new entry under an id changes the number of chunks that hold a term by
\* whether the new one does and whether an old one did.
LEMMA WithCount ==
  ASSUME NEW f, NEW id, NEW value, NEW t, IsFiniteSet(DOMAIN f)
  PROVE  /\ IsFiniteSet(DOMAIN With(f, id, value))
         /\ Cardinality(DOMAIN With(f, id, value)) =
              Cardinality(DOMAIN f) + 1 - Counted(id, DOMAIN f)
         /\ Cardinality(Holding(With(f, id, value), t)) =
              Cardinality(Holding(f, t)) + Counted(t, value.terms)
                - Counted(id, Holding(f, t))
  <1> DEFINE g == With(f, id, value)
             old == Holding(f, t)
  <1>1. /\ DOMAIN g = DOMAIN f \cup {id}
        /\ \A x \in DOMAIN g : g[x] = IF x = id THEN value ELSE f[x]
    BY DEF With
  <1>2. IsFiniteSet(DOMAIN g)
        /\ Cardinality(DOMAIN g) = Cardinality(DOMAIN f) + 1 - Counted(id, DOMAIN f)
    BY <1>1, FS_AddElement, HoldingCount DEF Counted
  <1>3. Holding(g, t) = IF t \in value.terms THEN (old \ {id}) \cup {id} ELSE old \ {id}
    BY <1>1 DEF Holding
  <1>4. IsFiniteSet(old) /\ Cardinality(old) \in Nat
    BY HoldingCount
  <1> HIDE DEF old, g
  <1>5. /\ IsFiniteSet(old \ {id})
        /\ Cardinality(old \ {id}) = Cardinality(old) - Counted(id, old)
    BY <1>4, FS_RemoveElement DEF Counted
  <1>6. Cardinality((old \ {id}) \cup {id}) = Cardinality(old \ {id}) + 1
    <2>1. id \notin old \ {id}
      OBVIOUS
    <2>2. QED
      BY <1>5, <2>1, FS_AddElement
  <1>7. Cardinality(Holding(g, t)) =
          Cardinality(old) + Counted(t, value.terms) - Counted(id, old)
    <2>1. Counted(id, old) \in {0, 1}
      BY DEF Counted
    <2>2. CASE t \in value.terms
      BY <2>1, <2>2, <1>3, <1>4, <1>5, <1>6 DEF Counted
    <2>3. CASE t \notin value.terms
      BY <2>1, <2>3, <1>3, <1>4, <1>5 DEF Counted
    <2>4. QED
      BY <2>2, <2>3
  <1>8. QED
    BY <1>1, <1>2, <1>7 DEF old, g

\* Removing an id takes it out of the chunks that hold a term.
LEMMA WithoutCount ==
  ASSUME NEW f, IsFiniteSet(DOMAIN f), NEW id \in DOMAIN f, NEW t
  PROVE  /\ DOMAIN Without(f, id) = DOMAIN f \ {id}
         /\ IsFiniteSet(DOMAIN Without(f, id))
         /\ Cardinality(DOMAIN Without(f, id)) = Cardinality(DOMAIN f) - 1
         /\ Cardinality(Holding(Without(f, id), t)) =
              Cardinality(Holding(f, t)) - Counted(t, f[id].terms)
  <1> DEFINE g == Without(f, id)
             old == Holding(f, t)
  <1>1. /\ DOMAIN g = DOMAIN f \ {id}
        /\ \A x \in DOMAIN g : g[x] = f[x]
    BY DEF Without
  <1>2. IsFiniteSet(DOMAIN g) /\ Cardinality(DOMAIN g) = Cardinality(DOMAIN f) - 1
    BY <1>1, FS_RemoveElement
  <1>3. Holding(g, t) = old \ {id} /\ (id \in old <=> t \in f[id].terms)
    BY <1>1 DEF Holding
  <1>4. IsFiniteSet(old) /\ Cardinality(old) \in Nat
    BY HoldingCount
  <1> HIDE DEF old, g
  <1>5. Cardinality(old \ {id}) = IF id \in old THEN Cardinality(old) - 1
                                  ELSE Cardinality(old)
    BY <1>4, FS_RemoveElement
  <1>6. Cardinality(old \ {id}) = Cardinality(old) - Counted(t, f[id].terms)
    BY <1>3, <1>4, <1>5 DEF Counted
  <1>7. QED
    BY <1>1, <1>2, <1>3, <1>6 DEF old, g

\* A promotion is to a tier.
LEMMA NewTierType ==
  ASSUME NEW tier \in MemoryTiers, NEW hits
  PROVE  NewTier(tier, hits) \in MemoryTiers
  BY Zenon DEF NewTier, MemoryTiers

-----------------------------------------------------------------------------
(* The operations *)

\* Every answer to a query is a set of stored chunks.
LEMMA RankedAreStored ==
  ASSUME IndexInv, NEW terms, NEW top_k, NEW answer \in Ranked(terms, top_k)
  PROVE  answer \subseteq Stored
  BY DEF IndexInv, Ranked

\* What the properties say of the counters while the set of stored chunks and
\* their texts stay.
LEMMA IndexKept ==
  ASSUME IndexInv, Stored' = Stored,
         \A id \in Stored : chunks'[id].terms = chunks[id].terms,
         \A id \in Stored : chunks'[id] \in
           [terms: SUBSET Terms, tier: MemoryTiers, hits: 0 .. MaxHits],
         UNCHANGED <<term_vectors, doc_count, doc_freq, restores>>
  PROVE  IndexInv'
  <1>1. \A t \in Terms : WithTerm(t)' = WithTerm(t)
    BY DEF WithTerm
  <1>2. FrequenciesAhead'
    BY <1>1 DEF IndexInv, FrequenciesAhead
  <1>3. MemoryTypeOK'
    BY DEF IndexInv, MemoryTypeOK
  <1>4. QED
    BY <1>2, <1>3 DEF IndexInv

\* A store indexes the text once more; the tiers it enforces move no text.
LEMMA StoreKeepsIndex ==
  ASSUME IndexInv, NEW id \in ChunkIds, NEW terms \in SUBSET Terms,
         NEW tier \in MemoryTiers, NEW hits \in {0, MaxHits},
         StoreMemory(id, terms, tier, hits)
  PROVE  IndexInv'
  <1> DEFINE chunk == [terms |-> terms, tier |-> tier, hits |-> hits]
             added == With(chunks, id, chunk)
  <1>1. PICK out \in Evictions(added) :
          chunks' = [x \in DOMAIN added |->
                       IF x \in out THEN [added[x] EXCEPT !.tier = "Archival"]
                       ELSE added[x]]
    BY DEF StoreMemory
  <1>2. /\ term_vectors' = With(term_vectors, id, terms)
        /\ doc_count' = doc_count + 1
        /\ doc_freq' = [t \in Terms |-> doc_freq[t] + Counted(t, terms)]
        /\ restores' = restores + Counted(id, Stored)
    BY DEF StoreMemory, Weight, Counted
  <1>3. \A x \in DOMAIN added : added[x] = IF x = id THEN chunk ELSE chunks[x]
    BY DEF With
  <1>0. ASSUME NEW t
        PROVE  /\ IsFiniteSet(DOMAIN added)
               /\ Cardinality(DOMAIN added) =
                    Cardinality(DOMAIN chunks) + 1 - Counted(id, DOMAIN chunks)
               /\ Cardinality(Holding(added, t)) =
                    Cardinality(Holding(chunks, t)) + Counted(t, chunk.terms)
                      - Counted(id, Holding(chunks, t))
    <2>1. IsFiniteSet(DOMAIN chunks)
      BY DEF IndexInv, Stored
    <2> HIDE DEF chunk
    <2>2. QED
      BY <2>1, WithCount
  <1>4. /\ DOMAIN added = Stored \cup {id}
        /\ IsFiniteSet(DOMAIN added)
        /\ Cardinality(DOMAIN added) = Cardinality(Stored) + 1 - Counted(id, Stored)
    BY <1>0 DEF Stored, With
  <1>5. ASSUME NEW t \in Terms
        PROVE  Cardinality(Holding(added, t)) =
                 WithTerm(t) + Counted(t, terms) - Counted(id, Holding(chunks, t))
    BY <1>0, WithTermCount
  <1>6. \A x \in DOMAIN added : added[x] \in
          [terms: SUBSET Terms, tier: MemoryTiers, hits: 0 .. MaxHits]
    <2>1. chunk \in [terms: SUBSET Terms, tier: MemoryTiers, hits: 0 .. MaxHits]
      BY MemoryAssumption
    <2>2. QED
      BY <1>3, <1>4, <2>1 DEF IndexInv, MemoryTypeOK
  <1> HIDE DEF added
  <1>7. /\ Stored' = DOMAIN added
        /\ \A x \in Stored' : chunks'[x].terms = added[x].terms
        /\ \A x \in Stored' : chunks'[x] \in
             [terms: SUBSET Terms, tier: MemoryTiers, hits: 0 .. MaxHits]
    BY <1>1, <1>6 DEF Stored, MemoryTiers
  <1>8. \A t \in Terms : WithTerm(t)' = Cardinality(Holding(added, t))
    BY <1>7 DEF WithTerm, Holding
  <1>9. \A t \in Terms : WithTerm(t) \in Nat
    BY HoldingCount DEF IndexInv, Stored, WithTerm, Holding
  <1>10. MemoryTypeOK'
    <2>1. doc_freq' \in [Terms -> Nat] /\ doc_count' \in Nat
      BY <1>2 DEF IndexInv, MemoryTypeOK, Counted
    <2>2. Stored' \subseteq ChunkIds
      BY <1>4, <1>7 DEF IndexInv, MemoryTypeOK
    <2>3. QED
      BY <1>7, <2>1, <2>2 DEF MemoryTypeOK
  <1>11. /\ DOMAIN term_vectors' = Stored'
         /\ \A x \in Stored' : term_vectors'[x] = chunks'[x].terms
    <2>1. DOMAIN term_vectors' = Stored'
      BY <1>2, <1>4, <1>7 DEF IndexInv, With
    <2>2. ASSUME NEW x \in Stored'
          PROVE  term_vectors'[x] = added[x].terms
      <3>1. term_vectors'[x] = IF x = id THEN terms ELSE term_vectors[x]
        BY <1>2, <2>1 DEF With
      <3>2. added[x] = IF x = id THEN chunk ELSE chunks[x]
        BY <1>3, <1>7
      <3>3. x # id => x \in Stored
        BY <1>4, <1>7
      <3>4. QED
        BY <3>1, <3>2, <3>3 DEF IndexInv
    <2>3. QED
      BY <1>7, <2>1, <2>2
  <1>12. restores' \in Nat /\ doc_count' = Cardinality(Stored') + restores'
    <2>1. Cardinality(Stored) \in Nat
      BY FS_CardinalityType DEF IndexInv
    <2>2. Counted(id, Stored) \in {0, 1}
      BY DEF Counted
    <2>3. QED
      BY <1>2, <1>4, <1>7, <2>1, <2>2 DEF IndexInv
  <1>13. ASSUME NEW t \in Terms
         PROVE  doc_freq'[t] \in WithTerm(t)' .. WithTerm(t)' + restores'
    <2>1. doc_freq'[t] = doc_freq[t] + Counted(t, terms)
      BY <1>2
    <2>2. doc_freq[t] \in WithTerm(t) .. WithTerm(t) + restores
      BY DEF IndexInv, FrequenciesAhead
    <2>3. WithTerm(t)' =
            WithTerm(t) + Counted(t, terms) - Counted(id, Holding(chunks, t))
      BY <1>5, <1>8
    <2>4. /\ Counted(t, terms) \in {0, 1}
          /\ Counted(id, Holding(chunks, t)) \in {0, 1}
          /\ Counted(id, Stored) \in {0, 1}
          /\ Counted(id, Holding(chunks, t)) <= Counted(id, Stored)
      BY DEF Counted, Holding, Stored
    <2>5. WithTerm(t) \in Nat /\ doc_freq[t] \in Nat /\ restores \in Nat
      BY <1>9 DEF IndexInv, MemoryTypeOK
    <2> DEFINE w == Counted(t, terms)
               h == Counted(id, Holding(chunks, t))
               s == Counted(id, Stored)
    <2> HIDE DEF w, h, s
    <2>6. /\ doc_freq'[t] = doc_freq[t] + w
          /\ WithTerm(t)' = WithTerm(t) + w - h
          /\ restores' = restores + s
          /\ w \in {0, 1} /\ h \in {0, 1} /\ s \in {0, 1} /\ h <= s
      BY <1>2, <2>1, <2>3, <2>4 DEF w, h, s
    <2>7. QED
      BY <2>2, <2>5, <2>6
  <1>14. IsFiniteSet(Stored')
    BY <1>4, <1>7
  <1>15. QED
    BY <1>10, <1>11, <1>12, <1>13, <1>14 DEF IndexInv, FrequenciesAhead

\* A query touches hits and tiers only.
LEMMA QueryKeepsIndex ==
  ASSUME IndexInv, NEW terms \in SUBSET Terms, NEW top_k \in TopKs,
         QueryMemory(terms, top_k)
  PROVE  IndexInv'
  <1>1. PICK answer \in Ranked(terms, top_k) :
          /\ \A id \in answer : chunks[id].hits < MaxHits
          /\ chunks' = [id \in Stored |->
                          IF id \in answer THEN Accessed(chunks[id]) ELSE chunks[id]]
    BY DEF QueryMemory
  <1>2. ASSUME NEW id \in Stored
        PROVE  /\ chunks'[id].terms = chunks[id].terms
               /\ chunks'[id] \in
                    [terms: SUBSET Terms, tier: MemoryTiers, hits: 0 .. MaxHits]
    <2>1. chunks[id] \in [terms: SUBSET Terms, tier: MemoryTiers, hits: 0 .. MaxHits]
      BY DEF IndexInv, MemoryTypeOK
    <2>2. CASE id \in answer
      <3>1. chunks'[id] = Accessed(chunks[id])
        BY <1>1, <2>2
      <3>2. NewTier(chunks[id].tier, chunks[id].hits + 1) \in MemoryTiers
        BY <2>1, NewTierType
      <3>3. chunks[id].hits + 1 \in 0 .. MaxHits
        BY <1>1, <2>1, <2>2, MemoryAssumption
      <3>4. QED
        BY <2>1, <3>1, <3>2, <3>3 DEF Accessed
    <2>3. CASE id \notin answer
      BY <1>1, <2>1, <2>3
    <2>4. QED
      BY <2>2, <2>3
  <1>3. Stored' = Stored
    BY <1>1 DEF Stored
  <1>4. QED
    BY <1>2, <1>3, IndexKept DEF QueryMemory

\* A removal takes a text out of the index as often as it can.
LEMMA ForgetKeepsIndex ==
  ASSUME IndexInv, NEW id \in ChunkIds, ForgetMemory(id)
  PROVE  IndexInv'
  <1>1. /\ id \in Stored
        /\ doc_freq' = FrequenciesWithout(id)
        /\ term_vectors' = Without(term_vectors, id)
        /\ doc_count' = IF doc_count > 0 THEN doc_count - 1 ELSE 0
        /\ chunks' = Without(chunks, id)
        /\ restores' = restores
    BY DEF ForgetMemory, IndexInv
  <1>0. ASSUME NEW t
        PROVE  /\ DOMAIN chunks' = DOMAIN chunks \ {id}
               /\ IsFiniteSet(DOMAIN chunks')
               /\ Cardinality(DOMAIN chunks') = Cardinality(DOMAIN chunks) - 1
               /\ Cardinality(Holding(chunks', t)) =
                    Cardinality(Holding(chunks, t)) - Counted(t, chunks[id].terms)
    <2>1. IsFiniteSet(DOMAIN chunks) /\ id \in DOMAIN chunks
      BY <1>1 DEF IndexInv, Stored
    <2>2. QED
      BY <1>1, <2>1, WithoutCount
  <1>2. /\ Stored' = Stored \ {id}
        /\ IsFiniteSet(Stored')
        /\ Cardinality(Stored') = Cardinality(Stored) - 1
        /\ \A t \in Terms : WithTerm(t)' = WithTerm(t) - Counted(t, chunks[id].terms)
    <2>1. \A t \in Terms : WithTerm(t)' = Cardinality(Holding(chunks', t))
      BY DEF WithTerm, Holding, Stored
    <2>2. QED
      BY <1>0, <2>1, WithTermCount DEF Stored
  <1>3. Cardinality(Stored) \in Nat /\ Cardinality(Stored') \in Nat
    BY <1>2, FS_CardinalityType DEF IndexInv
  <1>4. \A x \in Stored' : chunks'[x] = chunks[x] /\ term_vectors'[x] = term_vectors[x]
    BY <1>1, <1>2 DEF Without, IndexInv, Stored
  <1>5. DOMAIN term_vectors' = Stored'
    BY <1>1, <1>2 DEF Without, IndexInv
  <1>6. doc_count' = Cardinality(Stored') + restores'
    BY <1>1, <1>2, <1>3 DEF IndexInv
  <1>7. ASSUME NEW t \in Terms
        PROVE  doc_freq'[t] \in WithTerm(t)' .. WithTerm(t)' + restores'
    <2>1. term_vectors[id] = chunks[id].terms
      BY <1>1 DEF IndexInv
    <2>2. doc_freq'[t] = IF t \in chunks[id].terms /\ doc_freq[t] > 0
                         THEN doc_freq[t] - 1 ELSE doc_freq[t]
      BY <1>1, <2>1 DEF FrequenciesWithout
    <2>3. WithTerm(t)' = WithTerm(t) - Counted(t, chunks[id].terms)
      BY <1>2
    <2>4. doc_freq[t] \in WithTerm(t) .. WithTerm(t) + restores
      BY DEF IndexInv, FrequenciesAhead
    <2>5. /\ WithTerm(t) \in Nat /\ WithTerm(t)' \in Nat
          /\ doc_freq[t] \in Nat /\ restores \in Nat
      BY <1>2, HoldingCount DEF IndexInv, MemoryTypeOK, Stored, WithTerm, Holding
    <2>6. QED
      BY <1>1, <2>2, <2>3, <2>4, <2>5 DEF Counted
  <1>8. MemoryTypeOK'
    <2>1. doc_freq' \in [Terms -> Nat] /\ doc_count' \in Nat
      BY <1>1 DEF IndexInv, MemoryTypeOK, FrequenciesWithout
    <2>2. QED
      BY <1>2, <1>4, <2>1 DEF IndexInv, MemoryTypeOK
  <1>9. QED
    BY <1>1, <1>2, <1>4, <1>5, <1>6, <1>7, <1>8 DEF IndexInv, FrequenciesAhead

LEMMA IndexInvNext == IndexInv /\ [MemoryNext]_memory_vars => IndexInv'
  <1> SUFFICES ASSUME IndexInv, [MemoryNext]_memory_vars PROVE IndexInv'
    OBVIOUS
  <1>1. ASSUME UNCHANGED <<chunks, term_vectors, doc_count, doc_freq, restores>>
        PROVE  IndexInv'
    <2>1. Stored' = Stored
      BY <1>1 DEF Stored
    <2>2. QED
      BY <1>1, <2>1, IndexKept DEF IndexInv, MemoryTypeOK
  <1>2. ASSUME NEW new \in Thresholds, SetTierThresholds(new)
        PROVE  IndexInv'
    BY <1>1, <1>2 DEF SetTierThresholds
  <1>3. CASE UNCHANGED memory_vars
    BY <1>1, <1>3 DEF memory_vars
  <1>4. QED
    BY <1>2, <1>3, StoreKeepsIndex, QueryKeepsIndex, ForgetKeepsIndex DEF MemoryNext

-----------------------------------------------------------------------------
(* The limits of the tiers *)

\* Dropping chunks from a tier, or moving some out of it, makes it no fuller.
LEMMA SmallerTier ==
  ASSUME NEW f, IsFiniteSet(DOMAIN f), NEW g, NEW tier,
         InTier(g, tier) \subseteq InTier(f, tier)
  PROVE  Cardinality(InTier(g, tier)) <= Cardinality(InTier(f, tier))
  <1>1. IsFiniteSet(InTier(f, tier))
    BY InTierCount
  <1>2. InTier(g, tier) \in SUBSET InTier(f, tier)
    OBVIOUS
  <1> DEFINE S == InTier(f, tier)
             T == InTier(g, tier)
  <1> HIDE DEF S, T
  <1>3. IsFiniteSet(S) /\ T \in SUBSET S
    BY <1>1, <1>2 DEF S, T
  <1>4. Cardinality(T) <= Cardinality(S)
    BY <1>3, FS_Subset
  <1>5. QED
    BY <1>4 DEF S, T

\* A store leaves every tier within its limit.
LEMMA StoreKeepsTiers ==
  ASSUME IndexInv, TiersInv, NEW id \in ChunkIds, NEW terms \in SUBSET Terms,
         NEW tier \in MemoryTiers, NEW hits \in {0, MaxHits},
         StoreMemory(id, terms, tier, hits)
  PROVE  TiersInv'
  <1> DEFINE chunk == [terms |-> terms, tier |-> tier, hits |-> hits]
             added == With(chunks, id, chunk)
  <1>1. PICK out \in Evictions(added) :
          chunks' = [x \in DOMAIN added |->
                       IF x \in out THEN [added[x] EXCEPT !.tier = "Archival"]
                       ELSE added[x]]
    BY DEF StoreMemory
  <1>2. /\ enforced' = thresholds.max
        /\ promoted' = [t \in LimitedTiers |-> 0]
        /\ thresholds' = thresholds
    BY DEF StoreMemory
  <1>3. IsFiniteSet(DOMAIN added)
    BY FS_AddElement DEF With, IndexInv, Stored
  <1>4. \A x \in DOMAIN added : added[x] \in
          [terms: SUBSET Terms, tier: MemoryTiers, hits: 0 .. MaxHits]
    <2>1. chunk \in [terms: SUBSET Terms, tier: MemoryTiers, hits: 0 .. MaxHits]
      BY MemoryAssumption
    <2>2. QED
      BY <2>1 DEF With, IndexInv, MemoryTypeOK, Stored
  <1> HIDE DEF added
  <1>5. ASSUME NEW full \in LimitedTiers
        PROVE  Cardinality(InTier(chunks', full)) <= thresholds.max[full]
    <2> DEFINE S == InTier(added, full)
               T == out \cap S
               D == S \ out
    <2>1. InTier(chunks', full) = D
      BY <1>1, <1>4 DEF InTier, LimitedTiers
    <2>2. IsFiniteSet(S) /\ Cardinality(S) \in Nat
      BY <1>3, InTierCount
    <2>3. Cardinality(T) = IF Cardinality(S) - thresholds.max[full] > 0
                           THEN Cardinality(S) - thresholds.max[full] ELSE 0
      BY DEF Evictions
    <2>4. thresholds.max[full] \in Nat
      BY DEF TiersInv, TierThresholds
    <2> HIDE DEF S
    <2>5. S \cap out = T
      OBVIOUS
    <2>6. Cardinality(D) = Cardinality(S) - Cardinality(S \cap out)
      BY <2>2, FS_Difference
    <2>7. Cardinality(D) = Cardinality(S) - Cardinality(T)
      BY <2>5, <2>6, Zenon
    <2> HIDE DEF T, D
    <2>8. QED
      BY <2>1, <2>2, <2>3, <2>4, <2>7
  <1>6. TiersBounded'
    BY <1>2, <1>5 DEF TiersBounded, TiersInv, TierThresholds
  <1>7. QED
    BY <1>2, <1>6 DEF TiersInv, TierThresholds

\* A query adds to a tier those it promotes into it.
LEMMA QueryKeepsTiers ==
  ASSUME IndexInv, TiersInv, NEW terms \in SUBSET Terms, NEW top_k \in TopKs,
         QueryMemory(terms, top_k)
  PROVE  TiersInv'
  <1> DEFINE MovedInto(answer, tier) ==
               {id \in answer : /\ chunks[id].tier # tier
                                /\ NewTier(chunks[id].tier, chunks[id].hits + 1) = tier}
  <1>1. PICK answer \in Ranked(terms, top_k) :
          /\ chunks' = [id \in Stored |->
                          IF id \in answer THEN Accessed(chunks[id]) ELSE chunks[id]]
          /\ promoted' = [tier \in LimitedTiers |->
                            promoted[tier] + Cardinality(MovedInto(answer, tier))]
    BY DEF QueryMemory
  <1>2. answer \subseteq Stored
    BY RankedAreStored
  <1>3. thresholds' = thresholds /\ enforced' = enforced
    BY DEF QueryMemory
  <1>4. ASSUME NEW tier \in LimitedTiers
        PROVE  /\ IsFiniteSet(MovedInto(answer, tier))
               /\ Cardinality(MovedInto(answer, tier)) \in Nat
    <2>1. MovedInto(answer, tier) \in SUBSET Stored
      BY <1>2
    <2> DEFINE M == MovedInto(answer, tier)
    <2>2. M \in SUBSET Stored
      BY <2>1
    <2> HIDE DEF M
    <2>3. IsFiniteSet(M)
      BY <2>2, FS_Subset DEF IndexInv
    <2>4. Cardinality(M) \in Nat
      BY <2>3, FS_CardinalityType
    <2>5. QED
      BY <2>3, <2>4 DEF M
  <1>5. ASSUME NEW tier \in LimitedTiers
        PROVE  Cardinality(InTier(chunks', tier)) <=
                 Cardinality(InTier(chunks, tier)) + Cardinality(MovedInto(answer, tier))
    <2> DEFINE S == InTier(chunks, tier)
               M == MovedInto(answer, tier)
               T == InTier(chunks', tier)
    <2>1. T \subseteq S \cup M
      <3> SUFFICES ASSUME NEW id \in T, id \notin S PROVE id \in M
        OBVIOUS
      <3>1. id \in Stored /\ chunks'[id].tier = tier /\ chunks[id].tier # tier
        BY <1>1 DEF InTier, Stored
      <3>2. id \in answer
        BY <1>1, <3>1
      <3>3. chunks'[id] = Accessed(chunks[id])
        BY <1>1, <3>1, <3>2
      <3>4. chunks'[id].tier = NewTier(chunks[id].tier, chunks[id].hits + 1)
        <4>1. chunks[id] \in
                [terms: SUBSET Terms, tier: MemoryTiers, hits: 0 .. MaxHits]
          BY <3>1 DEF IndexInv, MemoryTypeOK
        <4>2. QED
          BY <3>3, <4>1 DEF Accessed
      <3>5. QED
        BY <3>1, <3>2, <3>4
    <2>2. IsFiniteSet(S) /\ Cardinality(S) \in Nat
      BY InTierCount DEF IndexInv, Stored
    <2>3. IsFiniteSet(M) /\ Cardinality(M) \in Nat
      BY <1>4
    <2> HIDE DEF S, M, T
    <2>4. /\ IsFiniteSet(S \cup M)
          /\ Cardinality(S \cup M) = Cardinality(S) + Cardinality(M) - Cardinality(S \cap M)
      BY <2>2, <2>3, FS_Union
    <2>5. IsFiniteSet(S \cap M)
      BY <2>2, FS_Intersection
    <2>6. Cardinality(S \cap M) \in Nat
      BY <2>5, FS_CardinalityType
    <2>7. Cardinality(T) <= Cardinality(S \cup M) /\ Cardinality(T) \in Nat
      <3>1. T \in SUBSET (S \cup M)
        BY <2>1 DEF S, M, T
      <3>2. QED
        BY <2>4, <3>1, FS_Subset, FS_CardinalityType
    <2>8. Cardinality(T) <= Cardinality(S) + Cardinality(M)
      BY <2>2, <2>3, <2>4, <2>6, <2>7
    <2>9. QED
      BY <2>8 DEF S, M, T
  <1> HIDE DEF MovedInto
  <1>6. promoted' \in [LimitedTiers -> Nat]
    BY <1>1, <1>4 DEF TiersInv
  <1>7. ASSUME NEW tier \in LimitedTiers
        PROVE  Cardinality(InTier(chunks', tier)) <= enforced'[tier] + promoted'[tier]
    <2>1. promoted'[tier] = promoted[tier] + Cardinality(MovedInto(answer, tier))
      BY <1>1
    <2>2. Cardinality(InTier(chunks, tier)) <= enforced[tier] + promoted[tier]
      BY DEF TiersInv, TiersBounded
    <2>3. /\ Cardinality(InTier(chunks, tier)) \in Nat
          /\ Cardinality(InTier(chunks', tier)) \in Nat
      <3>1. IsFiniteSet(DOMAIN chunks) /\ IsFiniteSet(DOMAIN chunks')
        BY <1>1 DEF IndexInv, Stored
      <3>2. QED
        BY <3>1, InTierCount
    <2>4. enforced[tier] \in Nat /\ promoted[tier] \in Nat
      BY DEF TiersInv
    <2>5. QED
      BY <1>3, <1>4, <1>5, <2>1, <2>2, <2>3, <2>4
  <1>8. QED
    BY <1>3, <1>6, <1>7 DEF TiersInv, TiersBounded

LEMMA TiersInvNext == IndexInv /\ TiersInv /\ [MemoryNext]_memory_vars => TiersInv'
  <1> SUFFICES ASSUME IndexInv, TiersInv, [MemoryNext]_memory_vars PROVE TiersInv'
    OBVIOUS
  <1>1. ASSUME NEW id \in ChunkIds, ForgetMemory(id)
        PROVE  TiersInv'
    <2>1. \A tier \in LimitedTiers : InTier(chunks', tier) \subseteq InTier(chunks, tier)
      BY <1>1 DEF ForgetMemory, Without, InTier
    <2>2. IsFiniteSet(DOMAIN chunks) /\ IsFiniteSet(DOMAIN chunks')
      BY <1>1, FS_RemoveElement DEF ForgetMemory, Without, IndexInv, Stored
    <2>3. UNCHANGED <<thresholds, enforced, promoted>>
      BY <1>1 DEF ForgetMemory
    <2>4. ASSUME NEW tier \in LimitedTiers
          PROVE  Cardinality(InTier(chunks', tier)) <= enforced'[tier] + promoted'[tier]
      <3>1. Cardinality(InTier(chunks', tier)) <= Cardinality(InTier(chunks, tier))
        BY <2>1, <2>2, SmallerTier
      <3>2. Cardinality(InTier(chunks, tier)) <= enforced[tier] + promoted[tier]
        BY DEF TiersInv, TiersBounded
      <3>3. /\ Cardinality(InTier(chunks, tier)) \in Nat
            /\ Cardinality(InTier(chunks', tier)) \in Nat
        BY <2>2, InTierCount
      <3>4. enforced[tier] \in Nat /\ promoted[tier] \in Nat
        BY DEF TiersInv
      <3>5. QED
        BY <2>3, <3>1, <3>2, <3>3, <3>4
    <2>5. QED
      BY <2>3, <2>4 DEF TiersInv, TiersBounded
  <1>2. ASSUME NEW new \in Thresholds, SetTierThresholds(new)
        PROVE  TiersInv'
    BY <1>2, MemoryAssumption DEF SetTierThresholds, TiersInv, TiersBounded
  <1>3. CASE UNCHANGED memory_vars
    BY <1>3 DEF memory_vars, TiersInv, TiersBounded
  <1>4. QED
    BY <1>1, <1>2, <1>3, StoreKeepsTiers, QueryKeepsTiers DEF MemoryNext

-----------------------------------------------------------------------------

LEMMA MInvInit == MemoryInit => MInv
  <1> SUFFICES ASSUME MemoryInit PROVE MInv
    OBVIOUS
  <1>1. Stored = {} /\ DOMAIN term_vectors = {}
    BY DEF MemoryInit, Stored
  <1>2. IsFiniteSet({}) /\ Cardinality({}) = 0
    BY FS_EmptySet
  <1>3. \A t \in Terms : WithTerm(t) = 0
    <2>1. ASSUME NEW t \in Terms
          PROVE  {id \in Stored : t \in chunks[id].terms} = {}
      BY <1>1
    <2>2. QED
      BY <1>2, <2>1 DEF WithTerm
  <1>4. \A tier \in LimitedTiers : Cardinality(InTier(chunks, tier)) = 0
    <2>1. ASSUME NEW tier \in LimitedTiers
          PROVE  InTier(chunks, tier) = {}
      BY <1>1 DEF InTier, Stored
    <2>2. QED
      BY <1>2, <2>1
  <1>5. IndexInv
    BY <1>1, <1>2, <1>3
    DEF MemoryInit, IndexInv, MemoryTypeOK, FrequenciesAhead
  <1>6. TiersInv
    BY <1>4, MemoryAssumption DEF MemoryInit, TiersInv, TiersBounded, TierThresholds
  <1>7. QED
    BY <1>5, <1>6 DEF MInv

LEMMA MInvNext == MInv /\ [MemoryNext]_memory_vars => MInv'
  BY IndexInvNext, TiersInvNext DEF MInv

\* The index and the tiers hold together, whatever is stored, queried,
\* forgotten or configured.
THEOREM MemoryInvariant == MemorySpec => []MInv
  BY MInvInit, MInvNext, PTL DEF MemorySpec

\* The index holds exactly the stored chunks and their texts, and its counts
\* are off by no more than the chunks stored over others account for, through
\* any stores, queries and removals.
THEOREM IndexStaysExact == MemorySpec => []IndexExact
  <1>1. ASSUME IndexInv
        PROVE  IndexExact
    <2>1. ASSUME NEW t \in Terms
          PROVE  /\ doc_freq[t] \in WithTerm(t) .. doc_count
                 /\ restores = 0 => doc_freq[t] = WithTerm(t)
      <3>1. /\ WithTerm(t) \in Nat /\ WithTerm(t) <= Cardinality(Stored)
            /\ Cardinality(Stored) \in Nat
        BY <1>1, HoldingCount, WithTermCount DEF IndexInv, Stored
      <3>2. /\ doc_freq[t] \in WithTerm(t) .. WithTerm(t) + restores
            /\ doc_count = Cardinality(Stored) + restores /\ restores \in Nat
        BY <1>1 DEF IndexInv, FrequenciesAhead
      <3>3. QED
        BY <3>1, <3>2
    <2>2. QED
      BY <1>1, <2>1 DEF IndexInv, IndexExact
  <1>2. MInv => IndexExact
    BY <1>1 DEF MInv
  <1>3. QED
    BY <1>2, MemoryInvariant, PTL

\* A tier exceeds the limit of the last store by no more than what queries
\* have promoted into it since, whatever limits are set in between.
THEOREM TiersStayBounded == MemorySpec => []TiersBounded
  <1>1. MInv => TiersBounded
    BY DEF MInv, TiersInv
  <1>2. QED
    BY <1>1, MemoryInvariant, PTL

=============================================================================
