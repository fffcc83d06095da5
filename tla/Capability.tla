----------------------------- MODULE Capability -----------------------------
(***************************************************************************)
(* Capability certificates and the tools they gate: the capability         *)
(* handlers of KernelService, Capability and CapabilityScope, the enforced *)
(* tool execution of injection_defense.rs and the tool statistics of an    *)
(* AgentProcess.                                                           *)
(*                                                                         *)
(* Every handler runs under the kernel's write lock and is one step here.  *)
(* A call that is refused changes nothing unless the code counts it, and   *)
(* is a step only in that case. No certificate the kernel issues expires   *)
(* (expires_at is None in each of the three places), so is_valid is TRUE   *)
(* throughout; constraints are stored and never looked at, and left out.   *)
(*                                                                         *)
(* A resource pattern is the sequence of its segments. The name of a       *)
(* segment is one character long, which is what TextLength counts.         *)
(***************************************************************************)
EXTENDS Integers, Sequences, FiniteSets

CONSTANTS
  Agents,           \* agent ids
  CapTypes,         \* the kinds of capability in use
  Scopes,           \* resource patterns that occur in calls
  Resources,        \* concrete resources named by tool parameters
  Tools,            \* tools registered, of the three the library has
  PermissionSets,   \* the sets of permission flags that occur in calls
  InitialLists,     \* lists of capabilities an agent may be created with
  Suspicions,       \* detections per category in the parameters of a call
  NoParent,         \* a certificate that is not a delegation
  NoTask,           \* the execution loop works on no task
  MaxEvents,        \* bound: certificates issued and tools executed
  MaxCalls          \* bound: tool calls collected, and reported, of an agent

VARIABLES
  created,      \* keys of KernelState.agents
  initial,      \* AgentProcess.capabilities: the initial capabilities
  issued,       \* every certificate issued, in order; its place is its id
  live,         \* ids of the certificates in KernelState.certificates
  turn,         \* the loop's task: its agent and accumulated_tool_calls
  stats,        \* tool counters of each AgentProcess
  audit,        \* audit entries written for each agent, by outcome
  reported,     \* history: tool calls added by record_task_completion
  ran,          \* history: requirements of the tools executed
  events        \* certificates issued and tools executed, for the bound

vars == <<created, initial, issued, live, turn, stats, audit, reported, ran,
          events>>

Permissions == {"READ", "EXECUTE", "DELEGATE"}
Wildcards == {"*", "**"}
Outcomes == {"Success", "BlockedByCapability", "BlockedByInjection", "Failed"}

Capabilities ==
  [cap_type: CapTypes, scope: Scopes, permissions: SUBSET Permissions]

\* Clients send flags the type has, and create agents with lists of
\* capabilities.
ASSUME CapabilityAssumption ==
  /\ PermissionSets \subseteq SUBSET Permissions
  /\ InitialLists \subseteq Seq(Capabilities)

Certs == 1 .. Len(issued)

-----------------------------------------------------------------------------
(* Scopes *)

Final(p) == p[Len(p)]
Front(p) == SubSeq(p, 1, Len(p) - 1)

\* The text of r starts with the segments s and a separator.
Under(r, s) == Len(r) > Len(s) /\ SubSeq(r, 1, Len(s)) = s

\* A pattern is matched against the text of a resource, which may itself
\* hold wildcards: grant_capability asks for the text of a pattern.
ScopeMatches(pattern, resource) ==
  \/ Final(pattern) = "**" /\ Under(resource, Front(pattern))
  \/ /\ Final(pattern) = "*"
     /\ Under(resource, Front(pattern))
     /\ Len(resource) = Len(pattern)
  \/ Final(pattern) \notin Wildcards /\ resource = pattern

TextLength(p) == 2 * Len(p) - 1 + (IF Final(p) = "**" THEN 1 ELSE 0)
Stem(p) == IF Final(p) \in Wildcards THEN Front(p) ELSE p

\* Only a pattern longer than the old one is compared with it.
ScopeExpands(old, new) ==
  /\ TextLength(new) > TextLength(old)
  /\ ~(Len(new) >= Len(Stem(old)) /\ SubSeq(new, 1, Len(Stem(old))) = Stem(old))

-----------------------------------------------------------------------------
(* Certificates *)

Satisfies(cap, req) ==
  /\ cap.cap_type = req.cap_type
  /\ ScopeMatches(cap.scope, req.scope)
  /\ req.min_permissions \subseteq cap.permissions

Listed(list) == {list[i] : i \in 1 .. Len(list)}
HeldIds(a) == {c \in live : issued[c].agent_id = a}

\* merged_certificate: the initial capabilities and everything granted.
Merged(a) == Listed(initial[a]) \cup {issued[c].capability : c \in HeldIds(a)}
HasCapability(caps, req) == \E cap \in caps : Satisfies(cap, req)

Delegatable(cap, req) == Satisfies(cap, req) /\ "DELEGATE" \in cap.permissions

\* find_capability takes the first of the list.
FirstDelegatable(list, req) ==
  {list[i] : i \in {j \in 1 .. Len(list) :
     /\ Delegatable(list[j], req)
     /\ \A k \in 1 .. j - 1 : ~Delegatable(list[k], req)}}

\* Granted certificates come first, in the order of a HashMap; the initial
\* certificate, whose id is written as its holder's, is the fallback.
Sources(a, req) ==
  LET granted == {c \in HeldIds(a) : Delegatable(issued[c].capability, req)}
  IN  IF granted # {}
      THEN {[parent |-> c, capability |-> issued[c].capability] : c \in granted}
      ELSE {[parent |-> a, capability |-> cap] :
              cap \in FirstDelegatable(initial[a], req)}

Issue(to, from, cap, parent) ==
  /\ events' = events + 1
  /\ issued' = Append(issued, [agent_id |-> to, issued_by |-> from,
                               capability |-> cap, parent_cert_id |-> parent])
  /\ live' = live \cup {Len(issued) + 1}
  /\ UNCHANGED <<created, initial, turn, stats, audit, reported, ran>>
-----------------------------------------------------------------------------
(* Handlers *)

Init ==
  /\ created = {}
  /\ initial = [a \in Agents |-> <<>>]
  /\ issued = <<>>
  /\ live = {}
  /\ turn = NoTask
  /\ stats = [a \in Agents |-> [calls |-> 0, failures |-> 0, violations |-> 0]]
  /\ audit = [a \in Agents |-> [o \in Outcomes |-> 0]]
  /\ reported = [a \in Agents |-> 0]
  /\ ran = {}
  /\ events = 0

CreateAgent(a, list) ==
  /\ a \notin created
  /\ created' = created \cup {a}
  /\ initial' = [initial EXCEPT ![a] = list]
  /\ UNCHANGED <<issued, live, turn, stats, audit, reported, ran,
                 events>>

\* Mutant: granting does not take a delegatable capability.
GrantRequirement_NoDelegate(cap) ==
  [cap_type |-> cap.cap_type, scope |-> cap.scope,
   min_permissions |-> cap.permissions]

GrantRequirement(cap) ==
  [cap_type |-> cap.cap_type, scope |-> cap.scope,
   min_permissions |-> cap.permissions \cup {"DELEGATE"}]

\* SYSTEM is exempt from holding what it grants, and is never among the
\* agents, so that no call gets as far as the exemption.
GrantCapability(from, to, cap) ==
  /\ events < MaxEvents
  /\ {from, to} \subseteq created
  /\ HasCapability(Merged(from), GrantRequirement(cap))
  /\ Issue(to, from, cap, NoParent)

\* A client may name no scope or no permissions: the source's scope and the
\* requirement's minimum stand in.
DelegateCapability(from, to, req, new_scope, new_permissions) ==
  /\ events < MaxEvents
  /\ {from, to} \subseteq created
  /\ \E source \in Sources(from, req) :
       LET held == source.capability
           scope == IF new_scope = <<>> THEN held.scope ELSE new_scope
       IN  /\ ~ScopeExpands(held.scope, scope)
           /\ Issue(to, from,
                    [cap_type |-> held.cap_type, scope |-> scope,
                     permissions |-> new_permissions \cap held.permissions],
                    source.parent)

\* Anyone may revoke any certificate; those delegated from it stay.
RevokeCapability(c) ==
  /\ c \in live
  /\ live' = live \ {c}
  /\ UNCHANGED <<created, initial, issued, turn, stats, audit, reported, ran,
                 events>>

-----------------------------------------------------------------------------
(* Tools *)

\* required_capability_for: ShellCmd asks for its static scope.
RequiredFor(tool, resource) ==
  CASE tool = "FileRead" -> [cap_type |-> "FileRead", scope |-> resource,
                             min_permissions |-> {"READ"}]
    [] tool = "HttpGet"  -> [cap_type |-> "NetworkHttp", scope |-> resource,
                             min_permissions |-> {"READ"}]
    [] tool = "ShellCmd" -> [cap_type |-> "ProcessExecute", scope |-> <<"*">>,
                             min_permissions |-> {"EXECUTE"}]

\* What execute may answer: each tool checks its parameters and its sandbox.
FileReadResults ==
  {"Success", "InvalidParams", "ExecutionError", "AccessDenied",
   "ResourceLimitExceeded"}
HttpGetResults ==
  {"Success", "InvalidParams", "AccessDenied", "ExecutionError", "Timeout"}
ShellCmdResults ==
  {"Success", "InvalidParams", "AccessDenied", "ExecutionError", "Timeout"}
Results(tool) == CASE tool = "FileRead" -> FileReadResults
                   [] tool = "HttpGet"  -> HttpGetResults
                   [] tool = "ShellCmd" -> ShellCmdResults

\* Penalties in hundredths; the categories of a scan's detections.
Penalty == [severe |-> 30, override |-> 20, delimiter |-> 15, other |-> 10]

Recommendation(found) ==
  LET penalty == found.severe * Penalty.severe
                 + found.override * Penalty.override
                 + found.delimiter * Penalty.delimiter
                 + found.other * Penalty.other
      score == IF penalty > 100 THEN 0 ELSE 100 - penalty
  IN  CASE found.severe > 0 -> "Quarantine"
        [] found.severe = 0 /\ score < 50 -> "Block"
        [] found.severe = 0 /\ score >= 50 /\ score < 90 -> "Sanitize"
        [] OTHER -> "Allow"

\* execute_tool_with_enforcement: what the call comes to. A tool that is not
\* reached answers nothing.
Enforced(a, req, found, result) ==
  CASE ~HasCapability(Merged(a), req) -> "BlockedByCapability"
    [] HasCapability(Merged(a), req)
       /\ Recommendation(found) \in {"Quarantine", "Block"} -> "BlockedByInjection"
    [] OTHER -> IF result = "Success" THEN "Success" ELSE "Failed"

\* Both blocks are reported as AccessDenied, and so is a refusal by the sandbox.
IsViolation(outcome, result) ==
  \/ outcome \in {"BlockedByCapability", "BlockedByInjection"}
  \/ outcome = "Failed" /\ result = "AccessDenied"

One(b) == IF b THEN 1 ELSE 0

\* Mutant: the call is counted when it succeeds.
Counted_OnSuccess(s, outcome, result) ==
  [calls |-> s.calls + One(outcome = "Success"),
   failures |-> s.failures + One(outcome # "Success"),
   violations |-> s.violations + One(IsViolation(outcome, result))]

Counted(s, outcome, result) ==
  [calls |-> s.calls + 1,
   failures |-> s.failures + One(outcome # "Success"),
   violations |-> s.violations + One(IsViolation(outcome, result))]

\* KernelService::execute_tool, past the lookups of the tool and the agent.
Execute(a, tool, resource, found, result) ==
  LET req == RequiredFor(tool, resource)
      outcome == Enforced(a, req, found, result)
  IN  /\ events < MaxEvents
      /\ events' = events + 1
      /\ stats' = [stats EXCEPT ![a] = Counted(stats[a], outcome, result)]
      /\ audit' = [audit EXCEPT ![a][outcome] = audit[a][outcome] + 1]
      /\ ran' = IF outcome \in {"Success", "Failed"}
                THEN ran \cup {req} ELSE ran

\* A call from outside the loop.
ExecuteTool(a, tool, resource, found, result) ==
  /\ a \in created
  /\ Execute(a, tool, resource, found, result)
  /\ UNCHANGED <<created, initial, issued, live, turn, reported>>

\* The loop takes a task of the agent and collects its tool calls.
StartTurn(a) ==
  /\ turn = NoTask
  /\ a \in created
  /\ turn' = [agent |-> a, calls |-> 0]
  /\ UNCHANGED <<created, initial, issued, live, stats, audit, reported, ran,
                 events>>

TurnTool(tool, resource, found, result) ==
  /\ turn # NoTask
  /\ turn' = [turn EXCEPT !.calls = @ + 1]
  /\ Execute(turn.agent, tool, resource, found, result)
  /\ UNCHANGED <<created, initial, issued, live, reported>>

\* The model names a tool that is not registered: collected, not executed.
TurnUnknownTool ==
  /\ turn # NoTask
  /\ turn.calls < MaxCalls
  /\ turn' = [turn EXCEPT !.calls = @ + 1]
  /\ UNCHANGED <<created, initial, issued, live, stats, audit, reported, ran,
                 events>>

\* record_task_completion adds the collected calls to those counted already.
CompleteTurn ==
  /\ turn # NoTask
  /\ reported[turn.agent] + turn.calls <= MaxCalls
  /\ stats' = [stats EXCEPT ![turn.agent].calls = @ + turn.calls]
  /\ reported' = [reported EXCEPT ![turn.agent] = @ + turn.calls]
  /\ turn' = NoTask
  /\ UNCHANGED <<created, initial, issued, live, audit, ran, events>>

\* A failed task adds nothing.
FailTurn ==
  /\ turn # NoTask
  /\ turn' = NoTask
  /\ UNCHANGED <<created, initial, issued, live, stats, audit, reported, ran,
                 events>>

-----------------------------------------------------------------------------

Requirements ==
  [cap_type: CapTypes, scope: Scopes, min_permissions: PermissionSets]

Next ==
  \/ \E a \in Agents, list \in InitialLists : CreateAgent(a, list)
  \/ \E from, to \in Agents, type \in CapTypes, scope \in Scopes,
        permissions \in PermissionSets :
       GrantCapability(from, to, [cap_type |-> type, scope |-> scope,
                                  permissions |-> permissions])
  \/ \E from, to \in Agents, req \in Requirements,
        new_scope \in Scopes \cup {<<>>}, new_permissions \in PermissionSets :
       DelegateCapability(from, to, req, new_scope, new_permissions)
  \/ \E c \in 1 .. MaxEvents : RevokeCapability(c)
  \/ \E a \in Agents, tool \in Tools, resource \in Resources, found \in Suspicions :
       \E result \in Results(tool) : ExecuteTool(a, tool, resource, found, result)
  \/ \E a \in Agents : StartTurn(a)
  \/ \E tool \in Tools, resource \in Resources, found \in Suspicions :
       \E result \in Results(tool) : TurnTool(tool, resource, found, result)
  \/ TurnUnknownTool
  \/ CompleteTurn
  \/ FailTurn

Spec == Init /\ [][Next]_vars

-----------------------------------------------------------------------------
(* Properties *)

TypeOK ==
  /\ created \subseteq Agents
  /\ \A a \in Agents : Listed(initial[a]) \subseteq Capabilities
  /\ live \subseteq Certs
  /\ \A c \in Certs : /\ issued[c].capability \in Capabilities
                       /\ {issued[c].agent_id, issued[c].issued_by} \subseteq created
  /\ turn = NoTask \/ turn \in [agent: created, calls: Nat]

InitialCapabilities == UNION {Listed(initial[a]) : a \in Agents}

\* Some agent was created with authority of this type and these flags.
RootedAt(type, flags) ==
  \E i \in InitialCapabilities : i.cap_type = type /\ flags \subseteq i.permissions

\* The parent of a delegation is the initial certificate of the agent that
\* delegated, or an earlier certificate that agent held.
ParentOf(c) ==
  \/ issued[c].parent_cert_id \in {NoParent, issued[c].issued_by}
  \/ /\ issued[c].parent_cert_id \in 1 .. c - 1
     /\ issued[issued[c].parent_cert_id].agent_id = issued[c].issued_by

\* No sequence of grants, delegations and revocations conjures authority: the
\* flags of every certificate, and of every requirement a tool was run with,
\* are among those of one capability some agent was created with, and that
\* capability could be delegated if anything was passed on; a delegation
\* names a certificate its issuer held.
Provenance ==
  /\ TypeOK
  /\ \A c \in Certs :
       /\ RootedAt(issued[c].capability.cap_type,
                   issued[c].capability.permissions \cup {"DELEGATE"})
       /\ ParentOf(c)
  /\ \A r \in ran : RootedAt(r.cap_type, r.min_permissions)

Blocked(a) ==
  audit[a]["BlockedByCapability"] + audit[a]["BlockedByInjection"]

\* The counters of an agent can be explained from the audit log: a call is
\* counted once when it is executed and once more when its task completes, a
\* failure is an entry that is no success, and every block is a violation,
\* with the refusals of a tool's own sandbox between them and the failures.
CountersExplained ==
  \A a \in Agents :
    /\ stats[a].calls = stats[a].failures + audit[a]["Success"] + reported[a]
    /\ stats[a].failures = Blocked(a) + audit[a]["Failed"]
    /\ stats[a].violations \in Blocked(a) .. stats[a].failures

=============================================================================
