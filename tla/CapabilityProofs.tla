-------------------------- MODULE CapabilityProofs --------------------------
(***************************************************************************)
(* Theorems about Capability: that authority comes from creation only, for *)
(* any agents, capability types, patterns and lists, and any number of     *)
(* grants, delegations, revocations and tool calls.                        *)
(***************************************************************************)
EXTENDS Capability, TLAPS

Certificates ==
  [agent_id: Agents, issued_by: Agents, capability: Capabilities,
   parent_cert_id: Agents \cup Nat \cup {NoParent}]

\* Provenance speaks of the initial lists of all agents, and an agent gets
\* its list once: before its creation the list is empty.
IInv ==
  /\ Provenance
  /\ issued \in Seq(Certificates)
  /\ initial \in [Agents -> Seq(Capabilities)]
  /\ \A a \in Agents \ created : initial[a] = <<>>

-----------------------------------------------------------------------------
(* Lemmas about one state *)

\* A capability of the merged view has its flags from an initial one.
LEMMA MergedIsRooted ==
  ASSUME IInv, NEW a \in Agents, NEW cap \in Merged(a)
  PROVE  RootedAt(cap.cap_type, cap.permissions)
  <1>1. CASE cap \in Listed(initial[a])
    <2>1. cap \in InitialCapabilities
      BY <1>1 DEF InitialCapabilities
    <2>2. QED
      BY <2>1 DEF RootedAt
  <1>2. CASE \E c \in HeldIds(a) : cap = issued[c].capability
    <2>1. PICK c \in Certs : cap = issued[c].capability
      BY <1>2 DEF HeldIds, IInv, Provenance, TypeOK
    <2>2. RootedAt(cap.cap_type, cap.permissions \cup {"DELEGATE"})
      BY <2>1 DEF IInv, Provenance
    <2>3. QED
      BY <2>2 DEF RootedAt
  <1>3. QED
    BY <1>1, <1>2 DEF Merged

\* Fewer flags have the same root.
LEMMA RootedBelow ==
  ASSUME NEW type, NEW flags, NEW fewer \in SUBSET flags, RootedAt(type, flags)
  PROVE  RootedAt(type, fewer)
  BY DEF RootedAt

\* What a check lets through is rooted.
LEMMA CheckedIsRooted ==
  ASSUME IInv, NEW a \in Agents, NEW req, HasCapability(Merged(a), req)
  PROVE  RootedAt(req.cap_type, req.min_permissions)
  <1>1. PICK cap \in Merged(a) : Satisfies(cap, req)
    BY DEF HasCapability
  <1>2. RootedAt(cap.cap_type, cap.permissions)
    BY <1>1, MergedIsRooted
  <1>3. QED
    BY <1>1, <1>2, RootedBelow DEF Satisfies

\* The source of a delegation is rooted, may be passed on, and is known.
LEMMA SourceIsRooted ==
  ASSUME IInv, NEW a \in Agents, NEW req, NEW source \in Sources(a, req)
  PROVE  /\ source.capability \in Capabilities
         /\ "DELEGATE" \in source.capability.permissions
         /\ RootedAt(source.capability.cap_type, source.capability.permissions)
         /\ \/ source.parent = a
            \/ source.parent \in Certs /\ issued[source.parent].agent_id = a
  <1> DEFINE granted == {c \in HeldIds(a) : Delegatable(issued[c].capability, req)}
  <1>1. CASE granted # {}
    <2>1. PICK c \in granted : source = [parent |-> c,
                                         capability |-> issued[c].capability]
      BY <1>1 DEF Sources
    <2>2. c \in Certs /\ c \in HeldIds(a) /\ issued[c].agent_id = a
      BY <2>1 DEF HeldIds, IInv, Provenance, TypeOK
    <2>3. issued[c].capability \in Merged(a)
      BY <2>2 DEF Merged
    <2>4. issued[c].capability \in Capabilities
      BY <2>2 DEF IInv, Provenance, TypeOK
    <2>5. "DELEGATE" \in issued[c].capability.permissions
      BY <2>1 DEF Delegatable
    <2>6. RootedAt(issued[c].capability.cap_type, issued[c].capability.permissions)
      BY <2>3, MergedIsRooted
    <2>7. QED
      BY <2>1, <2>2, <2>4, <2>5, <2>6
  <1>2. CASE granted = {}
    <2>1. PICK cap \in FirstDelegatable(initial[a], req) :
            source = [parent |-> a, capability |-> cap]
      BY <1>2 DEF Sources
    <2>2. cap \in Listed(initial[a]) /\ Delegatable(cap, req)
      BY <2>1 DEF FirstDelegatable, Listed
    <2>3. cap \in Merged(a) /\ cap \in Capabilities
      BY <2>2 DEF Merged, IInv, Provenance, TypeOK
    <2>4. RootedAt(cap.cap_type, cap.permissions)
      BY <2>3, MergedIsRooted
    <2>5. QED
      BY <2>1, <2>2, <2>3, <2>4 DEF Delegatable
  <1>3. QED
    BY <1>1, <1>2

-----------------------------------------------------------------------------
(* Lemmas about one step *)

\* Roots are kept when the initial lists are.
LEMMA RootsKept ==
  ASSUME UNCHANGED initial, NEW type, NEW flags, RootedAt(type, flags)
  PROVE  RootedAt(type, flags)'
  BY DEF RootedAt, InitialCapabilities, Listed

\* Issuing a rooted certificate with a known parent keeps the invariant.
LEMMA IssueKeeps ==
  ASSUME IInv, NEW to \in created, NEW from \in created,
         NEW cap \in Capabilities, NEW parent,
         RootedAt(cap.cap_type, cap.permissions \cup {"DELEGATE"}),
         \/ parent \in {NoParent, from}
         \/ parent \in Certs /\ issued[parent].agent_id = from,
         Issue(to, from, cap, parent)
  PROVE  IInv'
  <1> DEFINE cert == [agent_id |-> to, issued_by |-> from, capability |-> cap,
                      parent_cert_id |-> parent]
             n == Len(issued)
  <1>1. to \in Agents /\ from \in Agents
    BY DEF IInv, Provenance, TypeOK
  <1>2. n \in Nat /\ issued \in Seq(Certificates) /\ Certs = 1 .. n
    BY DEF IInv, Certs
  <1>3. cert \in Certificates
    BY <1>1, <1>2 DEF Certificates
  <1>4. /\ issued' \in Seq(Certificates)
        /\ Certs' = 1 .. n + 1
        /\ issued'[n + 1] = cert
        /\ \A c \in Certs : issued'[c] = issued[c]
    BY <1>2, <1>3 DEF Issue, Certs
  <1>5. UNCHANGED <<created, initial, turn, ran>> /\ live' = live \cup {n + 1}
    BY DEF Issue
  <1>6. Certs' = Certs \cup {n + 1}
    BY <1>2, <1>4
  <1>7. TypeOK'
    <2>1. live' \subseteq Certs'
      BY <1>5, <1>6 DEF IInv, Provenance, TypeOK
    <2>2. ASSUME NEW c \in Certs'
          PROVE  /\ issued'[c].capability \in Capabilities
                 /\ {issued'[c].agent_id, issued'[c].issued_by} \subseteq created
      <3>1. CASE c \in Certs
        BY <3>1, <1>4 DEF IInv, Provenance, TypeOK
      <3>2. CASE c = n + 1
        BY <3>2, <1>4
      <3>3. QED
        BY <3>1, <3>2, <1>6
    <2>3. QED
      BY <1>5, <2>1, <2>2 DEF TypeOK, IInv, Provenance, Listed
  <1>8. ASSUME NEW c \in Certs'
        PROVE  RootedAt(issued[c].capability.cap_type,
                        issued[c].capability.permissions \cup {"DELEGATE"})'
               /\ ParentOf(c)'
    <2>1. CASE c \in Certs
      <3>1. RootedAt(issued[c].capability.cap_type,
                     issued[c].capability.permissions \cup {"DELEGATE"})
            /\ ParentOf(c)
        BY <2>1 DEF IInv, Provenance
      <3>2. issued'[c] = issued[c]
        BY <2>1, <1>4
      <3>3. RootedAt(issued[c].capability.cap_type,
                     issued[c].capability.permissions \cup {"DELEGATE"})'
        BY <3>1, <3>2, <1>5 DEF RootedAt, InitialCapabilities, Listed
      <3>4. ASSUME issued[c].parent_cert_id \in 1 .. c - 1
            PROVE  issued'[issued[c].parent_cert_id]
                     = issued[issued[c].parent_cert_id]
        <4>1. c \in 1 .. n
          BY <2>1, <1>2, Zenon
        <4> DEFINE p == issued[c].parent_cert_id
        <4> HIDE DEF n, p
        <4>2. p \in 1 .. c - 1
          BY <3>4, Zenon DEF p
        <4>3. p \in 1 .. n
          BY <1>2, <4>1, <4>2
        <4>4. p \in Certs
          BY <1>2, <4>3, Zenon
        <4>5. QED
          BY <1>4, <4>4, Zenon DEF p
      <3>5. ParentOf(c)'
        BY <3>1, <3>2, <3>4 DEF ParentOf
      <3>6. QED
        BY <3>3, <3>5
    <2>2. CASE c = n + 1
      <3>1. issued'[c] = cert
        BY <2>2, <1>4
      <3>2. RootedAt(issued[c].capability.cap_type,
                     issued[c].capability.permissions \cup {"DELEGATE"})'
        BY <3>1, <1>5 DEF RootedAt, InitialCapabilities, Listed
      <3>3. ASSUME parent \in Certs, issued[parent].agent_id = from
            PROVE  parent \in 1 .. c - 1 /\ issued'[parent].agent_id = from
        BY <3>3, <2>2, <1>2, <1>4
      <3>4. ParentOf(c)'
        BY <3>1, <3>3 DEF ParentOf
      <3>5. QED
        BY <3>2, <3>4
    <2>3. QED
      BY <2>1, <2>2, <1>6
  <1>9. \A r \in ran' : RootedAt(r.cap_type, r.min_permissions)'
    BY <1>5 DEF IInv, Provenance, RootedAt, InitialCapabilities, Listed
  <1>10. QED
    BY <1>4, <1>5, <1>7, <1>8, <1>9 DEF IInv, Provenance

\* A step that issues nothing and runs only what is rooted keeps the invariant.
LEMMA FrameKeeps ==
  ASSUME IInv, UNCHANGED <<created, initial, issued>>, live' \subseteq live,
         turn' = NoTask \/ turn' \in [agent: created, calls: Nat],
         \A r \in ran' : RootedAt(r.cap_type, r.min_permissions)
  PROVE  IInv'
  <1>1. Certs' = Certs
    BY DEF Certs
  <1>2. TypeOK'
    BY <1>1 DEF IInv, Provenance, TypeOK, Listed
  <1>3. \A c \in Certs :
          RootedAt(issued[c].capability.cap_type,
                   issued[c].capability.permissions \cup {"DELEGATE"})'
    <2>1. InitialCapabilities' = InitialCapabilities
      BY DEF InitialCapabilities
    <2>2. QED
      BY <2>1 DEF IInv, Provenance, RootedAt
  <1>4. \A c \in Certs : ParentOf(c)'
    BY DEF IInv, Provenance, ParentOf
  <1>5. \A r \in ran' : RootedAt(r.cap_type, r.min_permissions)'
    BY RootsKept
  <1>6. QED
    BY <1>1, <1>2, <1>3, <1>4, <1>5 DEF IInv, Provenance

\* A tool that is run was allowed.
LEMMA ExecuteKeeps ==
  ASSUME IInv, NEW a \in created, NEW tool, NEW resource, NEW found, NEW result,
         Execute(a, tool, resource, found, result),
         UNCHANGED <<created, initial, issued, live>>,
         turn' = NoTask \/ turn' \in [agent: created, calls: Nat]
  PROVE  IInv'
  <1> DEFINE req == RequiredFor(tool, resource)
  <1>1. a \in Agents
    BY DEF IInv, Provenance, TypeOK
  <1>2. ran' = ran \/ (ran' = ran \cup {req} /\ HasCapability(Merged(a), req))
    <2> DEFINE outcome == Enforced(a, req, found, result)
    <2>1. ~HasCapability(Merged(a), req) => outcome = "BlockedByCapability"
      BY Zenon DEF Enforced
    <2>2. QED
      BY <2>1 DEF Execute
  <1>3. \A r \in ran' : RootedAt(r.cap_type, r.min_permissions)
    BY <1>1, <1>2, CheckedIsRooted DEF IInv, Provenance
  <1>4. QED
    BY <1>3, FrameKeeps

-----------------------------------------------------------------------------

LEMMA IInvInit == Init => IInv
  <1> SUFFICES ASSUME Init PROVE IInv
    OBVIOUS
  <1>1. issued = <<>> /\ Certs = {}
    BY DEF Init, Certs
  <1>2. initial \in [Agents -> Seq(Capabilities)] /\ issued \in Seq(Certificates)
    BY <1>1 DEF Init
  <1>3. \A a \in Agents : Listed(initial[a]) = {}
    BY DEF Init, Listed
  <1>4. TypeOK
    BY <1>1, <1>3 DEF Init, TypeOK
  <1>5. QED
    BY <1>1, <1>2, <1>4 DEF Init, IInv, Provenance

LEMMA IInvNext == IInv /\ [Next]_vars => IInv'
  <1> SUFFICES ASSUME IInv, [Next]_vars PROVE IInv'
    OBVIOUS
  <1>1. ASSUME NEW a \in Agents, NEW list \in InitialLists, CreateAgent(a, list)
        PROVE  IInv'
    <2>1. /\ initial' \in [Agents -> Seq(Capabilities)]
          /\ initial[a] = <<>> /\ initial'[a] = list /\ list \in Seq(Capabilities)
          /\ \A b \in Agents \ {a} : initial'[b] = initial[b]
          /\ created' = created \cup {a}
          /\ UNCHANGED <<issued, live, turn, ran>>
      BY <1>1, CapabilityAssumption DEF CreateAgent, IInv
    <2>2. \A b \in Agents : Listed(initial[b]) \subseteq Listed(initial'[b])
      BY <2>1 DEF Listed
    <2>3. InitialCapabilities \subseteq InitialCapabilities'
      BY <2>2 DEF InitialCapabilities
    <2>4. \A type, flags : RootedAt(type, flags) => RootedAt(type, flags)'
      BY <2>3 DEF RootedAt
    <2>5. \A b \in Agents : Listed(initial'[b]) \subseteq Capabilities
      BY <2>1 DEF Listed
    <2>6. TypeOK'
      BY <2>1, <2>5 DEF IInv, Provenance, TypeOK, Certs, Listed
    <2>7. QED
      BY <2>1, <2>4, <2>6 DEF IInv, Provenance, Certs, ParentOf
  <1>2. ASSUME NEW from \in Agents, NEW to \in Agents, NEW type \in CapTypes,
               NEW scope \in Scopes, NEW permissions \in PermissionSets,
               GrantCapability(from, to, [cap_type |-> type, scope |-> scope,
                                          permissions |-> permissions])
        PROVE  IInv'
    <2> DEFINE cap == [cap_type |-> type, scope |-> scope,
                       permissions |-> permissions]
    <2>1. cap \in Capabilities
      BY CapabilityAssumption DEF Capabilities
    <2>2. RootedAt(cap.cap_type, cap.permissions \cup {"DELEGATE"})
      BY <1>2, CheckedIsRooted DEF GrantCapability, GrantRequirement
    <2>3. QED
      BY <1>2, <2>1, <2>2, IssueKeeps DEF GrantCapability
  <1>3. ASSUME NEW from \in Agents, NEW to \in Agents, NEW req \in Requirements,
               NEW new_scope \in Scopes \cup {<<>>},
               NEW new_permissions \in PermissionSets,
               DelegateCapability(from, to, req, new_scope, new_permissions)
        PROVE  IInv'
    <2>1. PICK source \in Sources(from, req) :
            Issue(to, from,
                  [cap_type |-> source.capability.cap_type,
                   scope |-> IF new_scope = <<>> THEN source.capability.scope
                             ELSE new_scope,
                   permissions |->
                     new_permissions \cap source.capability.permissions],
                  source.parent)
      BY <1>3 DEF DelegateCapability
    <2> DEFINE held == source.capability
               cap == [cap_type |-> held.cap_type,
                       scope |-> IF new_scope = <<>> THEN held.scope ELSE new_scope,
                       permissions |-> new_permissions \cap held.permissions]
    <2>2. /\ held \in Capabilities
          /\ "DELEGATE" \in held.permissions
          /\ RootedAt(held.cap_type, held.permissions)
          /\ \/ source.parent = from
             \/ source.parent \in Certs /\ issued[source.parent].agent_id = from
      BY <2>1, SourceIsRooted
    <2>3. cap \in Capabilities
      BY <2>2 DEF Capabilities
    <2>4. RootedAt(cap.cap_type, cap.permissions \cup {"DELEGATE"})
      BY <2>2, RootedBelow
    <2>5. from \in created /\ to \in created
      BY <1>3 DEF DelegateCapability
    <2>6. QED
      BY <2>1, <2>2, <2>3, <2>4, <2>5, IssueKeeps
  <1>4. ASSUME NEW c \in 1 .. MaxEvents, RevokeCapability(c)
        PROVE  IInv'
    <2>1. turn' = NoTask \/ turn' \in [agent: created, calls: Nat]
      BY <1>4 DEF RevokeCapability, IInv, Provenance, TypeOK
    <2>2. QED
      BY <1>4, <2>1, FrameKeeps DEF IInv, Provenance, RevokeCapability
  <1>5. ASSUME NEW a \in Agents, NEW tool \in Tools, NEW resource \in Resources,
               NEW found \in Suspicions, NEW result \in Results(tool),
               ExecuteTool(a, tool, resource, found, result)
        PROVE  IInv'
    <2>1. turn' = NoTask \/ turn' \in [agent: created, calls: Nat]
      BY <1>5 DEF ExecuteTool, IInv, Provenance, TypeOK
    <2>2. QED
      BY <1>5, <2>1, ExecuteKeeps DEF ExecuteTool
  <1>6. ASSUME NEW a \in Agents, StartTurn(a)
        PROVE  IInv'
    <2>1. turn' = NoTask \/ turn' \in [agent: created, calls: Nat]
      BY <1>6 DEF StartTurn, IInv, Provenance, TypeOK
    <2>2. QED
      BY <1>6, <2>1, FrameKeeps DEF IInv, Provenance, StartTurn
  <1>7. ASSUME NEW tool \in Tools, NEW resource \in Resources,
               NEW found \in Suspicions, NEW result \in Results(tool),
               TurnTool(tool, resource, found, result)
        PROVE  IInv'
    <2>1. turn \in [agent: created, calls: Nat]
      BY <1>7 DEF TurnTool, IInv, Provenance, TypeOK
    <2>2. turn' \in [agent: created, calls: Nat] /\ turn.agent \in created
      BY <1>7, <2>1 DEF TurnTool
    <2>3. QED
      BY <1>7, <2>2, ExecuteKeeps DEF TurnTool
  <1>8. CASE TurnUnknownTool
    <2>1. turn' = NoTask \/ turn' \in [agent: created, calls: Nat]
      BY <1>8 DEF TurnUnknownTool, IInv, Provenance, TypeOK
    <2>2. QED
      BY <1>8, <2>1, FrameKeeps DEF IInv, Provenance, TurnUnknownTool
  <1>9. CASE CompleteTurn
    <2>1. turn' = NoTask \/ turn' \in [agent: created, calls: Nat]
      BY <1>9 DEF CompleteTurn, IInv, Provenance, TypeOK
    <2>2. QED
      BY <1>9, <2>1, FrameKeeps DEF IInv, Provenance, CompleteTurn
  <1>10. CASE FailTurn
    <2>1. turn' = NoTask \/ turn' \in [agent: created, calls: Nat]
      BY <1>10 DEF FailTurn, IInv, Provenance, TypeOK
    <2>2. QED
      BY <1>10, <2>1, FrameKeeps DEF IInv, Provenance, FailTurn
  <1>11. CASE UNCHANGED vars
    <2>1. turn' = NoTask \/ turn' \in [agent: created, calls: Nat]
      BY <1>11 DEF vars, IInv, Provenance, TypeOK
    <2>2. QED
      BY <1>11, <2>1, FrameKeeps DEF IInv, Provenance, vars
  <1>12. QED
    BY <1>1, <1>2, <1>3, <1>4, <1>5, <1>6, <1>7, <1>8, <1>9, <1>10, <1>11 DEF Next

\* No sequence of grants, delegations, revocations and tool calls conjures
\* authority: every certificate and every tool that was run goes back to a
\* capability that some agent was created with.
THEOREM AuthorityHasARoot == Spec => []Provenance
  <1>1. IInv => Provenance
    BY DEF IInv
  <1>2. QED
    BY IInvInit, IInvNext, <1>1, PTL DEF Spec

-----------------------------------------------------------------------------
(* The counters of an agent. *)

CounterTypes ==
  /\ stats \in [Agents -> [calls: Nat, failures: Nat, violations: Nat]]
  /\ audit \in [Agents -> [Outcomes -> Nat]]
  /\ reported \in [Agents -> Nat]

CInv == CounterTypes /\ CountersExplained

\* What CountersExplained says of one agent.
Explained(a) ==
  /\ stats[a].calls = stats[a].failures + audit[a]["Success"] + reported[a]
  /\ stats[a].failures = Blocked(a) + audit[a]["Failed"]
  /\ stats[a].violations \in Blocked(a) .. stats[a].failures

\* Every call has one of the four outcomes.
LEMMA EnforcedOutcome ==
  ASSUME NEW a, NEW req, NEW found, NEW result
  PROVE  Enforced(a, req, found, result) \in Outcomes
  BY Zenon DEF Enforced, Outcomes

\* A success is no violation, a block is one, and a failure may be.
LEMMA Violations ==
  ASSUME NEW outcome \in Outcomes, NEW result
  PROVE  /\ One(IsViolation(outcome, result)) \in {0, 1}
         /\ outcome = "Success" => One(IsViolation(outcome, result)) = 0
         /\ outcome \in {"BlockedByCapability", "BlockedByInjection"} =>
              One(IsViolation(outcome, result)) = 1
  BY DEF One, IsViolation

\* A call that is executed is counted, and audited under its outcome.
LEMMA ExecuteCounts ==
  ASSUME CInv, NEW a \in Agents, NEW tool, NEW resource, NEW found, NEW result,
         Execute(a, tool, resource, found, result), UNCHANGED reported
  PROVE  CInv'
  <1> DEFINE outcome == Enforced(a, RequiredFor(tool, resource), found, result)
             violation == One(IsViolation(outcome, result))
             success == One(outcome # "Success")
  <1>1. outcome \in Outcomes
    BY EnforcedOutcome
  <1>2. /\ violation \in {0, 1}
        /\ outcome = "Success" => violation = 0
        /\ outcome \in {"BlockedByCapability", "BlockedByInjection"} => violation = 1
    BY <1>1, Violations
  <1>3. success = IF outcome = "Success" THEN 0 ELSE 1
    BY DEF One
  <1>4. /\ stats' = [stats EXCEPT ![a] = [calls |-> stats[a].calls + 1,
                                         failures |-> stats[a].failures + success,
                                         violations |-> stats[a].violations + violation]]
        /\ audit' = [audit EXCEPT ![a][outcome] = audit[a][outcome] + 1]
    BY DEF Execute, Counted
  <1> HIDE DEF outcome, violation, success
  <1>5. CounterTypes'
    BY <1>1, <1>2, <1>3, <1>4 DEF CInv, CounterTypes
  <1>6. ASSUME NEW b \in Agents, b # a
        PROVE  Explained(b)'
    <2>1. stats'[b] = stats[b] /\ audit'[b] = audit[b]
      BY <1>4, <1>6 DEF CInv, CounterTypes
    <2>2. Explained(b)
      BY DEF CInv, CountersExplained, Explained
    <2>3. QED
      BY <2>1, <2>2 DEF Explained, Blocked
  <1>7. Explained(a)'
    <2>1. Explained(a)
      BY DEF CInv, CountersExplained, Explained
    <2>2. /\ stats'[a].calls = stats[a].calls + 1
          /\ stats'[a].failures = stats[a].failures + success
          /\ stats'[a].violations = stats[a].violations + violation
          /\ \A o \in Outcomes : audit'[a][o] = IF o = outcome THEN audit[a][o] + 1
                                               ELSE audit[a][o]
      BY <1>1, <1>4 DEF CInv, CounterTypes
    <2>3. /\ stats[a].calls \in Nat /\ stats[a].failures \in Nat
          /\ stats[a].violations \in Nat /\ reported[a] \in Nat
          /\ \A o \in Outcomes : audit[a][o] \in Nat
      BY DEF CInv, CounterTypes
    <2>4. CASE outcome = "Success"
      BY <2>1, <2>2, <2>3, <2>4, <1>2, <1>3 DEF Explained, Blocked, Outcomes
    <2>5. CASE outcome = "BlockedByCapability"
      BY <2>1, <2>2, <2>3, <2>5, <1>2, <1>3 DEF Explained, Blocked, Outcomes
    <2>6. CASE outcome = "BlockedByInjection"
      BY <2>1, <2>2, <2>3, <2>6, <1>2, <1>3 DEF Explained, Blocked, Outcomes
    <2>7. CASE outcome = "Failed"
      BY <2>1, <2>2, <2>3, <2>7, <1>2, <1>3 DEF Explained, Blocked, Outcomes
    <2>8. QED
      BY <1>1, <2>4, <2>5, <2>6, <2>7 DEF Outcomes
  <1>8. QED
    BY <1>5, <1>6, <1>7 DEF CInv, CountersExplained, Explained

\* A step that touches no counter.
LEMMA CountersUntouched ==
  ASSUME CInv, UNCHANGED <<stats, audit, reported>>
  PROVE  CInv'
  BY DEF CInv, CounterTypes, CountersExplained, Blocked

LEMMA CInvInit == Init => CInv
  BY DEF Init, CInv, CounterTypes, CountersExplained, Blocked, Outcomes

LEMMA CInvNext == IInv /\ CInv /\ [Next]_vars => CInv'
  <1> SUFFICES ASSUME IInv, CInv, [Next]_vars PROVE CInv'
    OBVIOUS
  <1>1. turn = NoTask \/ (turn.agent \in Agents /\ turn.calls \in Nat)
    BY DEF IInv, Provenance, TypeOK
  <1>2. ASSUME NEW a \in Agents, NEW tool \in Tools, NEW resource \in Resources,
               NEW found \in Suspicions, NEW result \in Results(tool),
               ExecuteTool(a, tool, resource, found, result)
        PROVE  CInv'
    BY <1>2, ExecuteCounts DEF ExecuteTool
  <1>3. ASSUME NEW tool \in Tools, NEW resource \in Resources,
               NEW found \in Suspicions, NEW result \in Results(tool),
               TurnTool(tool, resource, found, result)
        PROVE  CInv'
    BY <1>1, <1>3, ExecuteCounts DEF TurnTool
  <1>4. CASE CompleteTurn
    <2> DEFINE a == turn.agent
               n == turn.calls
    <2>1. a \in Agents /\ n \in Nat
      BY <1>1, <1>4 DEF CompleteTurn
    <2>2. /\ stats' = [stats EXCEPT ![a].calls = @ + n]
          /\ reported' = [reported EXCEPT ![a] = @ + n]
          /\ audit' = audit
      BY <1>4 DEF CompleteTurn
    <2> HIDE DEF a, n
    <2>3. CounterTypes'
      BY <2>1, <2>2 DEF CInv, CounterTypes
    <2>4. ASSUME NEW b \in Agents
          PROVE  Explained(b)'
      <3>1. /\ stats'[b].calls = IF b = a THEN stats[b].calls + n ELSE stats[b].calls
            /\ reported'[b] = IF b = a THEN reported[b] + n ELSE reported[b]
            /\ stats'[b].failures = stats[b].failures
            /\ stats'[b].violations = stats[b].violations
        BY <2>1, <2>2 DEF CInv, CounterTypes
      <3>2. Explained(b)
        BY DEF CInv, CountersExplained, Explained
      <3>3. /\ stats[b].calls \in Nat /\ stats[b].failures \in Nat
            /\ reported[b] \in Nat /\ audit[b]["Success"] \in Nat
        BY DEF CInv, CounterTypes, Outcomes
      <3>4. Blocked(b)' = Blocked(b)
        BY <2>2 DEF Blocked
      <3>5. QED
        BY <2>1, <2>2, <3>1, <3>2, <3>3, <3>4 DEF Explained
    <2>5. QED
      BY <2>3, <2>4 DEF CInv, CountersExplained, Explained
  <1>5. ASSUME UNCHANGED <<stats, audit, reported>>
        PROVE  CInv'
    BY <1>5, CountersUntouched
  <1>6. QED
    BY <1>2, <1>3, <1>4, <1>5
    DEF Next, vars, CreateAgent, GrantCapability, DelegateCapability, Issue,
        RevokeCapability, StartTurn, TurnUnknownTool, FailTurn

\* The counters an agent's status shows can be computed from the audit log
\* and the tool calls reported with its completed tasks, however executions
\* from the loop and from outside it interleave.
THEOREM CountersAreExplained == Spec => []CountersExplained
  <1>1. Spec => []IInv
    BY IInvInit, IInvNext, PTL DEF Spec
  <1>2. Spec => []CInv
    BY CInvInit, CInvNext, <1>1, PTL DEF Spec
  <1>3. CInv => CountersExplained
    BY DEF CInv
  <1>4. QED
    BY <1>2, <1>3, PTL

=============================================================================
