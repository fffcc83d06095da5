---------------------------- MODULE IntentRouter ----------------------------
(***************************************************************************)
(* Intents between agents: the router of                                   *)
(* crates/lak-services/src/intent_router.rs with the mailboxes and the     *)
(* calls send_intent and await_intent of the kernel.  Every call is one    *)
(* critical section of the kernel's lock.                                  *)
(*                                                                         *)
(* Clients choose the ids of the intents they send.  Nobody checks that an *)
(* agent exists, so Agents are all ids that calls mention.  The router's   *)
(* statistics are left out.                                                *)
(***************************************************************************)
EXTENDS Integers, Sequences, SequencesExt, FiniteSets

CONSTANTS
  Agents,
  Segments,          \* literal segments of topics, equal up to case
  Subscriptions,     \* the subscriptions agents wait with
  Messages,          \* what clients send, ids aside
  None,               \* a filter that is None
  max_dead_letters,
  MaxPublished       \* bound of the model: intents sent

\* A topic or text is a sequence of segments; patterns have wildcards too.
Topics == Seq(Segments)
Patterns == Seq(Segments \cup {"*", "**"})
TargetKinds == {"Broadcast", "Unicast", "Multicast", "ByCapability", "PublishSubscribe"}

(***************************************************************************)
(* An IntentSubscription without its agent: types is {} for no filter.  A  *)
(* message is an IntentMessage: agents are those a Unicast or Multicast    *)
(* target lists, cap is the capability of a ByCapability target, and text  *)
(* is the topic of a PublishSubscribe target and the natural language text *)
(* of any other intent.                                                    *)
(***************************************************************************)
ASSUME RouterAssumption ==
  /\ \A s \in Subscriptions :
       DOMAIN s = {"types", "topic", "cap"} /\ s.topic \in Patterns \cup {None}
  /\ \A m \in Messages :
       /\ DOMAIN m = {"source", "kind", "agents", "cap", "type", "text"}
       /\ m.source \in Agents /\ m.kind \in TargetKinds
       /\ m.agents \in Seq(Agents) /\ m.text \in Topics
       /\ m.kind = "ByCapability" => m.cap # None
  /\ max_dead_letters \in Nat \ {0}   \* publish panics when it is 0
  /\ MaxPublished \in Nat

VARIABLES
  subscriptions,
  dead_letters,
  mailboxes,
  total_published,
  usage           \* how the router is used throughout a behaviour

vars == <<subscriptions, dead_letters, mailboxes, total_published, usage>>

\* Clients of the kernel keep ids unique, or send one again (a retry, say); or
\* the operations that the kernel never calls are used as well.
Usages == {"unique", "retries", "api"}
unique_ids == usage # "retries"

Intents == [id: 1..MaxPublished, message: Messages]

Init ==
  /\ subscriptions = [a \in Agents |-> {}]
  /\ dead_letters = <<>>
  /\ mailboxes = [a \in Agents |-> <<>>]
  /\ total_published = 0
  /\ usage \in Usages

-----------------------------------------------------------------------------
(* Matching.                                                               *)

\* mqtt_match_segments of the pattern c[1] and the topic c[2].
MatchSegments[c \in Patterns \X Topics] ==
  LET p == c[1]  t == c[2]
  IN  \/ p = <<>> /\ t = <<>>
      \/ /\ p # <<>> /\ Head(p) = "**"
         /\ \E skip \in 0..Len(t) : MatchSegments[<<Tail(p), SubSeq(t, skip + 1, Len(t))>>]
      \/ /\ p # <<>> /\ t # <<>> /\ Head(p) \in {"*", Head(t)}
         /\ MatchSegments[<<Tail(p), Tail(t)>>]

Occurs(s, t) == \E i \in 0..(Len(t) - Len(s)) : SubSeq(t, i + 1, i + Len(s)) = s

TopicMatches_NoWildcards(p, t) == Occurs(p, t) \/ Occurs(t, p)
\* topic_matches; substrings are taken at whole segments.
TopicMatches(p, t) ==
  IF \E i \in DOMAIN p : p[i] \in {"*", "**"} THEN MatchSegments[<<p, t>>]
  ELSE Occurs(p, t) \/ Occurs(t, p)

\* check_sub_match
Matches(s, m) ==
  /\ s.types = {} \/ m.type \in s.types
  /\ s.topic = None \/ TopicMatches(s.topic, m.text)
  /\ s.cap = None \/ (m.kind = "ByCapability" /\ m.cap = s.cap)

-----------------------------------------------------------------------------
(* Publishing.                                                             *)

FindByTopic(topic) ==
  {a \in Agents : \E s \in subscriptions[a] : s.topic # None /\ TopicMatches(s.topic, topic)}
FindByCapability(cap) == {a \in Agents : \E s \in subscriptions[a] : s.cap = cap /\ cap # None}

\* How often the resolution of the target names agent a: a multicast list may
\* name it more than once.
TimesNamed(m, a) ==
  CASE m.kind \in {"Unicast", "Multicast"} -> Cardinality({i \in DOMAIN m.agents : m.agents[i] = a})
    [] m.kind = "Broadcast"        -> 1
    [] m.kind = "ByCapability"     -> IF a \in FindByCapability(m.cap) THEN 1 ELSE 0
    [] m.kind = "PublishSubscribe" -> IF a \in FindByTopic(m.text) THEN 1 ELSE 0

\* deliver_to_agent: the candidates with a matching subscription, the source aside.
DeliverTo(m) ==
  {a \in Agents \ {m.source} :
     TimesNamed(m, a) > 0 /\ \E s \in subscriptions[a] : Matches(s, m)}

WithRoom_OffByOne(q) == IF Len(q) <= max_dead_letters THEN q ELSE Tail(q)
\* The queue after its oldest entries made room for one more.
WithRoom(q) ==
  IF Len(q) < max_dead_letters THEN q
  ELSE SubSeq(q, Len(q) - max_dead_letters + 2, Len(q))

SendIntent(i) ==
  LET recipients == DeliverTo(i.message)
  IN  /\ total_published < MaxPublished
      /\ total_published' = total_published + 1
      /\ IF unique_ids THEN i.id = total_published' ELSE i.id <= total_published'
      /\ dead_letters' = IF recipients = {} THEN Append(WithRoom(dead_letters), i)
                         ELSE dead_letters
      /\ mailboxes' = [a \in Agents |->
            IF a \in recipients
            THEN mailboxes[a] \o [n \in 1..TimesNamed(i.message, a) |-> i]
            ELSE mailboxes[a]]
      /\ UNCHANGED subscriptions

-----------------------------------------------------------------------------
(* Receiving.  Each call registers its subscription first.                 *)

FirstMatching_HeadOnly(q, s) ==
  IF q # <<>> /\ Matches(s, q[1].message) THEN 1 ELSE 0
\* The position of the first intent in q that matches s, or 0.
FirstMatching(q, s) == SelectInSeq(q, LAMBDA i : Matches(s, i.message))

SubscribeOnce(a, s) == subscriptions' = [subscriptions EXCEPT ![a] = @ \cup {s}]

\* await_intent answered from the mailbox.
AwaitMail(a, s) ==
  LET n == FirstMatching(mailboxes[a], s)
  IN  /\ SubscribeOnce(a, s)
      /\ n > 0
      /\ mailboxes' = [mailboxes EXCEPT ![a] = RemoveAt(@, n)]
      /\ UNCHANGED <<dead_letters, total_published>>

Requeued_All(s) == SelectSeq(dead_letters, LAMBDA i : ~Matches(s, i.message))
\* requeue_dead_letter: the first entry that bears the id.
WithoutId(id) == RemoveAt(dead_letters, SelectInSeq(dead_letters, LAMBDA i : i.id = id))
Requeued(s) == WithoutId(dead_letters[FirstMatching(dead_letters, s)].id)

\* await_intent answered from the dead letters, whoever they were for.
AwaitReplay(a, s) ==
  /\ SubscribeOnce(a, s)
  /\ FirstMatching(mailboxes[a], s) = 0
  /\ FirstMatching(dead_letters, s) > 0
  /\ dead_letters' = Requeued(s)
  /\ UNCHANGED <<mailboxes, total_published>>

\* await_intent that times out at once.
AwaitNothing(a, s) ==
  /\ SubscribeOnce(a, s)
  /\ FirstMatching(mailboxes[a], s) = 0
  /\ FirstMatching(dead_letters, s) = 0
  /\ UNCHANGED <<dead_letters, mailboxes, total_published>>

AwaitIntent(a, s) == AwaitMail(a, s) \/ AwaitReplay(a, s) \/ AwaitNothing(a, s)

\* destroy_agent drops the mailbox and keeps the subscriptions.
DestroyAgent(a) ==
  /\ mailboxes' = [mailboxes EXCEPT ![a] = <<>>]
  /\ UNCHANGED <<subscriptions, dead_letters, total_published>>

-----------------------------------------------------------------------------
(* The rest of the router's interface.                                     *)

Subscribe(a, s) == SubscribeOnce(a, s) /\ UNCHANGED <<dead_letters, mailboxes, total_published>>

Unsubscribe(a, S) ==
  /\ subscriptions' = [subscriptions EXCEPT ![a] = @ \ S]
  /\ UNCHANGED <<dead_letters, mailboxes, total_published>>

ClearDeadLetters ==
  /\ dead_letters' = <<>>
  /\ UNCHANGED <<subscriptions, mailboxes, total_published>>

RequeueDeadLetter(id) ==
  /\ \E i \in ToSet(dead_letters) : i.id = id
  /\ dead_letters' = WithoutId(id)
  /\ UNCHANGED <<subscriptions, mailboxes, total_published>>

\* unsubscribe takes an agent's subscriptions with one pattern, or all of them.
OtherCall ==
  \/ \E a \in Agents, s \in Subscriptions : Subscribe(a, s)
  \/ \E a \in Agents, s \in Subscriptions :
       s.topic # None /\ Unsubscribe(a, {u \in Subscriptions : u.topic = s.topic})
  \/ \E a \in Agents : Unsubscribe(a, Subscriptions)
  \/ ClearDeadLetters
  \/ \E id \in 1..MaxPublished : RequeueDeadLetter(id)

KernelCall ==
  \/ \E i \in Intents : SendIntent(i)
  \/ \E a \in Agents, s \in Subscriptions : AwaitIntent(a, s)
  \/ \E a \in Agents : DestroyAgent(a)

Next == (KernelCall \/ (usage = "api" /\ OtherCall)) /\ UNCHANGED usage

Spec == Init /\ [][Next]_vars

-----------------------------------------------------------------------------
(* Properties.                                                             *)

InMail(a) == ToSet(mailboxes[a])
Pending == ToSet(dead_letters) \cup UNION {InMail(a) : a \in Agents}

TypeOK ==
  /\ subscriptions \in [Agents -> SUBSET Subscriptions]
  /\ dead_letters \in Seq(Intents) /\ Len(dead_letters) <= max_dead_letters
  /\ mailboxes \in [Agents -> Seq(Intents)]
  /\ total_published \in 0..MaxPublished
  /\ usage \in Usages

\* What a pattern means: the topic can be cut into consecutive pieces, one for
\* each segment, any piece for **, one segment for *, and otherwise itself.
Denotes(p, t) ==
  IF \A i \in DOMAIN p : p[i] \notin {"*", "**"} THEN Occurs(p, t) \/ Occurs(t, p)
  ELSE \E cut \in [0..Len(p) -> 0..Len(t)] :
         /\ cut[0] = 0 /\ cut[Len(p)] = Len(t)
         /\ \A i \in DOMAIN p :
              IF p[i] = "**" THEN cut[i] >= cut[i - 1]
              ELSE cut[i] = cut[i - 1] + 1 /\ p[i] \in {"*", t[cut[i]]}

\* Who a message is for, of the agents other than its source: those with a
\* subscription that accepts it and that the target names, by id, by a
\* subscription to the capability, or by one to the topic.
Audience(m) ==
  {a \in Agents \ {m.source} :
     /\ \E s \in subscriptions[a] :
          /\ s.types # {} => m.type \in s.types
          /\ s.topic # None => Denotes(s.topic, m.text)
          /\ s.cap # None => m.kind = "ByCapability" /\ m.cap = s.cap
     /\ \/ m.kind = "Broadcast"
        \/ m.kind \in {"Unicast", "Multicast"} /\ a \in ToSet(m.agents)
        \/ /\ m.kind = "ByCapability"
           /\ \E s \in subscriptions[a] : s.cap = m.cap
        \/ /\ m.kind = "PublishSubscribe"
           /\ \E s \in subscriptions[a] : s.topic # None /\ Denotes(s.topic, m.text)}

\* Publishing reaches the audience and nobody else: the resolution of the five
\* kinds of target, the filters and the wildcard recursion agree with the
\* meaning of patterns, and a source does not hear itself.
ReachesAudience == \A m \in Messages : DeliverTo(m) = Audience(m)

\* An intent once sent is in a mailbox or among the dead letters, and leaves
\* them one at a time, as an answer, unless its mailbox is destroyed or the dead
\* letters overflow.
Gone == Pending \ Pending'
NothingVanishes ==
  [][/\ total_published' > total_published => \E i \in Pending' : SendIntent(i)
     /\ Gone # {} /\ usage # "api" =>
          \/ /\ Cardinality(Gone) = 1
             /\ \E a \in Agents, s \in Subscriptions : AwaitIntent(a, s)
          \/ \E a \in Agents : Gone \subseteq InMail(a) /\ DestroyAgent(a)
          \/ /\ Gone = {Head(dead_letters)} /\ Len(dead_letters) = max_dead_letters
             /\ total_published' > total_published]_vars

\* An agent that asks for an intent is answered if one that matches waits in its
\* mailbox or among the dead letters, whatever waits ahead of it; and with one
\* that matches, as long as clients keep ids unique (requeue_dead_letter takes
\* the first intent that bears the id).
AnswersMatch ==
  [][\A a \in Agents, s \in Subscriptions :
       total_published' = total_published /\ AwaitIntent(a, s) =>
         /\ (\E i \in InMail(a) \cup ToSet(dead_letters) : Matches(s, i.message)) =>
              <<dead_letters, mailboxes>>' # <<dead_letters, mailboxes>>
         /\ unique_ids => \A i \in Gone : Matches(s, i.message)]_vars

\* intent.rs:33 "发送给特定 Agent" (sent to a specific agent): only the agent that
\* a unicast intent names is ever answered with it.  The code does not keep this:
\* a dead letter goes to whoever waits with a subscription that matches it, its
\* own sender included.
UnicastStaysPrivate ==
  [][\A a \in Agents, s \in Subscriptions :
       AwaitIntent(a, s) =>
         \A i \in Gone : i.message.kind = "Unicast" => a \in ToSet(i.message.agents)]_vars
=============================================================================
