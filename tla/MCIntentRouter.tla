--------------------------- MODULE MCIntentRouter ---------------------------
(* A small instance of IntentRouter for TLC: every kind of target, and        *)
(* filters by type, by topic with both wildcards, and by capability.          *)
EXTENDS IntentRouter

CONSTANTS a, b

Sub(types, topic, cap) == [types |-> types, topic |-> topic, cap |-> cap]
queries == Sub({"Query"}, <<"*">>, None)
system  == Sub({}, <<"sys", "**">>, None)
tools   == Sub({}, None, "ToolExecute")
AllSubscriptions == {queries, system, tools}

Message(source, kind, to, cap, type, text) ==
  [source |-> source, kind |-> kind, agents |-> to, cap |-> cap, type |-> type, text |-> text]
AllMessages ==
  {Message(a, "Broadcast", <<>>, None, "Inform", <<"sys", "x", "up">>),
   Message(a, "Unicast", <<b>>, None, "Query", <<"up">>),
   Message(b, "Multicast", <<a, b, a>>, None, "Query", <<"sys">>),
   Message(b, "ByCapability", <<>>, "ToolExecute", "Inform", <<"x">>),
   Message(a, "PublishSubscribe", <<>>, None, "Inform", <<"sys">>)}
=============================================================================
