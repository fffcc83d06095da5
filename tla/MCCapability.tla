---------------------------- MODULE MCCapability ----------------------------
(* A small instance of Capability: two agents, files under one directory.    *)
EXTENDS Capability, TLC

CONSTANTS a1, a2

MCAgents == {a1, a2}
Symmetry == Permutations(MCAgents)
MCCapTypes == {"FileRead", "ProcessExecute"}
MCScopes == {<<"d", "**">>, <<"d", "f">>, <<"*">>}
MCResources == {<<"d", "f">>, <<"e", "f">>}
MCTools == {"FileRead", "ShellCmd"}
MCPermissionSets == {{"READ"}, {"READ", "DELEGATE"}}

Root == [cap_type |-> "FileRead", scope |-> <<"d", "**">>,
         permissions |-> {"READ", "DELEGATE"}]
Plain == [cap_type |-> "FileRead", scope |-> <<"d", "f">>,
          permissions |-> {"READ"}]
Shell == [cap_type |-> "ProcessExecute", scope |-> <<"*">>,
          permissions |-> {"EXECUTE"}]

MCInitialLists == {<<Plain, Shell>>, <<Plain, Root>>}

Clean == [severe |-> 0, override |-> 0, delimiter |-> 0, other |-> 0]
MCSuspicions == {Clean, [Clean EXCEPT !.override = 3]}
=============================================================================
