SPECIFICATION Spec
CONSTANTS
  a1 = a1
  a2 = a2
  NoParent = NoParent
  NoTask = NoTask
  Agents <- MCAgents
  CapTypes <- MCCapTypes
  Scopes <- MCScopes
  Resources <- MCResources
  Tools <- MCTools
  PermissionSets <- MCPermissionSets
  InitialLists <- MCInitialLists
  Suspicions <- MCSuspicions
  MaxEvents = 2
  MaxCalls = 1
SYMMETRY Symmetry
INVARIANTS
  Provenance
  CountersExplained
CHECK_DEADLOCK FALSE
