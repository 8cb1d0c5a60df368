CONSTANTS
  a1 = a1
  a2 = a2
  b1 = b1
  b2 = b2
  w1 = w1
  w2 = w2
  w3 = w3
  e1 = e1
  Unset = Unset
  Meta <- MCMeta
  TypeOf <- MCTypeOf
  ValuesOf <- MCValues
  Definitions <- MCDefinitions
  Dereferences = {"shelf"}
  ReadsIds = {"onTitle"}
  Worlds <- MCWorlds
  AppFields = {"title", "author", "called", "mentor", "writer"}
  HookFields = {"title", "author", "called", "mentor"}
  ReactionSets <- MCReactionSets
  Reverts = FALSE
  MaxLoops = 6
  MaxFlushes = 2
SPECIFICATION Spec
INVARIANTS AlwaysUpToDate ReactionsRan RunsOnce
CHECK_DEADLOCK FALSE
