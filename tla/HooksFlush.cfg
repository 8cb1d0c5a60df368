SPECIFICATION Spec
CONSTANTS
  Val = {v1, v2}
  Undefined = Undefined
  Clean = Clean
  NoBag = NoBag
  EmptyBag = EmptyBag
  NoRow = NoRow
  e1 = e1
  e2 = e2
  e3 = e3
  Entity = {e1, e2, e3}
  Loaded = {e1, e2}
  InitialValue = v1
  Cascade <- OneChild
  AppEdits = {e1, e3}
  AppDeletes = {e1, e3}
  HookEdits = {e2, e3}
  HookDeletes = {e2}
  Sources = {e1}
  Derived = {e2}
  ReactionDeletes = {e2}
  QuerySources = {}
  QueryTargets = {}
  Mode = "writes"
  FailAt = {"openDeletes", "openRecalc", "loop", "hooks", "settleDeletes", "settleRecalc", "validate", "write", "query", "queryRecalc", "commit"}
  LateDeletes = FALSE
  MaxLoops = 10
  MaxRecalcs = 50
  MaxEdits = 2
  MaxFlushes = 2
INVARIANTS NoForgottenChange HooksOnceBeforeWrite
PROPERTY SavesMemory
CHECK_DEADLOCK FALSE
