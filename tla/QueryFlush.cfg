SPECIFICATION Spec
CONSTANTS
  Val = {v1, v2}
  Undefined = Undefined
  Clean = Clean
  NoBag = NoBag
  EmptyBag = EmptyBag
  NoRow = NoRow
  e1 = e1
  e2 = e2
  e3 = e3
  Entity = {e1, e2, e3}
  Loaded = {e1, e2}
  InitialValue = v1
  Cascade <- OneChild
  AppEdits = {e1, e2, e3}
  AppDeletes = {e1, e3}
  HookEdits = {}
  HookDeletes = {}
  Sources = {e2}
  Derived = {e3}
  ReactionDeletes = {}
  QuerySources = {e1}
  QueryTargets = {e2}
  Mode = "writes"
  FailAt = {}
  LateDeletes = FALSE
  MaxLoops = 10
  MaxRecalcs = 50
  MaxEdits = 3
  MaxFlushes = 2
INVARIANTS TypeOK CleanIsCommitted OplockOnlyOnConflict
PROPERTY SavesMemory
CHECK_DEADLOCK FALSE
