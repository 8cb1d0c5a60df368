SPECIFICATION FairSpec
CONSTANTS
  Val = {v1, v2}
  Undefined = Undefined
  Clean = Clean
  NoBag = NoBag
  EmptyBag = EmptyBag
  NoRow = NoRow
  e1 = e1
  e2 = e2
  e3 = e3
  Entity = {e1, e2, e3}
  Loaded = {e1, e2, e3}
  InitialValue = v1
  Cascade <- Chain
  AppEdits = {e1}
  AppDeletes = {e3}
  HookEdits = {e2}
  HookDeletes = {e1, e2}
  Sources = {e1, e2}
  Derived = {e1, e2}
  ReactionDeletes = {e3}
  QuerySources = {e1, e2}
  QueryTargets = {e1, e2}
  Mode = "in-memory-writes"
  FailAt = {"hooks"}
  LateDeletes = TRUE
  MaxLoops = 2
  MaxRecalcs = 1
  MaxEdits = 1
  MaxFlushes = 1
INVARIANT CascadeBeforeDelete
PROPERTY FlushEnds
CHECK_DEADLOCK FALSE
