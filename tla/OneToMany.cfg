SPECIFICATION Spec
CONSTANTS
  a1 = a1
  a2 = a2
  b1 = b1
  b2 = b2
  Owner = {a1, a2}
  Child = {b1, b2}
  Fresh = {b2}
  Unborn = {a2}
  Stored <- MCStored
  Deletable = {a1, b1}
  None = None
  NoRow = NoRow
  NotLoaded = NotLoaded
  NotAsked = NotAsked
  NoCache = NoCache
  BlindSets = FALSE
  LatePreloads = FALSE
  StaleLoads = FALSE
  LateSets = FALSE
  FailAt = {"hooks"}
  MaxEdits = 3
  MaxFlushes = 2
  MaxCalls = 4
INVARIANTS LoadedIsOwned CachedIsCurrent
PROPERTY FlushSavesWanted
CHECK_DEADLOCK FALSE
