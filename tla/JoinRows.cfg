SPECIFICATION Spec
CONSTANTS
  NoRow = NoRow
  NotReading = NotReading
  b1 = b1
  t1 = t1
  t2 = t2
  t3 = t3
  Left = {b1}
  Right = {t1, t2, t3}
  Fresh = {t3}
  InitialLinks <- OneLink
  BlindEdits = FALSE
  ReAdds = FALSE
  OverlappingSets = FALSE
  StaleLoads = FALSE
  LateSets = FALSE
  JoinOnlyRounds = FALSE
  FailAt = {"hooks", "validate", "write"}
  MaxEdits = 3
  MaxFlushes = 2
  MaxRounds = 1
INVARIANTS LoadedIsWanted PersistedIsStored
PROPERTIES FlushSavesWanted
CHECK_DEADLOCK FALSE
