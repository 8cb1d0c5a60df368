CONSTANTS
  IndexThreshold = 2
  Tables <- MCTables
  NewRow <- MCNewRow
  Sought = {"x"}
  OtherName = "z"
  Loads <- MCLoads
  WheresIn <- MCWheresIn
  Upsert <- MCUpsert
  Allowed = {}
  MaxCalls = 2
  MaxEdits = 1
  MaxChanges = 1
  MaxFlushes = 1
SPECIFICATION Spec
INVARIANTS OneEntityPerId NotBehindOwnCommit DeletedAreGone NoTwins IndexIsScan ForkIsSame
PROPERTIES AnswersMatch
CHECK_DEADLOCK FALSE
