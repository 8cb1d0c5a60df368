SPECIFICATION Spec
CONSTANTS
  m1 = m1
  m2 = m2
  c1 = c1
  c2 = c2
  Manager = {m1, m2}
  Row = {r1, r2}
  Column = {x, y}
  Value = {0, 1}
  Initially = 0
  Deletable = {r2}
  Call = {c1, c2}
  ManagerOf <- MCManagerOf
  Lambdas = {c1}
  DryRun = {m2}
  Stamped = TRUE
  Distinct = TRUE
  Reuses = FALSE
  Catches = FALSE
  FailAt = {"flush", "writing", "inside", "commit"}
  Absent = Absent
  Gone = Gone
  Untouched = Untouched
  None = None
  MaxEdits = 3
  MaxCalls = 2
  MaxFlushes = 2
INVARIANTS UnchangedIsCommitted NeverStuck
PROPERTIES NoLostUpdate TransactionCommitsOnce DryRunCommitsNothing
CHECK_DEADLOCK FALSE
