CONSTANTS
  a1 = a1
  a2 = a2
  a3 = a3
  a4 = a4
  b1 = b1
  b2 = b2
  i1 = i1
  None = None
  NotPreloaded = NotPreloaded
  Entity <- EntityC
  TypeOf <- TypeOfC
  Meta <- MetaC
  Inherited = {"Image"}
  Rows <- RowsC
  SoftDeleted <- SoftDeletedC
  Request <- RequestC
  Preloaders = {TRUE, FALSE}
  InMemory <- InMemoryC
  Sets <- SetsC
  MaxCalls = 2
  MaxEdits = 1
SPECIFICATION Spec
CHECK_DEADLOCK FALSE
INVARIANTS LoadedIsTrue OnlyAskedIsLoaded NeverStuck
PROPERTIES CallsGiveWhatIsThere
