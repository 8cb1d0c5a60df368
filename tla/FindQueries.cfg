CONSTANTS
  Schema <- MCSchema
  NamedScopes <- MCNamedScopes
  JoinTables = {"authors_to_tags"}
  SoftDeletable = {"books"}
  Callers = {c1, c2}
  Finds <- MCFinds
  Databases <- MCDatabases
  Changes <- MCChanges
  EntityLimit = 4
  Deletable <- MCDeletable
  DeletesFound = FALSE
  MaxChanges = 1
  MaxFlushes = 1
  c1 = c1
  c2 = c2
SYMMETRY Callers2
CONSTRAINT OneStructure
SPECIFICATION Spec
INVARIANTS FindsAreWanted DeletedAreNotFound FailsOnlyAtLimit
CHECK_DEADLOCK FALSE
