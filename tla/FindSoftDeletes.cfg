CONSTANTS
  Schema <- MCSchema
  NamedScopes <- MCNamedScopes
  JoinTables = {"authors_to_tags"}
  SoftDeletable = {"books"}
  Callers = {c1}
  Finds <- MCLiveFinds
  Databases <- MCDatabases
  Changes <- MCChanges
  EntityLimit = 4
  Deletable <- MCDeletable
  DeletesFound = FALSE
  MaxChanges = 0
  MaxFlushes = 0
  c1 = c1
SPECIFICATION Spec
INVARIANT FindsAreWanted
CHECK_DEADLOCK FALSE
