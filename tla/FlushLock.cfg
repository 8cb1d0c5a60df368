SPECIFICATION Spec
CONSTANTS
  EM = {em1, em2}
  Call = {f1, f2, f3}
  Ctx = {c1, c2, c3}
  NoStore = NoStore
  MaxSecret = 3
SYMMETRY Interchangeable
INVARIANTS TypeOK FlushMutex NoOwnWriteWhileLocked
CHECK_DEADLOCK FALSE
