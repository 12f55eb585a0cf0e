SPECIFICATION Spec
CONSTANTS
  r1 = r1
  r2 = r2
  Slots = {s1}
  Rows = {r1}
  NDb = 3
  Requests <- WriteThenRead
  Faults = {"begin", "execute", "fetch", "diverge", "empty", "commit", "rollback"}
  LockPolicy = "nowait"
  MsgCntModulus = 3
  Free = Free
  MaxLog = 2
CHECK_DEADLOCK FALSE
INVARIANTS
  AgreedLogs
  CommitNeedsMatchingDml
  RepliesTrue
