SPECIFICATION FairSpec
CONSTANTS
  Sessions = {c1, c2, c3}
  BufferSize = 2
  PoolSize = 2
  Faults = {"connect", "job", "disconnect"}
  None = None
CHECK_DEADLOCK FALSE
INVARIANTS
  TypeOK
  SlotOwnership
  StackCoversCount
  JobsHaveThread
PROPERTIES
  SessionKept
  ImplementsService
  Served
