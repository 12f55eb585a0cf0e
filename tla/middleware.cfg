SPECIFICATION MwSpec
CONSTANTS
  r1 = r1
  Slots = {0, 1}
  Rows = {r1}
  NDb = 2
  Requests <- OneWrite
  Faults = {"begin"}
  LockPolicy = "nowait"
  MsgCntModulus = 2
  Free = Free
  MaxLog = 1
  Sessions = {c1, c2}
  BufferSize = 2
  PoolSize = 2
  ServiceFaults = {"connect", "disconnect"}
  None = None
SYMMETRY SessionSymmetry
CHECK_DEADLOCK FALSE
INVARIANTS
  NoReentry
  FreeSlotsClean
  MutexHolderRuns
PROPERTIES
  ImplementsAdjudicator
