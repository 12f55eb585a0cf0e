SPECIFICATION Spec
CONSTANTS
  r1 = r1
  r2 = r2
  Slots = {s1, s2}
  Rows = {r1}
  NDb = 2
  Requests <- ReadOrWrite
  Faults = {"begin", "rollback"}
  LockPolicy = "wait"
  MsgCntModulus = 3
  Free = Free
  MaxLog = 2
SYMMETRY SlotSymmetry
CHECK_DEADLOCK FALSE
INVARIANTS
  TypeOK
  ConsistentSnapshots
  NoFalseAlarm
  NoImplicitBegin
  RepliesTrue
  SessionEndsClean
PROPERTIES
  ImplementsOneCopy
