SPECIFICATION FairSpec
CONSTANTS
  r1 = r1
  r2 = r2
  Slots = {s1, s2}
  Rows = {r1}
  NDb = 2
  Requests <- OneWrite
  Faults = {}
  LockPolicy = "nowait"
  MsgCntModulus = 2
  Free = Free
  MaxLog = 1
CHECK_DEADLOCK FALSE
PROPERTIES
  MessageHandled
  MutexReleased
