SPECIFICATION Spec
CONSTANTS
  r1 = r1
  r2 = r2
  Slots = {s1, s2}
  Rows = {r1}
  NDb = 2
  Requests <- ReadOrWrite
  Faults = {"empty"}
  LockPolicy = "wait"
  MsgCntModulus = 3
  Free = Free
  MaxLog = 2
CHECK_DEADLOCK FALSE
INVARIANT AnyMismatchRollsBack
