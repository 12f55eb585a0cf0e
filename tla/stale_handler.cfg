SPECIFICATION Spec
CONSTANTS
  Sessions = {c1, c2}
  BufferSize = 1
  PoolSize = 1
  Faults = {}
  None = None
CHECK_DEADLOCK FALSE
INVARIANT HandlerHasSession
