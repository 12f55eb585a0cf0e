SPECIFICATION Spec
CONSTANTS
  Chars <- MCChars
  Messages <- MCMessages
  Accepted <- MCAccepted
  Tables <- MCTables
  NDb = 2
  Asynch = {0}
  NullHash = {0}
  Null = Null
  NullSkips = {0}
  DayDigits = 1
  Counts = {0, 1, 2}
  W = 6
  IntRange = 2
CHECK_DEADLOCK FALSE
INVARIANTS
  TypeOK
  SplitCorrect
  ConnectionsQuiet
  VerdictRight
  
