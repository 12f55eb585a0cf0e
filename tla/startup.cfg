SPECIFICATION FairSpec
CONSTANTS
  Texts <- MCTexts
  LoadedFrom <- LoadSettings
  MaxClients = 2
CHECK_DEADLOCK FALSE
INVARIANTS
  TypeOK
  RoundTrip
  TruncationRejected
  ServedByAll
  NothingLeftRunning
PROPERTIES
  Settles
  FailureEndsProgram
