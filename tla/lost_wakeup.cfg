SPECIFICATION FairSpec
CONSTANTS
  MaxSent = 4
  Window = 1
CHECK_DEADLOCK FALSE
PROPERTY ContinuallyRead
