SPECIFICATION Spec
CONSTANTS
  MaxSent = 5
  Window = 2
CHECK_DEADLOCK FALSE
INVARIANTS
  TypeOK
  DeliveredInOrder
  ErrorNotForgotten
PROPERTIES
  ImplementsMailbox
