SPECIFICATION Spec
CONSTANTS
  N = 3
  Sizes = {2, 3, 5, 7, 8}
  BUFFER_SIZE = 4
  MAX_BUFFER_SIZE = 7
INVARIANT MessagesWhole
PROPERTY WrittenIsDelivered
CHECK_DEADLOCK FALSE
