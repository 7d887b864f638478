SPECIFICATION Spec
CONSTANTS
  Modulo = 4
  k_maxframe = 2
  n2_retry = 1
  Msgs = {0, 1, 2, 3, 4}
  None = None
  NULL = NULL
  Total = 5
  Mixed = 0
  PeerWindow = 2
  Segments = 2
  MaxAir = 2
  MaxRestarts = 0
  MaxQueue = 1
  MaxSeize = 1
INVARIANT DeliveredInOrder
CHECK_DEADLOCK FALSE
