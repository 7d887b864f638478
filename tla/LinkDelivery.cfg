SPECIFICATION FairSpec
CONSTANTS
  Modulo = 4
  k_maxframe = 2
  n2_retry = 1
  Msgs = {0, 1, 2, 3, 4}
  None = None
  NULL = NULL
  Total = 5
  Mixed = 1
  PeerWindow = 1
  Segments = 2
  MaxAir = 2
  MaxRestarts = 1
  MaxQueue = 1
  MaxSeize = 1
INVARIANTS TypeOK DeliveredInOrder AckedWasDelivered NotSetUpAnew WholePackets NothingStranded
PROPERTIES ImplementsService AllDelivered
CHECK_DEADLOCK FALSE
