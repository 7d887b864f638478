SPECIFICATION FairSpec
CONSTANTS
  Modulo = 4
  k_maxframe = 2
  n2_retry = 1
  Msgs = {m1}
  None = None
  MaxQueue = 1
  MaxSeize = 1
INVARIANTS TypeOK WindowKept NothingDeliverableHeld NotFrozen
PROPERTIES TimerRuns AckWillBeSent DeadPeerNoticed
