SPECIFICATION Spec
CONSTANTS
  Queued <- MCQueued
  NoPid = NoPid
  DamagedAt = {1, 12, 13, 15}
  DamagedBy = {0, 1, 192}
INVARIANTS OctetsSurvive BlocksFit
CHECK_DEADLOCK FALSE
