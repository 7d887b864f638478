SPECIFICATION KissSpec
CONSTANTS
  Octets = {"a"}
  MAX_KISS_LEN = 8
  MinFrameLen = 1
  MaxFrameLen = 2
  NULL = NULL
INVARIANT OnlyWhatWasBegun
PROPERTIES Resynchronised SentIsRead
CHECK_DEADLOCK FALSE
