SPECIFICATION Spec
CONSTANTS
  AccBits = 24
  IL2P_SYNC_WORD = {3, 6, 9, 10, 11, 12, 14, 16, 20, 21, 22, 23}
  HeaderOctets = 15
  PayloadLens = {0, 2}
INVARIANT AccumulatesRecentBits
