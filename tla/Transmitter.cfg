SPECIFICATION Spec
CONSTANTS
  KissThreads = {kiss}
  LinkThreads = {link}
  Packets = {p1, b1, s1}
  NullPackets = {s1}
  BadPackets = {b1}
  NoOne = none
  DcdValues = {TRUE, FALSE}
  FullDup = FALSE
  MaxTries = 1
  MaxBurst = 1
  MaxConfirms = 1
INVARIANTS TypeOK ChannelNotLeaked
PROPERTIES OvertakenOnlyByLate HiServed ImplementsService
