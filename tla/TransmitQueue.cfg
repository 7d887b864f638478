SPECIFICATION Spec
CONSTANTS
  KissThreads = {kiss}
  LinkThreads = {link}
  Packets = {p1, p2, s1}
  NullPackets = {s1}
  NoOne = none
INVARIANTS TypeOK MissedOnlyInWindow
PROPERTY AppendWakesSleeper
