SPECIFICATION FairSpec
CONSTANTS
  Periods = {1, 2, 3}
  FrameBytes = 2
  MinBytes = 4
  MaxBytes = 5
  DefaultBytes = 4
  OutRetries = 2
  InRetries = 1
  SymbolFrames = 1
  MaxSound = 3
  MaxQueued = 1
INVARIANTS TypeOK ReadyBeforeUse SoundInOrder NothingLeftBehind FramesAligned
PROPERTIES TransmissionEnds Terminates
CHECK_DEADLOCK FALSE
