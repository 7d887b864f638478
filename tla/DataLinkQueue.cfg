SPECIFICATION Spec
CONSTANTS
  Reporters = {rx, tx}
  Items = {i1, i2, i3}
  NoOne = none
INVARIANTS TypeOK MissedOnlyInWindow NoUntimedSleep
PROPERTIES ItemHandled TimerServedWhenQuiet
