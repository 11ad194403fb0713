CONSTANTS
  NPins = 2
  Baseline = TRUE
  ForeignReads = TRUE
SPECIFICATION TouchSpec
INVARIANTS
  TouchTypeOK
  NoTouchLost
  EventsAlternate
PROPERTIES
  TouchIsReported
  OverCurrentEnds
