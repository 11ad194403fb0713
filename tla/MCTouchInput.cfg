SPECIFICATION BoardSpec
CONSTANTS
  GpioButtons = {}
  TouchButtons = {"UP"}
  QueueLen = 1
  Rotate = 3
  NPins = 1
  Baseline = TRUE
  ForeignReads = TRUE
  ButtonOf <- Wiring
INVARIANTS
  TypeOK
  TouchTypeOK
  EventsAlternate
  TouchesAreSeen
