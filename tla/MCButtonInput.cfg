CONSTANTS
  GpioButtons = {"FLASH"}
  TouchButtons = {"UP"}
  QueueLen = 2
  Rotate = 3
SPECIFICATION Spec
INVARIANTS
  TypeOK
  TruthUnlessRaced
  NoLostWakeup
PROPERTY
  HeldButtonsAreSeen
