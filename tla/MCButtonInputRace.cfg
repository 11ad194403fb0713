CONSTANTS
  GpioButtons = {"FLASH"}
  TouchButtons = {"UP"}
  QueueLen = 2
  Rotate = 0
SPECIFICATION Spec
INVARIANT
  ButtonStateIsTruth
