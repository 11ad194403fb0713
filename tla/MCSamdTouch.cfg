SPECIFICATION Spec
CONSTANTS
  Buttons = {left, up, ok}
  MaxTouches = 4
  MaxFaults = 2
INVARIANTS PressedWasTouched
CHECK_DEADLOCK FALSE
