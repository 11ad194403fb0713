CONSTANTS
  t1 = t1
  t2 = t2
  p1 = p1
  p2 = p2
  Tasks <- MCTasks
  Pins <- MCPins
  UsedRegs <- MCUsedRegs
  InitMayFail = FALSE
SPECIFICATION Spec
SYMMETRY Symmetry
INVARIANTS
  TypeOK
  ShadowCoherent
  AckedPinsHold
