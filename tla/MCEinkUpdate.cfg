SPECIFICATION Spec
CONSTANTS
  DISP_SIZE_Y = 8
  Images <- MCImages
  Luts = {0, 1, 3}
  Layers = {4, 16}
INVARIANTS TypeOK ShownIsAsked OldImageKnown CommandsFindPanelReady
PROPERTY DrawReturns
