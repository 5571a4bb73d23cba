SPECIFICATION Spec
CONSTANTS
  Controllers = {c1, c2}
  Targets = 1
  MaxFiles = 1
  MaxReads = 1
  MaxCalls = 3
  LatePause = TRUE
SYMMETRY ControllerSymmetry
INVARIANT
  CanceledJobIsAwake
CHECK_DEADLOCK FALSE
