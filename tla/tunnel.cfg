SPECIFICATION FairSpec
CONSTANTS
  Stoppers = {s1, s2}
  MaxRestartAttempts = 1
  MaxCalls = 3
  MaxFaults = 2
  SlowCancel = FALSE
INVARIANTS
  IInv
PROPERTIES
  OldGenerationIsInert
  StopPreventsRestart
  TransitionsEnd
  StopLeavesNoGoroutine
  SlotImplemented
CHECK_DEADLOCK FALSE
