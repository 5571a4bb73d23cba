SPECIFICATION FairSpec
CONSTANTS
  Controllers = {c1, c2}
  Targets = 2
  MaxFiles = 1
  MaxReads = 1
  MaxCalls = 3
  LatePause = FALSE
INVARIANTS
  PollIsConsistent
  CompletedCopyIsWhole
  PausedJobIsIdle
PROPERTIES
  TerminalIsFinal
  JobEnds
CHECK_DEADLOCK FALSE
