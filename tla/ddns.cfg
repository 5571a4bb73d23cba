SPECIFICATION FairSpec
CONSTANTS
  Callers = {c1, c2}
  Loops = {l1, l2}
  Records = {r1}
  FixedRecords = {}
  Addresses = {a, b}
  Nothing = Nothing
  MaxCalls = 2
  MaxMoves = 1
  MaxFailures = 1
INVARIANTS
  LoopIsOwned
  EnabledRuns
PROPERTIES
  SoloDeleteIsFinal
  EventuallyPublished
CHECK_DEADLOCK FALSE
