SPECIFICATION Spec
CONSTANTS
  Callers = {c1, c2}
  Loops = {l1, l2}
  Records = {r1}
  FixedRecords = {}
  Addresses = {a, b}
  Nothing = Nothing
  MaxCalls = 2
  MaxMoves = 0
  MaxFailures = 0
PROPERTY
  DeletedStaysDeleted
CHECK_DEADLOCK FALSE
