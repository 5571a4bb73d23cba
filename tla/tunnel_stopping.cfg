SPECIFICATION Spec
CONSTANTS
  Stoppers = {s1}
  MaxRestartAttempts = 1
  MaxCalls = 2
  MaxFaults = 1
  SlowCancel = FALSE
INVARIANT StoppingHasOwner
CHECK_DEADLOCK FALSE
