SPECIFICATION FairSpec
CONSTANTS
  Keys = {k1, k2}
  Ports = {1}
  Tasks = {t1, t2}
  ReuseKeys = FALSE
  MaxInstances = 2
  MaxRequests = 2
  MaxEdits = 1
  MaxExits = 1
INVARIANTS
  
  OneInstancePerProfile
  ShutdownIsComplete

  
CHECK_DEADLOCK FALSE
