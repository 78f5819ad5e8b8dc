SPECIFICATION Spec
CONSTANTS
  t1 = t1
  t2 = t2
  p1 = p1
  p2 = p2
  Tasks <- MCTasks
  Procs <- MCProcs
  ProcOf <- MCProcOf
  SharedLock = TRUE
  Kind = "extends"
  Faults = {}
  MaxIssued = 3
  Attempts = 2
PROPERTIES SignInAgainIsFinal
