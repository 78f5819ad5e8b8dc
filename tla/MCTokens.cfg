SPECIFICATION FairSpec
CONSTANTS
  t1 = t1
  t2 = t2
  p1 = p1
  p2 = p2
  Tasks <- MCTasks
  Procs <- MCProcs
  ProcOf <- MCProcOf
  SharedLock = TRUE
  Kind = "rotates"
  Faults = {"reply_lost", "save_failed", "cancelled", "crashed", "lease_ran_out", "overtaken", "refused"}
  MaxIssued = 3
  Attempts = 2
INVARIANTS AccountKept
PROPERTIES EveryCallEnds KeepsCustody SavedBeforeHandedBack SignInAgainIsFinal RenewsOnlyWhatIsStored
