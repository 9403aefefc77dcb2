SPECIFICATION FairSpec
CONSTANTS
  MaxAttempts = 1
  MaxPending = 0
  FailThreshold = 2
  MaxTasks = 2
  MaxKeys = 4
  MaxFaults = 1
INVARIANT NothingOrphaned
PROPERTY SessionsReturn DivergenceNoticed
