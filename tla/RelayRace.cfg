SPECIFICATION Spec
CONSTANTS
  MaxAttempts = 2
  MaxPending = 1
  FailThreshold = 2
  MaxTasks = 1
  MaxKeys = 4
  MaxFaults = 0
INVARIANT OneKeyWhenQuiet
