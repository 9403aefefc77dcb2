SPECIFICATION P6Spec
CONSTANTS
  Clients = {"c1", "c2"}
  UsableSlots = 2
  StartSlot <- SameStart
  LeaseTtl = 2
  RenewAt = 1
  MaxRpcTasks = 2
  MaxP6Events = 1
INVARIANT LeasesDistinct
CHECK_DEADLOCK FALSE
