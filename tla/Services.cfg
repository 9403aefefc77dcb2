SPECIFICATION SvcSpec
CONSTANTS
  Calls = {c1, c2}
  ReqLengths = {2, 3}
  RespLengths = {1, 2}
  MaxPieces = 2
  MaxDups = 1
  MaxRuns = 2
  MaxLoss = 3
  Tokens = 2
  MaxFlight = 1
  Hosts = {1, 2}
  Subnets = {1, 2}
  MaxHost = 3
  WaitRounds = 1
  MaxUnlucky = 2
  MaxDhEvents = 1
  Insts = {1, 2}
  Contents <- C3
  FirstRows <- C1
  MaxMcEvents = 2
  Callers = {"t1", "t2", "t3"}
  MaxDrops = 2
  Clients = {"l1", "l2"}
  UsableSlots = 2
  StartSlot <- SameStart
  LeaseTtl = 2
  RenewAt = 1
  MaxRpcTasks = 2
  MaxP6Events = 2
  MaxOperations = 2
  MaxOperationId = 3
  Kinds = {"tcp_connect", "tcp_write"}
  Sizes = {0}
  MaxResources = 1
  MaxResultBytes = 0
  MaxResourceId = 1
  Waiters = {w1, w2}
  AsyncWaiters = {a1}
  MaxDiscards = 1
INVARIANT
  SvcTypeOK NothingStuck EchoProvesLife AppliedHolds PatchSuffices NothingLeftHalf
  NoLostWakeup
PROPERTY
  RpcKeepsPromise MergersDrain DeadIsClosed DhcpSettles ManagedConverges CancelStops ClientsLeased
  SessionUnblocks
CHECK_DEADLOCK FALSE
