SPECIFICATION SafetySpec
CONSTANTS
  MaxOperations = 3
  MaxOperationId = 5
  Kinds = {"tcp_bind", "tcp_accept", "tcp_connect", "tcp_read", "tcp_write", "tcp_shutdown",
           "udp_bind", "udp_receive", "udp_send"}
  Sizes = {0, 2}
  MaxResources = 2
  MaxResultBytes = 2
  MaxResourceId = 4
  Waiters = {}
  AsyncWaiters = {}
  MaxDiscards = 1
  Readers = {1, 2}
  Window = 2
  MaxAhead = 1
  MaxEpoch = 3
  MaxSeq = 3
  Capacity = 3
  FillRate = 2
  Second = 3
  MinSleep = 1
  Consumers = {1}
  MaxWant = 4
  MaxClock = 6
  CredIds = {"i1", "i2"}
  CredKeys = {"k1", "k2", "k3"}
  Attached = {"e1"}
  MaxCrEvents = 2
  NoSession = NoSession
INVARIANT
  PlaneTypeOK CompletionsExact ReservationsBalanced PendingLinked NoOrphanResource
  AtMostOnce RefusedWithReason RateBound SleepSuffices StopReaches
  KeysUnique RestartComesUp SettledSpans
PROPERTY NeverBack
CHECK_DEADLOCK FALSE
