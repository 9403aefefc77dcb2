SPECIFICATION FairSpec
CONSTANTS
  Nodes = {1, 2, 3}
  Origin = 1
  Parent <- PathParent
  UseBitmap = FALSE
  Keepalives <- OriginsKeepalives
  MaxEvents = 2
  MaxCollects = 1
INVARIANT SkippedIsHeld
PROPERTY EventuallySynced
CHECK_DEADLOCK FALSE
