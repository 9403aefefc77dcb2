SPECIFICATION Spec
CONSTANTS
  Nodes = {1, 2, 3}
  Origin = 1
  Parent <- PathParent
  UseBitmap = TRUE
  Keepalives <- Nobody
  MaxEvents = 2
  MaxCollects = 1
INVARIANT AckIsHeld
PROPERTY RowsOnlyGrow
CHECK_DEADLOCK FALSE
