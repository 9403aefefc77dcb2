SPECIFICATION McSpec
CONSTANTS
  Insts = {1, 2}
  Contents <- C3
  FirstRows <- C1
  MaxMcEvents = 2
INVARIANT NoOrphan
