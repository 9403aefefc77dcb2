SPECIFICATION CrSpec
CONSTANTS
  CredIds = {"i1"}
  CredKeys = {"k1", "k2"}
  Attached = {}
  MaxCrEvents = 2
PROPERTY RestartConverges
CHECK_DEADLOCK FALSE
