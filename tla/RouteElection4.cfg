CONSTANTS
  Nodes = {1, 2, 3, 4}
  Links = {{1, 3}, {3, 4}, {2, 4}}
  Credential = {}
  Public = {}
  Meshes = {{{1, 3}, {3, 4}, {2, 4}}}
  MaxFaults = 0
  MaxLate = 2
  MaxSessionId = 3
  NoSession = NoSession
SPECIFICATION CoarseSpec
INVARIANTS SettledSpans
