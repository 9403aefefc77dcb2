CONSTANTS
  Nodes = {1, 2}
  Links = {{1, 2}}
  Credential = {}
  Public = {}
  MaxFaults = 1
  MaxLate = 2
  MaxSessionId = 9
  NoSession = NoSession
SPECIFICATION FairSpec
INVARIANTS TypeOK InitiatorIsElected
PROPERTIES EventuallyRolesAgree EventuallySessionsSpan
