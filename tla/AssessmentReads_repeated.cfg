SPECIFICATION ReadSpec
CONSTANTS
  a1 = a1
  a2 = a2
  MaxJobs = 2
  Ids = {a1}
  Positions = {1, 2}
  Names <- MCNames
  Plugins <- MCPlugins
  Offline = "offline"
  Tokens <- MCTokens
  Prefixes <- MCPrefixes
  Modes <- MCModes
  Requests <- RepeatedRequests
  Faults = {}
  Failure = Failure
  Null = Null
  Clients = {c1}
SYMMETRY IdSymmetry
INVARIANTS
  OneOrNone
CONSTRAINT BoundedJobs
CHECK_DEADLOCK FALSE
