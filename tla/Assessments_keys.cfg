SPECIFICATION Spec
CONSTANTS
  a1 = a1
  a2 = a2
  a3 = a3
  MaxJobs = 3
  Ids = {a1, a2, a3}
  Positions = {1, 2, 3}
  Names <- MCNames
  Plugins <- MCPlugins
  Offline = "offline"
  Tokens <- MCTokens
  Prefixes <- MCPrefixes
  Modes <- MCModes
  Requests <- KeyRequests
  Faults = {}
  Failure = Failure
  Null = Null
SYMMETRY IdSymmetry
INVARIANTS
  Provenance
  RawMatchesNormalised
CONSTRAINT BoundedJobs
CHECK_DEADLOCK FALSE
