SPECIFICATION ReadSpec
CONSTANTS
  a1 = a1
  a2 = a2
  MaxJobs = 2
  Ids = {a1, a2}
  Positions = {1, 2}
  Names <- MCNames
  Plugins <- MCPlugins
  Offline = "offline"
  Tokens <- MCTokens
  Prefixes <- MCPrefixes
  Modes <- MCModes
  Requests <- ReadRequests
  Faults = {"crash", "job_db"}
  Failure = Failure
  Null = Null
  Clients = {c1}
SYMMETRY IdSymmetry
INVARIANTS
  ReadTypeOK
  EndedReportIsWhole
  EndedRawsAreWhole
  GuidanceFitsRow
  HeldIdsAreFound
  OneOrNone
  LatestIsNoOlder
  ListHasHeldIds
CONSTRAINTS
  BoundedJobs
  OneFilter
CHECK_DEADLOCK FALSE
