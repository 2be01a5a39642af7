SPECIFICATION Spec
CONSTANTS
  a1 = a1
  a2 = a2
  a3 = a3
  MaxJobs = 4
  Ids = {a1, a2}
  Positions = {1, 2, 3}
  Names <- MCNames
  Plugins <- MCPlugins
  Offline = "offline"
  Tokens <- MCTokens
  Prefixes <- MCPrefixes
  Modes <- MCModes
  Requests <- MixedRequests
  Faults = {"crash", "task_db"}
  Failure = Failure
  Null = Null
SYMMETRY IdSymmetry
INVARIANTS
  TypeOK
  IInv
  ReportAddsUp
  RawMatchesNormalised
  OneRowPerAssessor
PROPERTIES
  ContractSpec
CONSTRAINT BoundedJobs
CHECK_DEADLOCK FALSE
