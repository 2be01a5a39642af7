SPECIFICATION PooledFairSpec
CONSTANTS
  a1 = a1
  a2 = a2
  a3 = a3
  MaxJobs = 2
  PoolSize = 1
  Ids = {a1, a2}
  Positions = {1, 2, 3}
  Names <- MCNames
  Plugins <- MCPlugins
  Offline = "offline"
  Tokens <- MCTokens
  Prefixes <- MCPrefixes
  Modes <- MCModes
  Requests <- PooledRequests
  Faults = {"crash", "task_db", "job_db", "lost_ack"}
  Failure = Failure
  Null = Null
INVARIANTS
  NobodyHoldsAndWaits
PROPERTIES
  QueuedTerminates
CONSTRAINT BoundedJobs
CHECK_DEADLOCK FALSE
