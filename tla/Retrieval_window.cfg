SPECIFICATION Spec
CONSTANTS
  public = public
  internal = internal
  Clients = {c1}
  Calls = {k1, k2}
  Limit = 2
  Period = 3
  MaxConcurrent = 1
  MaxRedirects = 1
  Timeout = 2
  Public = {public}
  Lookups <- MCLookups
  Null = Null
SYMMETRY Symmetry
INVARIANTS
  AtMostLimitPerPeriod
