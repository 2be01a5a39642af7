SPECIFICATION FairSpec
CONSTANTS
  public = public
  internal = internal
  Clients = {c1}
  Calls = {k1, k2, k3}
  Limit = 2
  Period = 3
  MaxConcurrent = 2
  MaxRedirects = 2
  Timeout = 2
  Public = {public}
  Lookups <- MCLookups
  Null = Null
INVARIANTS
  TypeOK
  SlotsAddUp
  OnlyPublicContacted
  LessThanTwoWindows
  RetryAfterSuffices
PROPERTIES
  EveryRetrievalEnds
