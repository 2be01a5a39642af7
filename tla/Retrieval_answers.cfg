SPECIFICATION Spec
CONSTANTS
  public = public
  internal = internal
  Clients = {c1}
  Calls = {k1}
  Limit = 2
  Period = 2
  MaxConcurrent = 1
  MaxRedirects = 2
  Timeout = 2
  Public = {public}
  Lookups <- MCLookups
  Null = Null
SYMMETRY Symmetry
INVARIANTS
  DocumentedAnswers
