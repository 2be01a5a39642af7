SPECIFICATION Spec
CONSTANTS
  Principles <- MCPrinciples
  Members <- MCMembers
  Parents <- MCParents
  TestSets <- MCTestSets
  Percents = {Null}
  Null = Null
INVARIANTS
  ErrorMeansAllError
CHECK_DEADLOCK FALSE
