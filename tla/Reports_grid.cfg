SPECIFICATION Spec
CONSTANTS
  Principles <- MCPrinciples
  Members <- MCMembers
  Parents <- MCParents
  TestSets <- MCTestSets
  Percents = {Null, 0, 99, 100}
  Null = Null
INVARIANTS
  NoNullColumn
  ChampionNeverFlatters
  ParentsFollowChildren
  ConsensusIsWorst
  ExtremesAreExact
  NothingCountedTwice
CHECK_DEADLOCK FALSE
