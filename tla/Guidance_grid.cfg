SPECIFICATION GuidanceSpec
CONSTANTS
  Principles <- MCPrinciples
  Members <- MCMembers
  Parents <- MCParents
  TestSets = {}
  Percents = {}
  Null = Null
  Tests <- MCTests
  Spellings <- MCSpellings
  Metrics <- MCMetrics
  Statuses <- MCStatuses
  Answers <- MCAnswers
INVARIANTS
  NoContradiction
  NotPassedIsExplained
  OfflineAgreesWithFuji
CHECK_DEADLOCK FALSE
