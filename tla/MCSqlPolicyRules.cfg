SPECIFICATION Spec
CONSTANTS
  ArbitraryComputation = ArbitraryComputation
  EntryA = EntryA
  Bottom = Bottom
  CheckFailure = CheckFailure
  Tag <- MCTag
  TagName <- MCTagName
  RuleName <- MCRuleName
  Queries <- MCQueries
INVARIANTS TagTablesAgree RulesMatchModule DiesOnlyOnMalformed BackendsAgree
CHECK_DEADLOCK FALSE
