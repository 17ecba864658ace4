SPECIFICATION MCSpec
CONSTANTS
  ArbitraryComputation = ArbitraryComputation
  SqlOperators <- MCSqlOperators
  AnyOperand = AnyOperand
  Width = 5
  DirectoryNames <- MCDirectoryNames
  Reads <- MCReads
  Violates <- MCViolates
  MaxTroubles = 2
  Queries <- MCQueries
  Commands <- MCCommands
  Contents <- MCContents
  Leftovers <- MCLeftovers
INVARIANTS DecodesExactlyWellFormed MeaningPreserved ReadsFactsOfThisCall DiesOnlyOnTrouble CleansUp ExitStatusTellsVerdict VerifyJudgesQuery BudgetIsKept
