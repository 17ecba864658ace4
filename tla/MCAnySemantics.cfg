SPECIFICATION Spec
CONSTANTS
  EntryA = EntryA
  OpA = OpA
  OpB = OpB
  CheckFailure = CheckFailure
  Operation <- MCOperation
  EntryValue <- MCEntryValue
  AbstractState <- MCState
  Bottom <- NoFact
  InitialState <- FirstFact
  JoinOp <- UnionJoin
  Transformer <- MCTransformer
  Modules <- MCModules
INVARIANTS TypeOK WorklistComplete LeastSolutionIfMonotone
PROPERTIES StatesGrow Termination ImplementsChaoticIteration
CHECK_DEADLOCK FALSE
